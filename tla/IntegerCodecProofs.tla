------------------------------ MODULE IntegerCodecProofs ------------------------------
(*************************************************************************)
(* What the integer codec promises, for every value of the constants: each*)
(* way of writing a list is read back and takes the space it is said to, *)
(* metadata are read back whatever the reader held, what select() chooses*)
(* describes the integers (Fits) and is not larger than they are, and the*)
(* data of such metadata are read back (DataReadsBack).                  *)
(*************************************************************************)
EXTENDS IntegerCodec, BitpckProofs, VarintProofs

-------------------------------------------------------------------------------
(* Numbers in order.                                                        *)

\* The numbers of a sequence grow.
Growing(s) == \A j, k \in DOMAIN s : j < k => s[j] < s[k]

\* The first numbers of an increasing sequence are as many as they are.
LEMMA FirstNumbers ==
  ASSUME NEW s \in Seq(Nat), Growing(s), NEW n \in 0..Len(s)
  PROVE  IsFiniteSet({s[j] : j \in 1..n}) /\ Cardinality({s[j] : j \in 1..n}) = n
<1>1. PICK len \in Nat : len = Len(s) /\ DOMAIN s = 1..len /\ n \in 0..len
  OBVIOUS
<1> DEFINE first(m) == {s[j] : j \in 1..m}
           Right == {m \in Nat : m <= len =>
                       IsFiniteSet(first(m)) /\ Cardinality(first(m)) = m}
<1>2. 0 \in Right
  <2>1. first(0) = {}
    OBVIOUS
  <2> HIDE DEF first
  <2> QED BY <2>1, FS_EmptySet
<1>3. ASSUME NEW m \in Nat, m \in Right PROVE m + 1 \in Right
  <2> SUFFICES ASSUME m + 1 <= len
               PROVE  IsFiniteSet(first(m + 1)) /\ Cardinality(first(m + 1)) = m + 1
    OBVIOUS
  <2>1. IsFiniteSet(first(m)) /\ Cardinality(first(m)) = m
    BY <1>3
  <2>2. first(m + 1) = first(m) \cup {s[m + 1]}
    OBVIOUS
  <2>3. s[m + 1] \notin first(m)
    <3> SUFFICES ASSUME NEW j \in 1..m, s[j] = s[m + 1] PROVE FALSE
      OBVIOUS
    <3>1. j \in 1..len /\ m + 1 \in 1..len /\ j < m + 1
      OBVIOUS
    <3>2. s[j] < s[m + 1] /\ s[j] \in Nat
      BY <1>1, <3>1 DEF Growing
    <3> QED BY <3>2
  <2> HIDE DEF first
  <2>4. PICK F, x : F = first(m) /\ x = s[m + 1]
    OBVIOUS
  <2>5. IsFiniteSet(F) /\ x \notin F /\ Cardinality(F) = m
    BY <2>1, <2>3, <2>4
  <2>6. IsFiniteSet(F \cup {x}) /\ Cardinality(F \cup {x}) = Cardinality(F) + 1
    BY ONLY <2>5, FS_AddElement
  <2> QED BY <2>2, <2>4, <2>5, <2>6
<1> HIDE DEF Right
<1>4. n \in Right
  <2>1. Right \in SUBSET Nat
    BY DEF Right
  <2>2. Nat \subseteq Right
    BY <1>2, <1>3, <2>1, EveryNumber
  <2>3. n \in Nat
    BY <1>1
  <2> QED BY <2>2, <2>3
<1>5. IsFiniteSet(first(n)) /\ Cardinality(first(n)) = n
  <2> HIDE DEF first
  <2> QED BY <1>1, <1>4 DEF Right
<1> QED BY <1>5

\* The numbers of S begin with those of s.
BeginsWith(S, s) ==
  /\ \A k \in DOMAIN s : s[k] \in S
  /\ \A x \in S : (\E k \in DOMAIN s : x = s[k]) \/ (\A k \in DOMAIN s : s[k] < x)

\* Ordered begins with the sequence that the set begins with.
LEMMA OrderedBegins ==
  ASSUME NEW S \in SUBSET Nat, IsFiniteSet(S), NEW s \in Seq(Nat), Growing(s),
         BeginsWith(S, s)
  PROVE  /\ Len(s) <= Cardinality(S)
         /\ \A k \in 1..Len(s) : Ordered(S)[k] = s[k]
         /\ S = {s[j] : j \in DOMAIN s} => Ordered(S) = s
<1>1. PICK len \in Nat : len = Len(s) /\ DOMAIN s = 1..len
  OBVIOUS
<1>2. \A k \in 1..len : s[k] \in Nat /\ s[k] \in S
  BY <1>1 DEF BeginsWith
<1> DEFINE Below(p) == {q \in S : q <= p}
           ranked == {<<p, Cardinality(Below(p))>> : p \in S}
<1>3. ASSUME NEW k \in 1..len
      PROVE  Below(s[k]) = {s[j] : j \in 1..k} /\ Cardinality(Below(s[k])) = k
  <2>1. ASSUME NEW j \in 1..k PROVE s[j] \in Below(s[k])
    <3>1. j \in 1..len /\ (j = k \/ j < k)
      OBVIOUS
    <3>2. s[j] = s[k] \/ s[j] < s[k]
      BY <1>1, <3>1 DEF Growing
    <3> QED BY <1>2, <3>1, <3>2
  <2>2. ASSUME NEW q \in Below(s[k]) PROVE q \in {s[j] : j \in 1..k}
    <3>1. q \in S /\ q <= s[k] /\ q \in Nat /\ s[k] \in Nat
      BY <1>2
    <3>2. ~(\A j \in 1..len : s[j] < q)
      BY <3>1
    <3>3. PICK j \in 1..len : q = s[j]
      BY <1>1, <3>1, <3>2 DEF BeginsWith
    <3>4. ~(k < j)
      <4> SUFFICES ASSUME k < j PROVE FALSE
        OBVIOUS
      <4>1. s[k] < s[j]
        BY <1>1 DEF Growing
      <4> QED BY <3>1, <3>3, <4>1
    <3>5. j \in 1..k
      BY <3>4
    <3> QED BY <3>3, <3>5
  <2>3. Below(s[k]) = {s[j] : j \in 1..k}
    <3> HIDE DEF Below
    <3> QED BY <2>1, <2>2
  <2>4. k \in 0..Len(s)
    BY <1>1
  <2> HIDE DEF Below
  <2> QED BY <2>3, <2>4, FirstNumbers
<1>4. ASSUME NEW x \in S, \A k \in 1..len : s[k] < x
      PROVE  Cardinality(Below(x)) > len
  <2>1. {s[j] : j \in 1..len} \subseteq Below(x) /\ x \in Below(x)
    <3>1. \A j \in 1..len : s[j] \in Below(x)
      <4> TAKE j \in 1..len
      <4>1. s[j] \in Nat /\ s[j] \in S /\ s[j] < x /\ x \in Nat
        BY <1>2, <1>4
      <4> QED BY <4>1
    <3> QED BY <3>1
  <2>2. x \notin {s[j] : j \in 1..len}
    BY <1>2, <1>4
  <2>3. IsFiniteSet({s[j] : j \in 1..len}) /\ Cardinality({s[j] : j \in 1..len}) = len
    <3>1. len \in 0..Len(s)
      BY <1>1
    <3> QED BY <3>1, FirstNumbers
  <2>4. PICK F : F = {s[j] : j \in 1..len}
    OBVIOUS
  <2>5. IsFiniteSet(F \cup {x}) /\ Cardinality(F \cup {x}) = len + 1
    <3>1. IsFiniteSet(F) /\ Cardinality(F) = len /\ x \notin F
      BY <2>2, <2>3, <2>4
    <3> QED BY <3>1, FS_AddElement
  <2>6. F \cup {x} \subseteq Below(x) /\ Below(x) \subseteq S
    BY <2>1, <2>4
  <2> HIDE DEF Below
  <2>7. IsFiniteSet(Below(x))
    BY <2>6, FS_Subset
  <2>8. Cardinality(F \cup {x}) <= Cardinality(Below(x)) /\ Cardinality(Below(x)) \in Nat
    BY <2>6, <2>7, FS_Subset, FS_CardinalityType
  <2> QED BY <2>5, <2>8
<1>5. len <= Cardinality(S) /\ Cardinality(S) \in Nat
  <2>1. PICK F : F = {s[j] : j \in 1..len}
    OBVIOUS
  <2>2. F \subseteq S
    BY <1>2, <2>1
  <2>3. Cardinality(F) = len
    <3>1. len \in 0..Len(s)
      BY <1>1
    <3> QED BY <2>1, <3>1, FirstNumbers
  <2>4. Cardinality(F) <= Cardinality(S)
    BY <2>2, FS_Subset
  <2> QED BY <2>3, <2>4, FS_CardinalityType
<1>6. ASSUME NEW k \in 1..len PROVE (CHOOSE r \in ranked : r[2] = k)[1] = s[k]
  <2>1. <<s[k], k>> \in ranked
    <3>1. s[k] \in S /\ Cardinality(Below(s[k])) = k
      BY <1>2, <1>3
    <3> HIDE DEF Below
    <3> QED BY <3>1
  <2>2. ASSUME NEW r \in ranked, r[2] = k PROVE r[1] = s[k]
    <3>1. PICK p \in S : r = <<p, Cardinality(Below(p))>>
      OBVIOUS
    <3>2. Cardinality(Below(p)) = k /\ r[1] = p
      BY <2>2, <3>1
    <3> HIDE DEF Below, ranked
    <3>3. CASE \A j \in 1..len : s[j] < p
      <4>1. Cardinality(Below(p)) > len
        BY <1>4, <3>3
      <4> QED BY <3>2, <4>1
    <3>4. CASE ~(\A j \in 1..len : s[j] < p)
      <4>1. PICK j \in 1..len : p = s[j]
        BY <1>1, <3>4 DEF BeginsWith
      <4>2. Cardinality(Below(p)) = j
        BY <1>3, <4>1
      <4> QED BY <3>2, <4>1, <4>2
    <3> QED BY <3>3, <3>4
  <2> HIDE DEF ranked
  <2>3. PICK r : r = CHOOSE q \in ranked : q[2] = k
    OBVIOUS
  <2>4. \E q \in ranked : q[2] = k
    BY <2>1
  <2>5. r \in ranked /\ r[2] = k
    BY <2>3, <2>4
  <2> QED BY <2>2, <2>3, <2>5
<1>7. Ordered(S) = [k \in 1..Cardinality(S) |-> (CHOOSE r \in ranked : r[2] = k)[1]]
  BY DEF Ordered
<1> HIDE DEF ranked
<1>8. \A k \in 1..len : Ordered(S)[k] = s[k]
  <2> TAKE k \in 1..len
  <2>1. k \in 1..Cardinality(S)
    BY <1>5
  <2> QED BY <1>6, <1>7, <2>1
<1>9. ASSUME S = {s[j] : j \in DOMAIN s} PROVE Ordered(S) = s
  <2>1. Cardinality(S) = len
    <3>1. len \in 0..Len(s) /\ S = {s[j] : j \in 1..len}
      BY <1>1, <1>9
    <3> QED BY <3>1, FirstNumbers
  <2>2. s = [k \in 1..len |-> s[k]]
    BY <1>1
  <2> QED BY <1>6, <1>7, <2>1, <2>2
<1> QED BY <1>1, <1>5, <1>8, <1>9

\* Every finite set of numbers can be put in order.
LEMMA OrderedExists ==
  ASSUME NEW n \in Nat, NEW S \in SUBSET (0..(n - 1))
  PROVE  \E s \in Seq(Nat) : Growing(s) /\ S = {s[j] : j \in DOMAIN s}
<1> DEFINE Listed(T) == \E s \in Seq(Nat) : Growing(s) /\ T = {s[j] : j \in DOMAIN s}
           Right == {m \in Nat : \A T \in SUBSET (0..(m - 1)) : Listed(T)}
<1>1. 0 \in Right
  <2>1. \A T \in SUBSET (0..(0 - 1)) : T = {}
    OBVIOUS
  <2>2. Listed({})
    <3>1. <<>> \in Seq(Nat) /\ Growing(<<>>) /\ {} = {<<>>[j] : j \in DOMAIN <<>>}
      BY DEF Growing
    <3> QED BY <3>1
  <2> QED BY <2>1, <2>2
<1>2. ASSUME NEW m \in Nat, m \in Right PROVE m + 1 \in Right
  <2> SUFFICES ASSUME NEW T \in SUBSET (0..((m + 1) - 1)) PROVE Listed(T)
    <3> HIDE DEF Listed
    <3> QED OBVIOUS
  <2>1. T \ {m} \in SUBSET (0..(m - 1))
    OBVIOUS
  <2>2. PICK s \in Seq(Nat) : Growing(s) /\ T \ {m} = {s[j] : j \in DOMAIN s}
    BY <1>2, <2>1
  <2>3. CASE m \notin T
    <3>1. T \ {m} = T
      BY <2>3
    <3> QED BY <2>2, <3>1
  <2>4. CASE m \in T
    <3>1. PICK len \in Nat : len = Len(s) /\ DOMAIN s = 1..len
      OBVIOUS
    <3>2. PICK t \in Seq(Nat) : t = Append(s, m)
      <4>1. Append(s, m) \in Seq(Nat)
        OBVIOUS
      <4> QED BY <4>1
    <3>3. /\ DOMAIN t = 1..(len + 1) /\ t[len + 1] = m
          /\ \A j \in 1..len : t[j] = s[j] /\ s[j] \in Nat
      BY <3>1, <3>2
    <3>4. \A j \in 1..len : s[j] < m
      <4> TAKE j \in 1..len
      <4>1. s[j] \in T \ {m}
        BY <2>2, <3>1
      <4>2. s[j] \in 0..(m - 1)
        BY <2>1, <4>1
      <4> QED BY <4>2
    <3>5. Growing(t)
      <4> SUFFICES ASSUME NEW j \in 1..(len + 1), NEW k \in 1..(len + 1), j < k
                   PROVE  t[j] < t[k]
        BY <3>3 DEF Growing
      <4>1. j \in 1..len
        OBVIOUS
      <4>2. CASE k = len + 1
        BY <3>3, <3>4, <4>1, <4>2
      <4>3. CASE k # len + 1
        <5>1. k \in 1..len
          BY <4>3
        <5>2. s[j] < s[k]
          BY <2>2, <3>1, <4>1, <5>1 DEF Growing
        <5> QED BY <3>3, <4>1, <5>1, <5>2
      <4> QED BY <4>2, <4>3
    <3>6. T = {t[j] : j \in DOMAIN t}
      <4>1. ASSUME NEW x \in T PROVE \E j \in 1..(len + 1) : x = t[j]
        <5>1. CASE x = m
          BY <3>3, <5>1
        <5>2. CASE x # m
          <6>1. PICK j \in 1..len : x = s[j]
            BY <2>2, <3>1, <5>2
          <6> QED BY <3>3, <6>1
        <5> QED BY <5>1, <5>2
      <4>2. ASSUME NEW j \in 1..(len + 1) PROVE t[j] \in T
        <5>1. CASE j = len + 1
          BY <2>4, <3>3, <5>1
        <5>2. CASE j # len + 1
          <6>1. j \in 1..len
            BY <5>2
          <6> QED BY <2>2, <3>1, <3>3, <6>1
        <5> QED BY <5>1, <5>2
      <4> QED BY <3>3, <4>1, <4>2
    <3> QED BY <3>5, <3>6
  <2> QED BY <2>3, <2>4
<1> HIDE DEF Right
<1>3. n \in Right
  BY <1>1, <1>2, EveryNumber
<1> QED BY <1>3 DEF Right

-------------------------------------------------------------------------------
(* Numbers as words.                                                        *)

\* The sum of a function is its total.
LEMMA SumOfTotal ==
  ASSUME NEW S, NEW g, DOMAIN g = S
  PROVE  SumOf(g) = Total(g, S)
BY DEF SumOf, MapThenSumSet, MapThenFoldSet, Total, Sums

\* The number of a set of bits is what the lemmas on numbers call it.
LEMMA NumberIsNumber ==
  ASSUME NEW w
  PROVE  NumberOf(w) = Number(w)
<1> DEFINE g == [x \in w |-> 2^x]
<1>1. NumberOf(w) = SumOf(g)
  BY DEF NumberOf
<1>2. DOMAIN g = w
  OBVIOUS
<1>3. SumOf(g) = (CHOOSE f : Sums(f, g, w))[w]
  <2> HIDE DEF g
  <2> QED BY <1>2, SumOfTotal DEF Total
<1>4. ASSUME NEW f PROVE SumsBits(f, w) <=> Sums(f, g, w)
  <2>1. ASSUME NEW s \in SUBSET w, s # {}
        PROVE  g[CHOOSE x \in s : TRUE] = 2^(CHOOSE x \in s : TRUE)
    BY <2>1
  <2> HIDE DEF g
  <2>2. [s \in SUBSET w |->
           IF s = {} THEN 0
           ELSE 2^(CHOOSE x \in s : TRUE) + f[s \ {CHOOSE x \in s : TRUE}]]
        = [s \in SUBSET w |->
             IF s = {} THEN 0
             ELSE g[CHOOSE x \in s : TRUE] + f[s \ {CHOOSE x \in s : TRUE}]]
    BY <2>1
  <2> QED BY <2>2 DEF SumsBits, Sums
<1>5. (CHOOSE f : Sums(f, g, w)) = CHOOSE f : SumsBits(f, w)
  BY <1>4
<1> QED BY <1>1, <1>3, <1>5 DEF Number

\* A number below a power of two has no more bits than that.
LEMMA UsedCountBelow ==
  ASSUME NEW u \in Nat, NEW n \in Nat
  PROVE  u < 2^n <=> UsedCount(u) <= n
<1>1. PICK k \in Nat : k = UsedCount(u) /\ u < 2^k /\ (u # 0 => k - 1 \in Nat /\ 2^(k - 1) <= u)
  BY UsedCountFacts
<1>2. PICK x \in Nat, y \in Nat \ {0} : x = 2^k /\ y = 2^n
  BY PowerType
<1>3. ASSUME k <= n PROVE u < 2^n
  <2>1. x <= y
    BY <1>2, <1>3, PowerOrder
  <2> QED BY <1>1, <1>2, <2>1
<1>4. ASSUME u < 2^n PROVE k <= n
  <2>1. CASE u = 0
    <3>1. k = 0
      BY <1>1, <2>1, UsedCountNext
    <3> QED BY <3>1
  <2>2. CASE u # 0
    <3> SUFFICES ASSUME n < k PROVE FALSE
      OBVIOUS
    <3>1. PICK j \in Nat : j = k - 1 /\ 2^j <= u /\ n <= j
      BY <1>1, <2>2
    <3>2. PICK z \in Nat : z = 2^j
      BY PowerType
    <3>3. y <= z
      BY <1>2, <3>1, <3>2, PowerOrder
    <3> QED BY <1>2, <1>4, <3>1, <3>2, <3>3
  <2> QED BY <2>1, <2>2
<1> QED BY <1>1, <1>3, <1>4

\* A word stands for the number that it was made from, and its low bits for the
\* remainder.
LEMMA WordFacts ==
  ASSUME NEW u \in Nat, NEW nbits \in Nat
  PROVE  /\ WordOf(u) \in SUBSET (0..(UsedCount(u) - 1))
         /\ NumberOf(WordOf(u)) = u
         /\ NumberOf(WordOf(u) \cap Mask(nbits)) = u % 2^nbits
<1>1. PICK n \in Nat : n = UsedCount(u) /\ u < 2^n
  BY UsedCountFacts
<1>2. PICK S \in SUBSET (0..(n - 1)) : Number(S) = u
  BY <1>1, NumberOfBits
<1>3. \A k \in 0..(n - 1) : (u \div 2^k) % 2 = 1 <=> k \in S
  <2> TAKE k \in 0..(n - 1)
  <2>1. k \in Nat
    OBVIOUS
  <2>2. (Number(S) \div 2^k) % 2 = 1 <=> k \in S
    BY <2>1, NumberBit
  <2> QED BY <1>2, <2>2
<1>4. WordOf(u) = S
  BY <1>1, <1>3 DEF WordOf
<1>5. Number(S) % 2^nbits = Number(LowBits(S, nbits))
  BY NumberBit
<1> QED BY <1>1, <1>2, <1>4, <1>5, NumberIsNumber DEF LowBits, Mask

-------------------------------------------------------------------------------
(* Blocks in memory.                                                        *)

\* A byte of the block in memory is a number of as many bits.
LEMMA BytesOfWord ==
  ASSUME NEW S \in SUBSET Nat, NEW first \in Nat
  PROVE  LET part == {b - first : b \in S \cap (first..(first + ByteBits - 1))}
         IN /\ part \in SUBSET (0..(ByteBits - 1))
            /\ NumberOf(part) \in 0..(2^ByteBits - 1)
            /\ \A k \in 0..(ByteBits - 1) :
                 (NumberOf(part) \div 2^k) % 2 = 1 <=> first + k \in S
<1> DEFINE part == {b - first : b \in S \cap (first..(first + ByteBits - 1))}
<1>1. ByteBits \in Nat
  BY ByteAssumption
<1>2. part \in SUBSET (0..(ByteBits - 1))
  BY <1>1
<1>3. \A k \in 0..(ByteBits - 1) : k \in part <=> first + k \in S
  <2> TAKE k \in 0..(ByteBits - 1)
  <2>1. ASSUME first + k \in S PROVE k \in part
    <3>1. first + k \in S \cap (first..(first + ByteBits - 1)) /\ k = (first + k) - first
      BY <1>1, <2>1
    <3> QED BY <3>1
  <2>2. ASSUME k \in part PROVE first + k \in S
    <3>1. PICK b \in S \cap (first..(first + ByteBits - 1)) : k = b - first
      BY <2>2
    <3>2. b = first + k
      BY <1>1, <3>1
    <3> QED BY <3>1, <3>2
  <2> QED BY <2>1, <2>2
<1> HIDE DEF part
<1>4. Number(part) \in Nat /\ Number(part) < 2^ByteBits /\ 2^ByteBits \in Nat
  BY <1>1, <1>2, NumberBelow, PowerType
<1>5. \A k \in 0..(ByteBits - 1) : (Number(part) \div 2^k) % 2 = 1 <=> k \in part
  <2> TAKE k \in 0..(ByteBits - 1)
  <2>1. k \in Nat
    BY <1>1
  <2> QED BY <1>1, <1>2, <2>1, NumberBit
<1>6. NumberOf(part) = Number(part)
  BY NumberIsNumber
<1>7. NumberOf(part) \in 0..(2^ByteBits - 1)
  BY <1>4, <1>6
<1> QED BY <1>2, <1>3, <1>5, <1>6, <1>7 DEF part

\* A block is two words, each of a whole number of bytes.
LEMMA BlockSizeFacts ==
  /\ ByteBits \in Nat \ {0, 1} /\ WordBits \in Nat \ {0} /\ BlockSize \in Nat \ {0}
  /\ BlockSize * ByteBits = 2 * WordBits
  /\ \E half \in Nat \ {0} : half * ByteBits = WordBits /\ BlockSize = 2 * half
<1>1. ByteBits \in Nat \ {0, 1} /\ WordBits \in Nat \ {0} /\ WordBits % ByteBits = 0
  BY ByteAssumption, WordAssumption, SizesAssumption
<1>2. PICK half \in Nat : half = WordBits \div ByteBits /\ WordBits = half * ByteBits
  <2>1. WordBits \div ByteBits \in Nat /\ WordBits = (WordBits \div ByteBits) * ByteBits + 0
    BY <1>1, Division
  <2>2. PICK half : half = WordBits \div ByteBits
    OBVIOUS
  <2>3. half \in Nat /\ half * ByteBits \in Nat /\ WordBits = half * ByteBits + 0
    BY <1>1, <2>1, <2>2, ProductType
  <2> QED BY <2>2, <2>3
<1>3. half # 0
  <2> SUFFICES ASSUME half = 0 PROVE FALSE
    OBVIOUS
  <2>1. half * ByteBits = 0
    BY <1>1
  <2> QED BY <1>1, <1>2, <2>1
<1>4. (2 * half) * ByteBits = 2 * WordBits
  <2>1. (half + half) * ByteBits = half * ByteBits + half * ByteBits
    BY <1>1
  <2>2. half + half = 2 * half
    OBVIOUS
  <2> QED BY <1>1, <1>2, <2>1, <2>2
<1>5. BlockSize = 2 * half
  <2>1. PICK n \in Nat : n = 2 * half
    OBVIOUS
  <2>2. 0 \in 0..(ByteBits - 1) /\ n * ByteBits \in Nat /\ n * ByteBits = 2 * WordBits
    BY <1>1, <1>4, <2>1, ProductType
  <2>3. (n * ByteBits + 0) \div ByteBits = n
    <3>1. 0 \in 0..(ByteBits - 1) /\ n \in Nat /\ ByteBits \in Nat \ {0}
      BY <1>1, <2>2
    <3> QED BY ONLY <3>1, DivisionUnique
  <2>4. n * ByteBits + 0 = 2 * WordBits
    BY <2>2
  <2> QED BY <2>1, <2>3, <2>4 DEF BlockSize
<1> QED BY <1>1, <1>2, <1>3, <1>4, <1>5

\* The bits of a block as one row.
RowOf(block) == block.u \cup {WordBits + b : b \in block.v}

\* The bits of the bytes of a block are those of its words.
LEMMA BlockInMemory ==
  ASSUME NEW block \in [u : SUBSET Word, v : SUBSET Word]
  PROVE  /\ Len(BlockBytes(block)) = BlockSize
         /\ BlockBytes(block) \in Seq(0..(2^ByteBits - 1))
         /\ \A p \in 0..(2 * WordBits - 1) :
              (BlockBytes(block)[1 + p \div ByteBits] \div 2^(p % ByteBits)) % 2 = 1
                <=> p \in RowOf(block)
<1> DEFINE first(k) == ByteBits * (k - 1)
           part(k) == {b - first(k) : b \in RowOf(block) \cap
                                              (first(k)..(first(k) + ByteBits - 1))}
<1>1. BlockBytes(block) = [k \in 1..BlockSize |-> NumberOf(part(k))]
  BY DEF BlockBytes, RowOf
<1>2. RowOf(block) \in SUBSET Nat
  BY BlockSizeFacts DEF RowOf, Word
<1>3. ASSUME NEW k \in 1..BlockSize
      PROVE  /\ NumberOf(part(k)) \in 0..(2^ByteBits - 1)
             /\ \A j \in 0..(ByteBits - 1) :
                  (NumberOf(part(k)) \div 2^j) % 2 = 1 <=> first(k) + j \in RowOf(block)
  <2>1. PICK f \in Nat : f = first(k)
    <3>1. k - 1 \in Nat /\ ByteBits \in Nat
      BY BlockSizeFacts
    <3> QED BY <3>1, ProductType
  <2> HIDE DEF first
  <2> QED BY <1>2, <2>1, BytesOfWord
<1>4. BlockBytes(block) \in Seq(0..(2^ByteBits - 1)) /\ Len(BlockBytes(block)) = BlockSize
  <2> HIDE DEF part
  <2>1. BlockSize \in Nat
    BY BlockSizeFacts
  <2> QED BY <1>1, <1>3, <2>1
<1>5. ASSUME NEW p \in 0..(2 * WordBits - 1)
      PROVE  (BlockBytes(block)[1 + p \div ByteBits] \div 2^(p % ByteBits)) % 2 = 1
                <=> p \in RowOf(block)
  <2>1. PICK q \in Nat, r \in 0..(ByteBits - 1) :
          q = p \div ByteBits /\ r = p % ByteBits /\ p = q * ByteBits + r
    <3>1. p \in Nat /\ ByteBits \in Nat \ {0}
      BY BlockSizeFacts
    <3> QED BY <3>1, Division
  <2>2. q < BlockSize
    <3> SUFFICES ASSUME BlockSize <= q PROVE FALSE
      BY BlockSizeFacts
    <3>1. BlockSize * ByteBits <= q * ByteBits
      BY BlockSizeFacts, ProductOrder
    <3>2. q * ByteBits \in Nat
      BY BlockSizeFacts, ProductType
    <3> QED BY <2>1, <3>1, <3>2, BlockSizeFacts
  <2>3. PICK k \in 1..BlockSize : k = 1 + q
    BY <2>2, BlockSizeFacts
  <2>4. first(k) + r = p
    <3>1. first(k) = q * ByteBits
      BY <2>3, BlockSizeFacts
    <3> QED BY <2>1, <3>1
  <2>5. (NumberOf(part(k)) \div 2^r) % 2 = 1 <=> first(k) + r \in RowOf(block)
    <3> HIDE DEF part, first
    <3> QED BY <1>3
  <2> HIDE DEF part, first
  <2>6. BlockBytes(block)[1 + p \div ByteBits] = NumberOf(part(k))
    BY <1>1, <2>1, <2>3
  <2> QED BY <2>1, <2>4, <2>5, <2>6
<1> QED BY <1>4, <1>5

\* A block is read from memory as it was written.
LEMMA BlockReadsBack ==
  ASSUME NEW block \in [u : SUBSET Word, v : SUBSET Word],
         NEW stream, NEW at, StandsAt(stream, at, BlockBytes(block))
  PROVE  BlockAt(stream, at) = block
<1>1. \A k \in 1..BlockSize : stream[at + k - 1] = BlockBytes(block)[k] /\ at \in Nat
  BY BlockInMemory DEF StandsAt
<1> DEFINE bit(p) == (stream[at + p \div ByteBits] \div 2^(p % ByteBits)) % 2 = 1
<1>2. ASSUME NEW p \in 0..(2 * WordBits - 1) PROVE bit(p) <=> p \in RowOf(block)
  <2>1. PICK q \in Nat : q = p \div ByteBits /\ q < BlockSize
    <3>1. p \in Nat /\ ByteBits \in Nat \ {0}
      BY BlockSizeFacts
    <3>2. PICK q \in Nat, r \in 0..(ByteBits - 1) : q = p \div ByteBits /\ p = q * ByteBits + r
      BY <3>1, Division
    <3>3. q < BlockSize
      <4> SUFFICES ASSUME BlockSize <= q PROVE FALSE
        BY BlockSizeFacts
      <4>1. BlockSize * ByteBits <= q * ByteBits
        BY BlockSizeFacts, ProductOrder
      <4>2. q * ByteBits \in Nat
        BY BlockSizeFacts, ProductType
      <4> QED BY <3>2, <4>1, <4>2, BlockSizeFacts
    <3> QED BY <3>2, <3>3
  <2>2. PICK k \in 1..BlockSize : k = 1 + q
    BY <2>1, BlockSizeFacts
  <2>3. stream[at + q] = BlockBytes(block)[1 + q]
    <3>1. at + k - 1 = at + q
      BY <1>1, <2>2
    <3> QED BY <1>1, <2>2, <3>1
  <2>4. stream[at + p \div ByteBits] = BlockBytes(block)[1 + p \div ByteBits]
    BY <2>1, <2>3
  <2> QED BY <2>4, BlockInMemory
<1>3. BlockAt(stream, at) = [u |-> {b \in Word : bit(b)}, v |-> {b \in Word : bit(WordBits + b)}]
  BY DEF BlockAt
<1> HIDE DEF bit
<1>4. \A b \in Word : /\ b \in 0..(2 * WordBits - 1) /\ WordBits + b \in 0..(2 * WordBits - 1)
                      /\ b \in RowOf(block) <=> b \in block.u
                      /\ WordBits + b \in RowOf(block) <=> b \in block.v
  <2> TAKE b \in Word
  <2>1. block.u \subseteq Word /\ block.v \subseteq Word /\ WordBits \in Nat
    BY BlockSizeFacts
  <2>2. b \in RowOf(block) <=> b \in block.u
    BY <2>1 DEF RowOf, Word
  <2>3. WordBits + b \in RowOf(block) <=> b \in block.v
    BY <2>1 DEF RowOf, Word
  <2> QED BY <2>1, <2>2, <2>3 DEF Word
<1>5. {b \in Word : bit(b)} = block.u /\ {b \in Word : bit(WordBits + b)} = block.v
  BY <1>2, <1>4
<1> QED BY <1>3, <1>5

-------------------------------------------------------------------------------
(* Bit-packing.                                                             *)

\* What a byte and a word hold.
ByteValues == 0..(2^ByteBits - 1)

WordValues == 0..(2^WordBits - 1)

\* How many of count integers block b takes.
Share(b, count, nbits) == Least(Capacity(nbits), count - (b - 1) * Capacity(nbits))

\* The integers of the blocks as rows.
BlockRows(ends, count, nbits) ==
  /\ ends \in [0..BlockNumber(count, nbits) -> 0..count]
  /\ ends[0] = 0 /\ ends[BlockNumber(count, nbits)] = count
  /\ \A b \in 1..BlockNumber(count, nbits) :
       /\ ends[b - 1] = (b - 1) * Capacity(nbits)
       /\ ends[b] = ends[b - 1] + Share(b, count, nbits)
       /\ Share(b, count, nbits) \in 1..Capacity(nbits)
  /\ \A i \in 1..count : \E b \in 1..BlockNumber(count, nbits) :
       \E k \in 1..Share(b, count, nbits) : i = (b - 1) * Capacity(nbits) + k

\* The integers of a list lie in the rows that the blocks take.
LEMMA BlockRowsExist ==
  ASSUME NEW nbits \in 1..WordBits, NEW count \in Nat
  PROVE  BlockNumber(count, nbits) \in Nat /\ \E ends : BlockRows(ends, count, nbits)
<1>1. PICK C \in Nat \ {0} : C = Capacity(nbits)
  BY CapacityType
<1>2. CASE count = 0
  <2>1. BlockNumber(count, nbits) = 0
    BY <1>2, NoBlocksNeeded
  <2> DEFINE ends == [b \in 0..0 |-> 0]
  <2>2. BlockRows(ends, count, nbits)
    BY <1>2, <2>1 DEF BlockRows
  <2> QED BY <2>1, <2>2
<1>3. CASE count # 0
  <2>1. PICK q \in Nat, r \in 0..(C - 1) : count - 1 = q * C + r /\ q * C \in Nat
    <3>1. count - 1 \in Nat
      BY <1>3
    <3> QED BY <3>1, Division, ProductType
  <2>2. BlockNumber(count, nbits) = q + 1
    <3>1. r + 1 \in 1..Capacity(nbits)
      BY <1>1
    <3>2. BlockNumber(q * C + (r + 1), nbits) = q + 1
      BY <1>1, <3>1, BlocksNeeded
    <3>3. q * C + (r + 1) = count
      BY <2>1
    <3> QED BY <3>2, <3>3
  <2>3. ASSUME NEW j \in 0..q
        PROVE  /\ j * C \in Nat /\ j * C <= q * C /\ j * C < count
               /\ j < q => j * C + C <= count /\ j * C + C = (j + 1) * C
    <3>1. j \in Nat
      OBVIOUS
    <3>2. j * C \in Nat /\ j * C <= q * C
      BY <3>1, ProductType, ProductOrder
    <3>3. j < q => j * C + C <= q * C
      BY <3>1, RowsApart
    <3>4. j * C + C = (j + 1) * C
      BY <3>1, ProductNext
    <3> QED BY <2>1, <3>2, <3>3, <3>4
  <2> DEFINE ends == [b \in 0..(q + 1) |-> IF b = q + 1 THEN count ELSE b * C]
  <2>4. ends \in [0..(q + 1) -> 0..count] /\ ends[0] = 0 /\ ends[q + 1] = count
    <3>1. \A b \in 0..(q + 1) : ends[b] \in 0..count
      <4> TAKE b \in 0..(q + 1)
      <4>1. b # q + 1 => b \in 0..q
        OBVIOUS
      <4>2. b # q + 1 => b * C \in 0..count
        BY <2>3, <4>1
      <4> QED BY <4>2
    <3>2. 0 * C = 0 /\ 0 \in 0..(q + 1) /\ 0 # q + 1
      OBVIOUS
    <3>3. ends[0] = 0
      BY <3>2
    <3>4. ends[q + 1] = count
      OBVIOUS
    <3> QED BY <3>1, <3>3, <3>4
  <2>5. ASSUME NEW b \in 1..(q + 1)
        PROVE  /\ ends[b - 1] = (b - 1) * C
               /\ ends[b] = ends[b - 1] + Share(b, count, nbits)
               /\ Share(b, count, nbits) \in 1..C
    <3>1. PICK j \in 0..q : j = b - 1
      OBVIOUS
    <3>2. ends[j] = j * C /\ ends[b] = IF j = q THEN count ELSE (j + 1) * C
      BY <3>1
    <3>3. PICK x \in Nat : x = j * C /\ x < count /\ (j < q => x + C <= count /\ x + C = (j + 1) * C)
      BY <2>3
    <3>4. Share(b, count, nbits) = IF C < count - x THEN C ELSE count - x
      BY <1>1, <3>1, <3>3 DEF Share, Least
    <3>5. CASE j < q
      <4>1. Share(b, count, nbits) = C
        BY <3>3, <3>4, <3>5
      <4> QED BY <3>1, <3>2, <3>3, <3>5, <4>1
    <3>6. CASE j = q
      <4>1. count - x \in 1..C
        BY <2>1, <3>3, <3>6
      <4>2. Share(b, count, nbits) = count - x
        BY <3>4, <4>1
      <4> QED BY <3>1, <3>2, <3>3, <3>6, <4>1, <4>2
    <3> QED BY <3>5, <3>6
  <2>6. ASSUME NEW i \in 1..count
        PROVE  \E b \in 1..(q + 1) : \E k \in 1..Share(b, count, nbits) : i = (b - 1) * C + k
    <3>1. PICK j \in Nat, s \in 0..(C - 1) : i - 1 = j * C + s /\ j * C \in Nat
      <4>1. i - 1 \in Nat
        OBVIOUS
      <4> QED BY <4>1, Division, ProductType
    <3>2. j <= q
      <4> SUFFICES ASSUME q < j PROVE FALSE
        OBVIOUS
      <4>1. q * C + C <= j * C
        BY RowsApart
      <4> QED BY <2>1, <3>1, <4>1
    <3>3. PICK b \in 1..(q + 1) : b = j + 1 /\ b - 1 = j
      BY <3>2
    <3>4. Share(b, count, nbits) = IF C < count - j * C THEN C ELSE count - j * C
      BY <1>1, <3>3 DEF Share, Least
    <3>5. s + 1 \in 1..Share(b, count, nbits)
      BY <3>1, <3>4
    <3>6. i = (b - 1) * C + (s + 1)
      BY <3>1, <3>3
    <3> QED BY <3>5, <3>6
  <2> HIDE DEF ends
  <2>7. BlockRows(ends, count, nbits)
    <3>1. PICK B : B = q + 1 /\ B = BlockNumber(count, nbits)
      BY <2>2
    <3>2. ends \in [0..B -> 0..count] /\ ends[0] = 0 /\ ends[B] = count
      BY <2>4, <3>1
    <3>3. \A b \in 1..B : /\ ends[b - 1] = (b - 1) * C
                          /\ ends[b] = ends[b - 1] + Share(b, count, nbits)
                          /\ Share(b, count, nbits) \in 1..C
      BY <2>5, <3>1
    <3>4. \A i \in 1..count : \E b \in 1..B :
            \E k \in 1..Share(b, count, nbits) : i = (b - 1) * C + k
      BY <2>6, <3>1
    <3>5. C = Capacity(nbits)
      BY <1>1
    <3>6. \A i \in 1..count : \E b \in 1..B :
            \E k \in 1..Share(b, count, nbits) : i = (b - 1) * Capacity(nbits) + k
      BY ONLY <3>4, <3>5, Zenon
    <3>7. \A b \in 1..B : /\ ends[b - 1] = (b - 1) * Capacity(nbits)
                          /\ ends[b] = ends[b - 1] + Share(b, count, nbits)
                          /\ Share(b, count, nbits) \in 1..Capacity(nbits)
      BY ONLY <3>3, <3>5, Zenon
    <3>8. PICK N : N = BlockNumber(count, nbits) /\ B = N
      BY <3>1
    <3> QED BY ONLY <3>2, <3>6, <3>7, <3>8 DEF BlockRows
  <2> QED BY <2>2, <2>7
<1> QED BY <1>2, <1>3

\* A block of the encoding, and the words in it.
EncodedPart(us, b, nbits) == BlockEncode(BlockWords(us, b, nbits), nbits)

\* A block holds its share of the list, and each place of it is fetched back.
LEMMA PartFacts ==
  ASSUME NEW nbits \in 1..WordBits, NEW us \in Seq(WordValues),
         NEW b \in 1..BlockNumber(Len(us), nbits)
  PROVE  /\ EncodedPart(us, b, nbits) \in [u : SUBSET Word, v : SUBSET Word]
         /\ \A k \in 1..Share(b, Len(us), nbits) :
              /\ (b - 1) * Capacity(nbits) + k \in 1..Len(us)
              /\ BlockFetch(EncodedPart(us, b, nbits), k - 1, nbits) =
                   WordOf(us[(b - 1) * Capacity(nbits) + k]) \cap Mask(nbits)
<1>0. PICK count \in Nat, C \in Nat \ {0} : count = Len(us) /\ C = Capacity(nbits)
  BY CapacityType
<1>1. PICK n, x :
        count = Len(us) /\ C = Capacity(nbits) /\ n = Share(b, count, nbits)
          /\ x = (b - 1) * C
  BY <1>0
<1>2. x \in Nat /\ n \in 1..C /\ n <= count - x
  <2>1. PICK ends : BlockRows(ends, count, nbits)
    BY BlockRowsExist
  <2>2. b - 1 \in Nat
    BY BlockRowsExist, <1>1
  <2>3. x \in Nat
    BY <1>1, <2>2, ProductType
  <2>4. n \in 1..C
    BY <1>1, <2>1 DEF BlockRows
  <2>5. n = IF C < count - x THEN C ELSE count - x
    BY <1>1 DEF Share, Least
  <2> QED BY <2>3, <2>4, <2>5
<1> DEFINE words == BlockWords(us, b, nbits)
<1>3. words = [i \in 1..n |-> WordOf(us[x + i])]
  BY <1>1 DEF BlockWords, Share
<1>4. \A i \in 1..n : x + i \in 1..Len(us) /\ WordOf(us[x + i]) \in SUBSET Word
  <2> TAKE i \in 1..n
  <2>1. x + i \in 1..Len(us)
    <3>1. x \in Nat /\ count \in Nat /\ n \in Nat /\ n <= count - x /\ i \in 1..n
      BY <1>2
    <3>2. x + i \in 1..count
      BY ONLY <3>1
    <3> QED BY <1>1, <3>2
  <2>2. PICK u \in WordValues : u = us[x + i]
    BY <2>1
  <2>3. u \in Nat /\ u < 2^WordBits /\ WordBits \in Nat
    BY WordAssumption, PowerType DEF WordValues
  <2>4. UsedCount(u) \in Nat /\ UsedCount(u) <= WordBits
    BY <2>3, UsedCountBelow, UsedCountFacts
  <2>5. WordOf(u) \in SUBSET (0..(UsedCount(u) - 1))
    <3>1. 0 \in Nat
      OBVIOUS
    <3> QED BY <2>3, <3>1, WordFacts
  <2> QED BY <2>1, <2>2, <2>3, <2>4, <2>5 DEF Word
<1>5. words \in Seq(SUBSET Word) /\ Len(words) = n /\ \A i \in 1..n : words[i] = WordOf(us[x + i])
  <2>1. n \in Nat /\ \A i \in 1..n : words[i] = WordOf(us[x + i])
    BY <1>2, <1>3
  <2>2. \A i \in 1..n : words[i] \in SUBSET Word
    BY <1>4, <2>1
  <2>3. words = [i \in 1..n |-> words[i]]
    BY <1>3
  <2> HIDE DEF words
  <2>4. words \in Seq(SUBSET Word) /\ Len(words) = n
    BY <2>1, <2>2, <2>3
  <2> QED BY <2>1, <2>4
<1> HIDE DEF words
<1>6. EncodedPart(us, b, nbits) = BlockEncode(words, nbits)
  BY DEF EncodedPart, words
<1>7. PICK block \in [u : SUBSET Word, v : SUBSET Word] : block = BlockEncode(words, nbits)
  BY <1>5, EncodedType
<1>8. Holds(block.u, block.v, words, 0, n, nbits)
  <2> SUFFICES ASSUME NEW p \in 0..(2 * WordBits - 1)
               PROVE  Bit(block.u, block.v, p) <=>
                        p < n * nbits /\ (p % nbits) \in words[0 + (p \div nbits) + 1]
    BY DEF Holds
  <2>1. Len(words) <= Capacity(nbits)
    BY <1>1, <1>2, <1>5
  <2>2. Bit(block.u, block.v, p) <=>
          p < n * nbits /\ (p % nbits) \in words[(p \div nbits) + 1]
    BY <1>5, <1>7, <2>1, EncodedBits
  <2>3. 0 + (p \div nbits) + 1 = (p \div nbits) + 1
    <3>1. p \in Nat /\ nbits \in Nat \ {0}
      BY WordAssumption
    <3>2. p \div nbits \in Nat
      BY <3>1, Division
    <3> QED BY <3>2
  <2> QED BY <2>2, <2>3
<1>9. ASSUME NEW k \in 1..n
      PROVE  BlockFetch(block, k - 1, nbits) = WordOf(us[x + k]) \cap Mask(nbits)
  <2>1. 0 \in Nat /\ n \in Nat /\ k - 1 \in Nat /\ k - 1 < n /\ n <= Capacity(nbits)
    BY <1>1, <1>2
  <2>2. PICK i \in Nat : i = k - 1
    BY <2>1
  <2>3. BlockFetch(block, i, nbits) = words[0 + i + 1] \cap Mask(nbits)
    BY <1>8, <2>1, <2>2, FetchedInteger
  <2>4. 0 + i + 1 = k
    BY <1>2, <2>2
  <2> QED BY <1>5, <2>2, <2>3, <2>4
<1> QED BY <1>1, <1>4, <1>6, <1>7, <1>9

\* The bytes of the blocks, one behind the other.
LEMMA PackedRows ==
  ASSUME NEW nbits \in 1..WordBits, NEW us \in Seq(WordValues)
  PROVE  /\ PackedBytes(us, nbits) \in Seq(ByteValues)
         /\ Len(PackedBytes(us, nbits)) = PackedSpace(Len(us), nbits)
         /\ \A stream \in Seq(ByteValues) : \A at \in Nat :
              StandsAt(stream, at, PackedBytes(us, nbits)) =>
                \A b \in 1..BlockNumber(Len(us), nbits) :
                  BlockAt(stream, at + (b - 1) * BlockSize) = EncodedPart(us, b, nbits)
<1>1. PICK B \in Nat : B = BlockNumber(Len(us), nbits)
  BY BlockRowsExist
<1> DEFINE rows == [b \in 1..B |-> BlockBytes(EncodedPart(us, b, nbits))]
           ends == [b \in 0..B |-> b * BlockSize]
<1>2. PackedBytes(us, nbits) = FlattenSeq(rows)
  BY <1>1 DEF PackedBytes, EncodedPart
<1>3. ASSUME NEW b \in 1..B
      PROVE  /\ EncodedPart(us, b, nbits) \in [u : SUBSET Word, v : SUBSET Word]
             /\ rows[b] = BlockBytes(EncodedPart(us, b, nbits))
             /\ rows[b] \in Seq(ByteValues) /\ Len(rows[b]) = BlockSize
  <2>1. EncodedPart(us, b, nbits) \in [u : SUBSET Word, v : SUBSET Word]
    BY <1>1, PartFacts
  <2>2. rows[b] = BlockBytes(EncodedPart(us, b, nbits))
    OBVIOUS
  <2> HIDE DEF rows
  <2> QED BY <2>1, <2>2, BlockInMemory DEF ByteValues
<1>4. rows \in Seq(Seq(ByteValues)) /\ Len(rows) = B
  <2>1. rows = [b \in 1..B |-> rows[b]]
    OBVIOUS
  <2> HIDE DEF rows
  <2> QED BY <1>3, <2>1
<1>5. EndsOf(ends, rows)
  <2>1. BlockSize \in Nat
    BY BlockSizeFacts
  <2>2. \A b \in 0..B : b * BlockSize \in Nat
    <3> TAKE b \in 0..B
    <3>1. b \in Nat
      OBVIOUS
    <3> QED BY <2>1, <3>1, ProductType
  <2>3. ends \in [0..Len(rows) -> Nat]
    BY <1>4, <2>2
  <2>4. ends[0] = 0
    BY <2>1
  <2>5. ASSUME NEW b \in 1..B PROVE ends[b] = ends[b - 1] + BlockSize
    <3>1. b - 1 \in Int /\ b \in 0..B /\ b - 1 \in 0..B
      OBVIOUS
    <3>2. PICK j \in Int : j = b - 1 /\ b = j + 1
      BY <3>1
    <3>3. (j + 1) * BlockSize = j * BlockSize + BlockSize
      BY <2>1, ProductNext
    <3> QED BY <3>1, <3>2, <3>3
  <2> HIDE DEF ends, rows
  <2> QED BY <1>3, <1>4, <2>3, <2>4, <2>5 DEF EndsOf
<1>6. ends[B] = PackedSpace(Len(us), nbits)
  <2>1. B * BlockSize = BlockSize * B
    BY BlockSizeFacts
  <2> QED BY <1>1, <2>1 DEF PackedSpace
<1>7. ASSUME NEW stream \in Seq(ByteValues), NEW at \in Nat,
             StandsAt(stream, at, PackedBytes(us, nbits)), NEW b \in 1..B
      PROVE  BlockAt(stream, at + (b - 1) * BlockSize) = EncodedPart(us, b, nbits)
  <2>1. ends[b - 1] = (b - 1) * BlockSize
    OBVIOUS
  <2> HIDE DEF ends, rows
  <2>2. StandsAt(stream, at + ends[b - 1], rows[b])
    BY <1>2, <1>4, <1>5, <1>7, StandsInRows
  <2> QED BY <1>3, <2>1, <2>2, BlockReadsBack
<1> HIDE DEF ends, rows
<1>8. PackedBytes(us, nbits) \in Seq(ByteValues) /\ Len(PackedBytes(us, nbits)) = ends[B]
  BY <1>2, <1>4, <1>5, FlattenRows
<1> QED BY <1>1, <1>6, <1>7, <1>8

\* Where nothing that is packed is lost, the packed integers are read back.
LEMMA PackedReadsBack ==
  ASSUME NEW nbits \in 1..WordBits, NEW us \in Seq(WordValues),
         NEW stream \in Seq(ByteValues), NEW at \in Nat,
         StandsAt(stream, at, PackedBytes(us, nbits))
  PROVE  ReadPacked(stream, at, Len(us), nbits) =
           [us |-> [i \in 1..Len(us) |-> us[i] % 2^nbits],
            next |-> at + Len(PackedBytes(us, nbits))]
<1>1. PICK count \in Nat, B \in Nat, C \in Nat \ {0} :
        count = Len(us) /\ B = BlockNumber(count, nbits) /\ C = Capacity(nbits)
  BY BlockRowsExist, CapacityType
<1>2. PICK ends : BlockRows(ends, count, nbits)
  BY BlockRowsExist
<1> DEFINE words(b) == BlockDecode(BlockAt(stream, at + (b - 1) * BlockSize),
                                   Least(count - (b - 1) * C, C), nbits)
           rows == [b \in 1..B |-> words(b)]
           ws == FlattenSeq(rows)
<1>3. ReadPacked(stream, at, Len(us), nbits) =
        [us |-> [i \in DOMAIN ws |-> NumberOf(ws[i])],
         next |-> at + PackedSpace(count, nbits)]
  BY <1>1 DEF ReadPacked
<1>4. ASSUME NEW b \in 1..B
      PROVE  /\ rows[b] \in Seq(SUBSET Nat) /\ Len(rows[b]) = Share(b, count, nbits)
             /\ \A k \in 1..Share(b, count, nbits) :
                  rows[b][k] = WordOf(us[(b - 1) * C + k]) \cap Mask(nbits)
  <2>0. PICK n \in 1..C : n = Share(b, count, nbits)
    BY <1>1, <1>2 DEF BlockRows
  <2>1. PICK x : n = Share(b, count, nbits) /\ x = (b - 1) * C
    BY <2>0
  <2>2. x \in Nat
    <3>1. b - 1 \in Nat
      OBVIOUS
    <3> QED BY <2>1, <3>1, ProductType
  <2>3. Least(count - x, C) = n
    <3>1. n = IF C < count - x THEN C ELSE count - x
      BY <1>1, <2>1 DEF Share, Least
    <3> QED BY <2>2, <3>1 DEF Least
  <2>4. PICK block : block = EncodedPart(us, b, nbits)
                       /\ BlockAt(stream, at + (b - 1) * BlockSize) = block
    BY <1>1, PackedRows
  <2>5. rows[b] = BlockDecode(block, n, nbits)
    BY <2>1, <2>3, <2>4
  <2> HIDE DEF rows
  <2>6. \A k \in 1..n : rows[b][k] = WordOf(us[x + k]) \cap Mask(nbits)
    <3> TAKE k \in 1..n
    <3>1. n \in Nat
      OBVIOUS
    <3>2. BlockDecode(block, n, nbits)[k] = BlockFetch(block, k - 1, nbits)
      BY <3>1, DecodedInteger
    <3>3. BlockFetch(block, k - 1, nbits) = WordOf(us[x + k]) \cap Mask(nbits)
      BY <1>1, <2>1, <2>4, PartFacts
    <3> QED BY <2>5, <3>2, <3>3
  <2>7. DOMAIN rows[b] = 1..n /\ rows[b] = [k \in 1..n |-> rows[b][k]]
    BY <2>5 DEF BlockDecode
  <2>8. \A k \in 1..n : rows[b][k] \in SUBSET Nat
    <3> TAKE k \in 1..n
    <3>1. rows[b][k] \subseteq Mask(nbits)
      BY <2>6
    <3> QED BY <3>1 DEF Mask
  <2>9. rows[b] \in Seq(SUBSET Nat) /\ Len(rows[b]) = n
    <3>1. n \in Nat
      OBVIOUS
    <3> QED BY <2>7, <2>8, <3>1
  <2> QED BY <2>1, <2>6, <2>9
<1>5. rows \in Seq(Seq(SUBSET Nat)) /\ Len(rows) = B
  <2>1. rows = [b \in 1..B |-> rows[b]]
    OBVIOUS
  <2> HIDE DEF rows
  <2> QED BY <1>4, <2>1
<1> HIDE DEF rows
<1>6. EndsOf(ends, rows)
  BY <1>1, <1>2, <1>4, <1>5 DEF BlockRows, EndsOf
<1>7. ws \in Seq(SUBSET Nat) /\ Len(ws) = count /\ InRows(ws, rows, ends, B)
  BY <1>1, <1>2, <1>5, <1>6, FlattenRows DEF BlockRows
<1> HIDE DEF ws
<1>8. ASSUME NEW i \in 1..count PROVE NumberOf(ws[i]) = us[i] % 2^nbits
  <2>1. PICK b \in 1..B : \E k \in 1..Share(b, count, nbits) : i = (b - 1) * C + k
    BY <1>1, <1>2 DEF BlockRows
  <2>2. PICK k \in 1..Share(b, count, nbits) : i = (b - 1) * C + k
    BY <2>1
  <2>3. ends[b - 1] = (b - 1) * C
    BY <1>1, <1>2 DEF BlockRows
  <2>4. ws[i] = rows[b][k]
    BY <1>4, <1>7, <2>2, <2>3 DEF InRows
  <2>5. ws[i] = WordOf(us[i]) \cap Mask(nbits)
    BY <1>4, <2>2, <2>4
  <2>6. PICK u \in Nat : u = us[i]
    <3>1. us[i] \in WordValues
      BY <1>1
    <3> QED BY <3>1 DEF WordValues
  <2>7. NumberOf(WordOf(u) \cap Mask(nbits)) = u % 2^nbits
    <3>1. nbits \in Nat
      BY WordAssumption
    <3> QED BY <3>1, WordFacts
  <2> QED BY <2>5, <2>6, <2>7
<1>9. Len(PackedBytes(us, nbits)) = PackedSpace(count, nbits)
  BY <1>1, PackedRows
<1>10. [i \in DOMAIN ws |-> NumberOf(ws[i])] = [i \in 1..Len(us) |-> us[i] % 2^nbits]
  <2>1. DOMAIN ws = 1..count
    BY <1>7
  <2> QED BY <1>1, <1>8, <2>1
<1> QED BY <1>1, <1>3, <1>9, <1>10

-------------------------------------------------------------------------------
(* Sums.                                                                    *)

\* Whatever sums up, sums up to the total.
LEMMA SumIsTotal ==
  ASSUME NEW S, IsFiniteSet(S), NEW g \in [S -> Nat], NEW f, Sums(f, g, S)
  PROVE  f[S] = Total(g, S)
<1>1. PICK e : Sums(e, g, S) /\ Total(g, S) = e[S]
  BY TotalSums
<1>2. S \in SUBSET S
  OBVIOUS
<1> QED BY <1>1, <1>2, SumsSame

\* The ends of rows are the sum of their lengths.
LEMMA EndsTotal ==
  ASSUME NEW S, NEW seqs \in Seq(Seq(S)), NEW ends, EndsOf(ends, seqs),
         NEW g \in [1..Len(seqs) -> Nat], \A i \in 1..Len(seqs) : g[i] = Len(seqs[i])
  PROVE  ends[Len(seqs)] = Total(g, 1..Len(seqs))
<1>1. PICK len \in Nat : len = Len(seqs)
  OBVIOUS
<1> DEFINE upto(m) == [i \in 1..m |-> g[i]]
           Right == {m \in Nat : m <= len => ends[m] = Total(upto(m), 1..m)}
<1>2. ASSUME NEW m \in Nat, m <= len
      PROVE  upto(m) \in [1..m -> Nat] /\ IsFiniteSet(1..m)
  <2>1. \A i \in 1..m : i \in 1..Len(seqs) /\ g[i] \in Nat
    BY <1>1, <1>2
  <2>2. IsFiniteSet(1..m)
    <3>1. 1 \in Int /\ m \in Int
      OBVIOUS
    <3> QED BY <3>1, FS_Interval
  <2> QED BY <2>1, <2>2
<1>3. 0 \in Right
  <2>1. PICK zero : zero = upto(0)
    OBVIOUS
  <2>2. zero \in [{} -> Nat] /\ 1..0 = {}
    BY <2>1
  <2>3. Total(zero, {}) = 0
    BY <2>2, TotalType, FS_EmptySet
  <2>4. ends[0] = 0
    BY DEF EndsOf
  <2> HIDE DEF upto
  <2>5. ends[0] = Total(upto(0), 1..0)
    BY <2>1, <2>2, <2>3, <2>4
  <2> QED BY <2>5
<1>4. ASSUME NEW m \in Nat, m \in Right PROVE m + 1 \in Right
  <2> SUFFICES ASSUME m + 1 <= len PROVE ends[m + 1] = Total(upto(m + 1), 1..(m + 1))
    <3> HIDE DEF upto
    <3> QED OBVIOUS
  <2>1. ends[m] = Total(upto(m), 1..m)
    <3> HIDE DEF upto
    <3> QED BY <1>4
  <2>2. PICK a, b, x, T : a = upto(m) /\ b = upto(m + 1) /\ x = m + 1 /\ T = 1..m
    OBVIOUS
  <2>3. a \in [T -> Nat] /\ b \in [1..(m + 1) -> Nat] /\ IsFiniteSet(T)
    <3> HIDE DEF upto
    <3> QED BY <1>2, <2>2
  <2>4. 1..(m + 1) = T \cup {x} /\ x \notin T
    BY <2>2
  <2>5. b[x] = g[m + 1] /\ \A y \in T : a[y] = b[y]
    BY <2>2
  <2>6. Total(b, T \cup {x}) = b[x] + Total(a, T)
    BY <2>3, <2>4, <2>5, TotalAdd
  <2>7. m + 1 \in 1..len /\ m \in 0..len
    OBVIOUS
  <2>8. ends[m + 1] = ends[m] + g[m + 1]
    <3>1. ends[m + 1] = ends[(m + 1) - 1] + Len(seqs[m + 1])
      BY <1>1, <2>7 DEF EndsOf
    <3>2. (m + 1) - 1 = m
      OBVIOUS
    <3> QED BY <1>1, <2>7, <3>1, <3>2
  <2>9. ends[m] \in Nat /\ g[m + 1] \in Nat
    BY <1>1, <2>7 DEF EndsOf
  <2> HIDE DEF upto
  <2>10. Total(upto(m + 1), 1..(m + 1)) = Total(b, T \cup {x})
    BY <2>2, <2>4
  <2>11. Total(b, T \cup {x}) = g[m + 1] + ends[m]
    BY <2>1, <2>2, <2>5, <2>6
  <2>12. g[m + 1] + ends[m] = ends[m] + g[m + 1]
    BY <2>9
  <2> QED BY <2>8, <2>10, <2>11, <2>12
<1> HIDE DEF Right
<1>5. len \in Right
  BY <1>3, <1>4, EveryNumber
<1>6. upto(len) = g
  BY <1>1
<1> QED BY <1>1, <1>5, <1>6 DEF Right

\* Every place is in one of the rows.
Covered(seqs, ends, p) ==
  \E i \in 1..Len(seqs) : \E k \in 1..Len(seqs[i]) : p = ends[i - 1] + k

\* Every place of a flattened sequence lies in one of its rows.
LEMMA RowsCover ==
  ASSUME NEW S, NEW seqs \in Seq(Seq(S)), NEW ends, EndsOf(ends, seqs),
         NEW p \in 1..ends[Len(seqs)]
  PROVE  Covered(seqs, ends, p)
<1>1. PICK len \in Nat : len = Len(seqs)
  OBVIOUS
<1>2. \A m \in 0..len : ends[m] \in Nat
  BY <1>1 DEF EndsOf
<1> DEFINE Later == {m \in Nat : m <= len /\ p <= ends[m]}
<1>3. PICK m \in Later : \A n \in Later : m <= n
  <2>1. len \in Later
    BY <1>1, <1>2
  <2>2. Later \subseteq Nat /\ Later # {}
    BY <2>1
  <2> HIDE DEF Later
  <2> QED BY <2>2, LeastNumber
<1>4. m # 0
  BY <1>2 DEF EndsOf
<1>5. m \in 1..len /\ m - 1 \in 0..len /\ m - 1 \notin Later
  BY <1>3, <1>4
<1>6. ends[m - 1] < p
  BY <1>1, <1>2, <1>5
<1>7. ends[m] = ends[m - 1] + Len(seqs[m]) /\ Len(seqs[m]) \in Nat
  <2>1. seqs[m] \in Seq(S)
    BY <1>1, <1>5
  <2> QED BY <1>1, <1>5, <2>1 DEF EndsOf
<1>8. PICK k : k = p - ends[m - 1]
  OBVIOUS
<1>9. k \in 1..Len(seqs[m]) /\ p = ends[m - 1] + k
  <2>1. p \in Nat /\ ends[m - 1] \in Nat /\ ends[m] \in Nat /\ p <= ends[m]
    BY <1>1, <1>2, <1>3, <1>5
  <2> QED BY <1>6, <1>7, <1>8, <2>1
<1> QED BY <1>1, <1>5, <1>9 DEF Covered

\* The lengths of rows add up.
LEMMA EndsExist ==
  ASSUME NEW S, NEW seqs \in Seq(Seq(S))
  PROVE  \E ends : EndsOf(ends, seqs)
<1>1. PICK f : Flattened(f, seqs, S)
  BY FlattenFacts
<1>2. PICK len \in Nat : len = Len(seqs)
  OBVIOUS
<1> DEFINE ends == [i \in 0..len |-> Len(f[i])]
<1>3. f[0] = <<>> /\ (\A i \in 0..len : f[i] \in Seq(S))
      /\ \A i \in 1..len : f[i] = f[i - 1] \o seqs[i] /\ seqs[i] \in Seq(S)
  <2>1. \A i \in 1..len : seqs[i] \in Seq(S)
    BY <1>2
  <2>2. f \in [0..len -> Seq(S)]
    BY <1>1, <1>2 DEF Flattened
  <2>3. f[0] = <<>> /\ \A i \in 1..len : f[i] = f[i - 1] \o seqs[i]
    BY <1>1, <1>2 DEF Flattened
  <2> QED BY <2>1, <2>2, <2>3
<1>4. ASSUME NEW i \in 1..len PROVE ends[i] = ends[i - 1] + Len(seqs[i])
  <2>1. i - 1 \in 0..len /\ i \in 0..len
    OBVIOUS
  <2>2. PICK a \in Seq(S), b \in Seq(S) : a = f[i - 1] /\ b = seqs[i] /\ f[i] = a \o b
    BY <1>3, <2>1
  <2>3. Len(a \o b) = Len(a) + Len(b)
    OBVIOUS
  <2> QED BY <2>1, <2>2, <2>3
<1>5. ends \in [0..len -> Nat] /\ ends[0] = 0
  <2>1. \A i \in 0..len : Len(f[i]) \in Nat
    BY <1>3
  <2>2. Len(f[0]) = 0
    BY <1>3
  <2> QED BY <2>1, <2>2
<1> HIDE DEF ends
<1>6. EndsOf(ends, seqs)
  BY <1>2, <1>4, <1>5 DEF EndsOf
<1> QED BY <1>6

\* A sequence of what lies in a smaller set.
LEMMA Retyped ==
  ASSUME NEW S, NEW T, NEW s \in Seq(S), \A k \in 1..Len(s) : s[k] \in T
  PROVE  s \in Seq(T)
<1>1. PICK n \in Nat : n = Len(s)
  OBVIOUS
<1>2. s \in [1..n -> T]
  BY <1>1
<1> QED BY ONLY <1>2, SeqDef

-------------------------------------------------------------------------------
(* Variable-length integers.                                                *)

\* The bytes of each of the integers.
ValueRows(us) == [i \in 1..Len(us) |-> ValueBytes(us[i])]

\* Every integer of a list is written as at least one byte.
LEMMA ValueRowsType ==
  ASSUME NEW us \in Seq(Nat)
  PROVE  /\ ValueRows(us) \in Seq(Seq(ByteValues)) /\ Len(ValueRows(us)) = Len(us)
         /\ \A i \in 1..Len(us) : /\ us[i] \in Nat
                                  /\ ValueRows(us)[i] = ValueBytes(us[i])
                                  /\ ValueBytes(us[i]) \in Seq(ByteValues)
                                  /\ Len(ValueBytes(us[i])) \in Nat \ {0}
<1>1. ASSUME NEW u \in Nat
      PROVE  ValueBytes(u) \in Seq(ByteValues) /\ Len(ValueBytes(u)) \in Nat \ {0}
  <2>1. PICK n \in Nat \ {0} : n = Len(ValueBytes(u))
    BY ValueBytesShape
  <2>2. ValueBytes(u) \in Seq(Nat)
    BY ValueBytesNext
  <2>3. \A k \in 1..n : ValueBytes(u)[k] \in ByteValues
    <3> TAKE k \in 1..n
    <3>1. Continue \in Nat /\ 2^ByteBits = 2 * Continue
      BY ContinueFacts
    <3>2. CASE k = n
      <4>1. ValueBytes(u)[n] \in 0..(Continue - 1)
        BY <2>1, ValueBytesShape
      <4> QED BY <3>1, <3>2, <4>1 DEF ByteValues
    <3>3. CASE k # n
      <4>1. k \in 1..(n - 1)
        BY <3>3
      <4>2. ValueBytes(u)[k] \in Continue..(2 * Continue - 1)
        BY <2>1, <4>1, ValueBytesShape
      <4> QED BY <3>1, <4>2 DEF ByteValues
    <3> QED BY <3>2, <3>3
  <2>4. ValueBytes(u) \in Seq(ByteValues)
    <3>1. PICK s \in Seq(Nat) : s = ValueBytes(u)
      BY <2>2
    <3>2. n = Len(s) /\ \A k \in 1..n : s[k] \in ByteValues
      BY <2>1, <2>3, <3>1
    <3> QED BY <3>1, <3>2, Retyped
  <2> QED BY <2>1, <2>4
<1>2. PICK n \in Nat : n = Len(us)
  OBVIOUS
<1>3. \A i \in 1..n : us[i] \in Nat
  BY <1>2
<1>4. \A i \in 1..n : ValueRows(us)[i] = ValueBytes(us[i])
  BY <1>2 DEF ValueRows
<1>5. \A i \in 1..n : ValueBytes(us[i]) \in Seq(ByteValues) /\ Len(ValueBytes(us[i])) \in Nat \ {0}
  BY <1>1, <1>3
<1>6. ValueRows(us) \in Seq(Seq(ByteValues)) /\ Len(ValueRows(us)) = n
  <2>1. ValueRows(us) = [i \in 1..n |-> ValueRows(us)[i]]
    BY <1>2 DEF ValueRows
  <2>2. \A i \in 1..n : ValueRows(us)[i] \in Seq(ByteValues)
    BY <1>4, <1>5
  <2> QED BY <1>2, <2>1, <2>2
<1> QED BY <1>2, <1>3, <1>4, <1>5, <1>6

\* The rows of a sequence, joined by halves.
JoinedRows(f, us) ==
  f = [r \in (0..Len(us)) \X (0..Len(us)) |->
         IF r[1] >= r[2] THEN <<>>
         ELSE IF r[1] + 1 = r[2] THEN ValueBytes(us[r[2]])
         ELSE f[<<r[1], (r[1] + r[2]) \div 2>>] \o f[<<(r[1] + r[2]) \div 2, r[2]>>]]

\* What stands between two ends of rows.
Between(bytes, ends, a, c) ==
  IF a >= c THEN <<>> ELSE SubSeq(bytes, ends[a] + 1, ends[c])

\* Bytes between two ends are joined of those up to and from an end between them.
JoinedHalves(bytes, ends, us) ==
  /\ \A a, c \in 0..Len(us) :
       a + 1 = c => Between(bytes, ends, a, c) = ValueBytes(us[c])
  /\ \A a, b, c \in 0..Len(us) :
       a < b /\ b < c =>
         Between(bytes, ends, a, c) = Between(bytes, ends, a, b) \o Between(bytes, ends, b, c)

\* What stands between two ends is joined of its halves.
LEMMA JoinedBetween ==
  ASSUME NEW us \in Seq(Nat), NEW ends, EndsOf(ends, ValueRows(us)), NEW bytes,
         bytes = FlattenSeq(ValueRows(us))
  PROVE  JoinedHalves(bytes, ends, us)
<1>1. PICK n \in Nat, seqs \in Seq(Seq(ByteValues)) :
        /\ n = Len(us) /\ seqs = ValueRows(us) /\ Len(seqs) = n
        /\ \A i \in 1..n : seqs[i] = ValueBytes(us[i]) /\ ValueBytes(us[i]) \in Seq(ByteValues)
                             /\ Len(seqs[i]) \in Nat
  <2>1. Len(us) \in Nat /\ ValueRows(us) \in Seq(Seq(ByteValues)) /\ Len(ValueRows(us)) = Len(us)
    BY ValueRowsType
  <2>2. ASSUME NEW i \in 1..Len(us)
        PROVE  /\ ValueRows(us)[i] = ValueBytes(us[i]) /\ ValueBytes(us[i]) \in Seq(ByteValues)
               /\ Len(ValueRows(us)[i]) \in Nat
    BY ValueRowsType
  <2> QED BY <2>1, <2>2
<1>2. /\ \A i \in 0..n : ends[i] \in Nat
      /\ \A i \in 1..n : ends[i] = ends[i - 1] + Len(seqs[i])
  BY <1>1 DEF EndsOf
<1>3. /\ bytes \in Seq(ByteValues) /\ Len(bytes) = ends[n]
      /\ InRows(bytes, seqs, ends, n)
  BY <1>1, FlattenRows
<1>4. ASSUME NEW a \in 0..n, NEW c \in 0..n, a <= c PROVE ends[a] <= ends[c]
  <2> DEFINE Right == {d \in Nat : a + d \in 0..n => ends[a] <= ends[a + d]}
  <2>1. 0 \in Right
    BY <1>2
  <2>2. ASSUME NEW d \in Nat, d \in Right PROVE d + 1 \in Right
    <3> SUFFICES ASSUME a + (d + 1) \in 0..n PROVE ends[a] <= ends[a + (d + 1)]
      OBVIOUS
    <3>1. PICK j \in 1..n : j = a + (d + 1) /\ j - 1 = a + d /\ a + d \in 0..n
      OBVIOUS
    <3>2. PICK x \in Nat, y \in Nat, z \in Nat, l \in Nat :
            x = ends[a] /\ y = ends[j - 1] /\ z = ends[j] /\ l = Len(seqs[j]) /\ z = y + l
      <4>1. j - 1 \in 0..n /\ j \in 0..n /\ Len(seqs[j]) \in Nat
        BY <1>1, <3>1
      <4>2. ends[a] \in Nat /\ ends[j - 1] \in Nat /\ ends[j] \in Nat
            /\ ends[j] = ends[j - 1] + Len(seqs[j])
        BY <1>2, <4>1
      <4> QED BY <4>1, <4>2
    <3>3. x <= y
      BY <2>2, <3>1, <3>2
    <3> QED BY <3>1, <3>2, <3>3
  <2> HIDE DEF Right
  <2>3. Nat \subseteq Right
    BY <2>1, <2>2, EveryNumber
  <2>4. PICK d \in Nat : d = c - a /\ a + d = c
    <3>1. c - a \in Nat /\ a + (c - a) = c
      BY <1>4
    <3> QED BY <3>1
  <2> QED BY <2>3, <2>4 DEF Right
<1>5. ASSUME NEW a \in 0..n, NEW c \in 0..n, a + 1 = c
      PROVE  Between(bytes, ends, a, c) = ValueBytes(us[c])
  <2>1. PICK x \in Nat, y \in Nat, l \in Nat :
          x = ends[a] /\ y = ends[c] /\ l = Len(seqs[c]) /\ y = x + l /\ y <= ends[n]
    <3>1. c \in 1..n /\ c - 1 = a /\ n \in 0..n /\ c <= n
      BY <1>5
    <3>2. ends[c] = ends[a] + Len(seqs[c]) /\ Len(seqs[c]) \in Nat
      BY <1>1, <1>2, <3>1
    <3>3. ends[a] \in Nat /\ ends[c] \in Nat /\ ends[c] <= ends[n]
      BY <1>2, <1>4, <3>1
    <3> QED BY <3>2, <3>3
  <2>2. c \in 1..n /\ c - 1 = a
    BY <1>5
  <2>3. \A k \in 1..l : x + k \in 1..ends[n] /\ bytes[x + k] = seqs[c][k]
    BY <1>3, <2>1, <2>2 DEF InRows
  <2>4. seqs[c] \in Seq(ByteValues)
    BY <1>1, <2>2
  <2>5. Between(bytes, ends, a, c) = SubSeq(bytes, x + 1, y)
    <3>1. ~(a >= c)
      BY <1>5
    <3> QED BY <2>1, <3>1 DEF Between
  <2>6. PICK part : part = SubSeq(bytes, x + 1, y)
    OBVIOUS
  <2>7. /\ Len(part) = l /\ \A k \in 1..l : part[k] = bytes[x + k]
        /\ part \in Seq(ByteValues)
    <3>1. x + 1 \in 1..(Len(bytes) + 1) /\ y \in ((x + 1) - 1)..Len(bytes)
          /\ y - (x + 1) + 1 = l
      <4>1. x \in Nat /\ l \in Nat /\ y = x + l /\ Len(bytes) \in Nat /\ y <= Len(bytes)
        BY <1>3, <2>1
      <4> QED BY ONLY <4>1
    <3>2. /\ part \in Seq(ByteValues) /\ Len(part) = l
          /\ \A k \in 1..l : part[k] = bytes[(x + 1) + k - 1]
      BY <1>3, <2>6, <3>1, SubSeqProperties
    <3>3. \A k \in 1..l : (x + 1) + k - 1 = x + k
      BY <2>1
    <3> QED BY <3>2, <3>3
  <2>8. part = seqs[c]
    <3>1. Len(part) = Len(seqs[c]) /\ \A k \in 1..Len(part) : part[k] = seqs[c][k]
      BY <2>1, <2>3, <2>7
    <3> QED BY <2>4, <2>7, <3>1, SeqEqual
  <2> QED BY <1>1, <2>2, <2>5, <2>6, <2>8
<1>6. ASSUME NEW a \in 0..n, NEW b \in 0..n, NEW c \in 0..n, a < b, b < c
      PROVE  Between(bytes, ends, a, c) =
               Between(bytes, ends, a, b) \o Between(bytes, ends, b, c)
  <2>1. PICK x \in Nat, y \in Nat, z \in Nat :
          x = ends[a] /\ y = ends[b] /\ z = ends[c] /\ x <= y /\ y <= z /\ z <= Len(bytes)
    <3>1. n \in 0..n /\ c <= n /\ a <= b /\ b <= c
      BY <1>6
    <3> QED BY <1>2, <1>3, <1>4, <3>1
  <2>2. a < c
    BY <1>6
  <2>3. x + 1 \in 1..(Len(bytes) + 1) /\ y \in ((x + 1) - 1)..Len(bytes)
        /\ z \in y..Len(bytes)
    <3>1. Len(bytes) \in Nat /\ x <= y /\ y <= z /\ z <= Len(bytes)
      BY <1>3, <2>1
    <3> QED BY <3>1
  <2>4. SubSeq(bytes, x + 1, y) \o SubSeq(bytes, y + 1, z) = SubSeq(bytes, x + 1, z)
    <3>1. PICK m \in 1..(Len(bytes) + 1) : m = x + 1 /\ y \in (m - 1)..Len(bytes)
      BY <2>3
    <3>2. SubSeq(bytes, m, y) \o SubSeq(bytes, y + 1, z) = SubSeq(bytes, m, z)
      BY <1>3, <2>3, <3>1, ConcatAdjacentSubSeq
    <3> QED BY <3>1, <3>2
  <2>5. ~(a >= b) /\ ~(b >= c) /\ ~(a >= c)
    BY <1>6, <2>2
  <2>6. /\ Between(bytes, ends, a, b) = SubSeq(bytes, x + 1, y)
        /\ Between(bytes, ends, b, c) = SubSeq(bytes, y + 1, z)
        /\ Between(bytes, ends, a, c) = SubSeq(bytes, x + 1, z)
    BY <2>1, <2>5 DEF Between
  <2> QED BY <2>4, <2>6
<1>7. Len(us) = n
  BY <1>1
<1> QED BY ONLY <1>5, <1>6, <1>7 DEF JoinedHalves

\* Joined by halves, they are the rows one after another.
LEMMA Joined ==
  ASSUME NEW us \in Seq(Nat)
  PROVE  VarintBytes(us) = FlattenSeq(ValueRows(us))
<1>1. PICK n \in Nat, seqs \in Seq(Seq(ByteValues)) :
        n = Len(us) /\ seqs = ValueRows(us) /\ Len(seqs) = n
  BY ValueRowsType
<1>2. PICK ends : EndsOf(ends, seqs)
  BY EndsExist
<1>3. PICK bytes : bytes = FlattenSeq(seqs)
  OBVIOUS
<1>3a. /\ \A a, c \in 0..n :
            a + 1 = c => Between(bytes, ends, a, c) = ValueBytes(us[c])
       /\ \A a, b, c \in 0..n :
            a < b /\ b < c =>
              Between(bytes, ends, a, c) = Between(bytes, ends, a, b) \o Between(bytes, ends, b, c)
  <2>1. EndsOf(ends, ValueRows(us)) /\ bytes = FlattenSeq(ValueRows(us)) /\ Len(us) = n
    BY <1>1, <1>2, <1>3
  <2>2. JoinedHalves(bytes, ends, us)
    BY <2>1, JoinedBetween
  <2> QED BY <2>1, <2>2 DEF JoinedHalves
<1>4. PICK J : J = [r \in (0..n) \X (0..n) |-> Between(bytes, ends, r[1], r[2])]
  OBVIOUS
<1>5. ASSUME NEW a \in 0..n, NEW c \in 0..n, a < c, a + 1 # c
      PROVE  /\ (a + c) \div 2 \in 0..n /\ a < (a + c) \div 2 /\ (a + c) \div 2 < c
  BY <1>5
<1>6. JoinedRows(J, us)
  <2>1. ASSUME NEW r \in (0..n) \X (0..n)
        PROVE  J[r] =
                 IF r[1] >= r[2] THEN <<>>
                 ELSE IF r[1] + 1 = r[2] THEN ValueBytes(us[r[2]])
                 ELSE J[<<r[1], (r[1] + r[2]) \div 2>>] \o J[<<(r[1] + r[2]) \div 2, r[2]>>]
    <3>1. PICK a \in 0..n, c \in 0..n : r = <<a, c>> /\ a = r[1] /\ c = r[2]
      OBVIOUS
    <3>2. J[r] = Between(bytes, ends, a, c)
      BY <1>4, <3>1
    <3>3. CASE a >= c
      BY <3>1, <3>2, <3>3 DEF Between
    <3>4. CASE a + 1 = c
      <4>1. Between(bytes, ends, a, c) = ValueBytes(us[c]) /\ ~(a >= c)
        BY <1>3a, <3>4
      <4> QED BY <3>1, <3>2, <3>4, <4>1
    <3>5. CASE a < c /\ a + 1 # c
      <4>1. PICK b \in 0..n : b = (a + c) \div 2 /\ a < b /\ b < c
        BY <1>5, <3>5
      <4>2. Between(bytes, ends, a, c) =
              Between(bytes, ends, a, b) \o Between(bytes, ends, b, c)
        BY <1>3a, <4>1
      <4>3. J[<<a, b>>] = Between(bytes, ends, a, b) /\ J[<<b, c>>] = Between(bytes, ends, b, c)
        BY <1>4
      <4>4. ~(a >= c)
        BY <3>5
      <4> QED BY <3>1, <3>2, <3>5, <4>1, <4>2, <4>3, <4>4
    <3> QED BY <3>3, <3>4, <3>5
  <2>2. DOMAIN J = (0..n) \X (0..n)
    BY <1>4
  <2>3. J = [r \in (0..n) \X (0..n) |-> J[r]]
    BY <1>4
  <2> QED BY <1>1, <2>1, <2>3 DEF JoinedRows
<1>7. ASSUME NEW f, JoinedRows(f, us) PROVE f[<<0, n>>] = J[<<0, n>>]
  <2> DEFINE Right == {d \in Nat : \A a, c \in 0..n : c <= a + d => f[<<a, c>>] = J[<<a, c>>]}
  <2>1. ASSUME NEW a \in 0..n, NEW c \in 0..n, NEW g, JoinedRows(g, us)
        PROVE  g[<<a, c>>] =
                 IF a >= c THEN <<>>
                 ELSE IF a + 1 = c THEN ValueBytes(us[c])
                 ELSE g[<<a, (a + c) \div 2>>] \o g[<<(a + c) \div 2, c>>]
    <3>1. PICK r \in (0..n) \X (0..n) : r = <<a, c>> /\ r[1] = a /\ r[2] = c
      <4>1. <<a, c>> \in (0..n) \X (0..n) /\ <<a, c>>[1] = a /\ <<a, c>>[2] = c
        OBVIOUS
      <4> QED BY <4>1
    <3> QED BY <1>1, <2>1, <3>1 DEF JoinedRows
  <2>2. 0 \in Right
    <3> SUFFICES ASSUME NEW a \in 0..n, NEW c \in 0..n, c <= a + 0
                 PROVE  f[<<a, c>>] = J[<<a, c>>]
      OBVIOUS
    <3>1. a >= c
      OBVIOUS
    <3>2. f[<<a, c>>] = <<>>
      BY <1>7, <2>1, <3>1
    <3>3. J[<<a, c>>] = <<>>
      BY <1>6, <2>1, <3>1
    <3> QED BY <3>2, <3>3
  <2>3. ASSUME NEW d \in Nat, d \in Right PROVE d + 1 \in Right
    <3> SUFFICES ASSUME NEW a \in 0..n, NEW c \in 0..n, c <= a + (d + 1)
                 PROVE  f[<<a, c>>] = J[<<a, c>>]
      OBVIOUS
    <3>1. CASE a < c /\ a + 1 # c
      <4>1. PICK b \in 0..n : b = (a + c) \div 2 /\ a < b /\ b < c
        BY <1>5, <3>1
      <4>2. f[<<a, b>>] = J[<<a, b>>] /\ f[<<b, c>>] = J[<<b, c>>]
        <5>1. b <= a + d /\ c <= b + d
          BY <4>1
        <5> QED BY <2>3, <5>1
      <4>3. ~(a >= c)
        BY <3>1
      <4>4. f[<<a, c>>] = f[<<a, b>>] \o f[<<b, c>>]
        BY <1>7, <2>1, <3>1, <4>1, <4>3
      <4>5. J[<<a, c>>] = J[<<a, b>>] \o J[<<b, c>>]
        BY <1>6, <2>1, <3>1, <4>1, <4>3
      <4> QED BY <4>2, <4>4, <4>5
    <3>2. CASE ~(a < c /\ a + 1 # c)
      <4>1. a >= c \/ (~(a >= c) /\ a + 1 = c)
        BY <3>2
      <4>2. f[<<a, c>>] = IF a >= c THEN <<>> ELSE ValueBytes(us[c])
        BY <1>7, <2>1, <4>1
      <4>3. J[<<a, c>>] = IF a >= c THEN <<>> ELSE ValueBytes(us[c])
        BY <1>6, <2>1, <4>1
      <4> QED BY <4>2, <4>3
    <3> QED BY <3>1, <3>2
  <2> HIDE DEF Right
  <2>4. n \in Right
    BY <2>2, <2>3, EveryNumber
  <2>5. 0 \in 0..n /\ n \in 0..n /\ n <= 0 + n
    OBVIOUS
  <2> QED BY <2>4, <2>5 DEF Right
<1>8. VarintBytes(us) = (CHOOSE f : JoinedRows(f, us))[<<0, n>>]
  BY <1>1 DEF VarintBytes, JoinedRows
<1>9. PICK f : f = CHOOSE e : JoinedRows(e, us)
  OBVIOUS
<1>10. JoinedRows(f, us)
  BY <1>6, <1>9
<1>11. VarintBytes(us) = Between(bytes, ends, 0, n)
  <2>1. f[<<0, n>>] = J[<<0, n>>]
    BY <1>7, <1>10
  <2>2. 0 \in 0..n /\ n \in 0..n
    OBVIOUS
  <2> QED BY <1>4, <1>8, <1>9, <2>1, <2>2
<1>12. bytes \in Seq(ByteValues) /\ Len(bytes) = ends[n] /\ ends[0] = 0
  BY <1>1, <1>2, <1>3, FlattenRows DEF EndsOf
<1>13. CASE n = 0
  <2>1. Len(bytes) = 0
    BY <1>12, <1>13
  <2>2. bytes = <<>>
    BY <1>12, <2>1
  <2>3. Between(bytes, ends, 0, n) = <<>>
    BY <1>13 DEF Between
  <2> QED BY <1>1, <1>3, <1>11, <2>2, <2>3
<1>14. CASE n # 0
  <2>1. Between(bytes, ends, 0, n) = SubSeq(bytes, 1, Len(bytes))
    BY <1>12, <1>14 DEF Between
  <2>2. SubSeq(bytes, 1, Len(bytes)) = bytes
    BY <1>12, SubSeqFull
  <2> QED BY <1>1, <1>3, <1>11, <2>1, <2>2
<1> QED BY <1>13, <1>14

\* VarintSpace sums up what the integers of the list take.
LEMMA VarintSpaceTotal ==
  ASSUME NEW us \in Seq(Nat)
  PROVE  LET space == [i \in 1..Len(us) |-> ValueSpace(us[i])]
         IN /\ space \in [1..Len(us) -> Nat]
            /\ VarintSpace(us) = Total(space, 1..Len(us))
<1> DEFINE space == [i \in 1..Len(us) |-> ValueSpace(us[i])]
<1>1. PICK n \in Nat : n = Len(us) /\ DOMAIN us = 1..n
  OBVIOUS
<1>2. \A i \in 1..n : space[i] \in Nat
  <2> TAKE i \in 1..n
  <2>1. us[i] \in Nat
    BY <1>1
  <2>2. ValueSpace(us[i]) \in Nat
    BY <2>1, ValueBytesSpace, ValueBytesShape
  <2> QED BY <1>1, <2>2
<1>3. space \in [1..n -> Nat] /\ DOMAIN space = 1..n
  BY <1>1, <1>2

<1> HIDE DEF space
<1> DEFINE T == Range(space)
           w == [k \in T |-> k]
           g == [k \in T |-> w[k] * Cardinality(PlacesOf(space, n, k))]
<1>5. IsFiniteSet(T) /\ T \subseteq Nat
  <2>1. 1 \in Int /\ n \in Int
    OBVIOUS
  <2>2. IsFiniteSet(1..n)
    BY <2>1, FS_Interval
  <2>3. T = {space[i] : i \in 1..n}
    BY <1>3 DEF Range
  <2>4. IsFiniteSet(T)
    <3>1. space \in Surjection(1..n, T)
      BY <1>3, <2>3 DEF Surjection
    <3> HIDE DEF T
    <3> QED BY ONLY <2>2, <3>1, FS_Surjection
  <2>5. T \subseteq Nat
    BY <1>2, <2>3
  <2> QED BY <2>4, <2>5
<1>6. w \in [T -> Nat] /\ g \in [T -> Nat]
  <2>1. \A k \in T : w[k] \in Nat /\ Cardinality(PlacesOf(space, n, k)) \in Nat
    BY <1>5, PlacesType
  <2>2. \A k \in T : w[k] * Cardinality(PlacesOf(space, n, k)) \in Nat
    BY <2>1, ProductType
  <2> QED BY <2>1, <2>2
<1>7. space \in [1..n -> T]
  BY <1>3 DEF Range
<1>8. Total(g, T) = Total(space, 1..n)
  <2>1. \A k \in T : g[k] = w[k] * Cardinality(PlacesOf(space, n, k))
    OBVIOUS
  <2>2. \A i \in 1..n : space[i] = w[space[i]]
    BY <1>7
  <2>3. w \in [T -> Nat] /\ g \in [T -> Nat]
    BY <1>6
  <2> HIDE DEF g, w, T
  <2>4. IsFiniteSet(T) /\ n \in Nat /\ space \in [1..n -> T] /\ space \in [1..n -> Nat]
    BY <1>3, <1>5, <1>7
  <2>5. SumTwoWays(T, w, n, space, g, space)
    BY <2>1, <2>2, <2>3, <2>4 DEF SumTwoWays
  <2> QED BY ONLY <2>5, TotalByValue
<1>9. VarintSpace(us) = SumOf(g)
  <2>1. space = [i \in DOMAIN us |-> ValueSpace(us[i])]
    BY <1>1 DEF space
  <2>2. g = [k \in T |-> k * Cardinality({i \in DOMAIN us : space[i] = k})]
    <3>1. \A k \in T : {i \in DOMAIN us : space[i] = k} = PlacesOf(space, n, k)
      BY <1>1 DEF PlacesOf
    <3> QED BY <3>1
  <2> HIDE DEF g, w
  <2> QED BY <2>1, <2>2 DEF VarintSpace
<1>14. VarintSpace(us) = Total(g, T)
  <2>1. DOMAIN g = T
    OBVIOUS
  <2> HIDE DEF g, w, T
  <2> QED BY <1>9, <2>1, SumOfTotal
<1>15. space \in [1..Len(us) -> Nat] /\ VarintSpace(us) = Total(space, 1..Len(us))
  BY <1>1, <1>3, <1>8, <1>14
<1> QED BY <1>15 DEF space

\* As many bytes are written as space() has predicted.
LEMMA VarintBytesType ==
  ASSUME NEW us \in Seq(Nat)
  PROVE  /\ VarintBytes(us) \in Seq(ByteValues)
         /\ Len(VarintBytes(us)) = VarintSpace(us)
<1>1. PICK seqs : seqs = ValueRows(us)
  OBVIOUS
<1>2. /\ seqs \in Seq(Seq(ByteValues)) /\ Len(seqs) = Len(us)
      /\ \A i \in 1..Len(us) : us[i] \in Nat /\ seqs[i] = ValueBytes(us[i])
  BY <1>1, ValueRowsType
<1>3. PICK ends : EndsOf(ends, seqs)
  BY <1>2, EndsExist
<1>4. FlattenSeq(seqs) \in Seq(ByteValues) /\ Len(FlattenSeq(seqs)) = ends[Len(us)]
  BY <1>2, <1>3, FlattenRows
<1>5. PICK space : /\ space = [i \in 1..Len(us) |-> ValueSpace(us[i])]
                   /\ space \in [1..Len(us) -> Nat]
                   /\ VarintSpace(us) = Total(space, 1..Len(us))
  BY VarintSpaceTotal
<1>6. \A i \in 1..Len(seqs) : space[i] = Len(seqs[i])
  BY <1>2, <1>5, ValueBytesSpace
<1>7. ends[Len(us)] = Total(space, 1..Len(us))
  <2>1. space \in [1..Len(seqs) -> Nat]
    BY <1>2, <1>5
  <2> QED BY <1>2, <1>3, <1>6, <2>1, EndsTotal
<1> QED BY <1>1, <1>4, <1>5, <1>7, Joined

\* The varints are read back, and where they end is found.
LEMMA VarintsReadBack ==
  ASSUME NEW us \in Seq(Nat), NEW stream \in Seq(ByteValues), NEW at,
         StandsAt(stream, at, VarintBytes(us))
  PROVE  ReadVarints(stream, at, Len(us)) = [us |-> us, next |-> at + Len(VarintBytes(us))]
<1>0. PICK n \in Nat, len \in Nat : n = Len(us) /\ len = Len(stream)
  <2>1. Len(us) \in Nat /\ Len(stream) \in Nat
    OBVIOUS
  <2> QED BY <2>1
<1> DEFINE seqs == ValueRows(us)
<1>1. n = Len(us) /\ seqs = ValueRows(us) /\ len = Len(stream)
  BY <1>0
<1> HIDE DEF seqs
<1>2. /\ seqs \in Seq(Seq(ByteValues)) /\ Len(seqs) = n
      /\ \A i \in 1..n : /\ us[i] \in Nat /\ seqs[i] = ValueBytes(us[i])
                         /\ Len(ValueBytes(us[i])) \in Nat \ {0}
  BY <1>1, ValueRowsType
<1>3. PICK ends : EndsOf(ends, seqs)
  BY <1>2, EndsExist
<1>4. /\ \A i \in 0..n : ends[i] \in Nat
      /\ ends[0] = 0
      /\ \A i \in 1..n : ends[i] = ends[i - 1] + Len(seqs[i])
  BY <1>2, <1>3 DEF EndsOf
<1>5. VarintBytes(us) = FlattenSeq(seqs) /\ Len(VarintBytes(us)) = ends[n]
  BY <1>1, <1>2, <1>3, FlattenRows, Joined
<1>6. PICK a \in Nat \ {0}, size \in Nat : a = at /\ size = ends[n] /\ a + size - 1 <= len
  <2>1. ends[n] \in Nat
    BY <1>4
  <2>2. at \in Nat \ {0} /\ at + Len(VarintBytes(us)) - 1 <= Len(stream)
    BY DEF StandsAt
  <2> QED BY <1>1, <1>5, <2>1, <2>2
<1>7. \A k \in 1..size : stream[a + k - 1] = FlattenSeq(seqs)[k]
  BY <1>5, <1>6 DEF StandsAt
<1>8. InRows(FlattenSeq(seqs), seqs, ends, n)
  BY <1>2, <1>3, FlattenRows
<1>9. ASSUME NEW i \in 1..n, NEW k \in 1..Len(seqs[i])
      PROVE  /\ ends[i - 1] + k \in 1..size
             /\ stream[a + (ends[i - 1] + k) - 1] = seqs[i][k]
             /\ seqs[i][k] < Continue <=> k = Len(seqs[i])
             /\ seqs[i][k] \in Nat
  <2>1. ends[i - 1] + k \in 1..size /\ FlattenSeq(seqs)[ends[i - 1] + k] = seqs[i][k]
    BY <1>6, <1>8, <1>9 DEF InRows
  <2>2. stream[a + (ends[i - 1] + k) - 1] = seqs[i][k]
    BY <1>7, <2>1
  <2>3. PICK u \in Nat, m \in Nat \ {0} : u = us[i] /\ m = Len(ValueBytes(u)) /\ seqs[i] = ValueBytes(u)
    BY <1>2
  <2>4. Continue \in Nat
    BY ContinueFacts
  <2>5. CASE k = m
    <3>1. ValueBytes(u)[m] \in 0..(Continue - 1)
      BY <2>3, ValueBytesShape
    <3> QED BY <2>1, <2>2, <2>3, <2>4, <2>5, <3>1, SMTT(30)
  <2>6. CASE k # m
    <3>1. k \in 1..(Len(ValueBytes(u)) - 1)
      BY <1>9, <2>3, <2>6
    <3>2. ValueBytes(u)[k] \in Continue..(2 * Continue - 1)
      BY <2>3, <3>1, ValueBytesShape
    <3> QED BY <2>1, <2>2, <2>3, <2>4, <2>6, <3>2, SMTT(30)
  <2> QED BY <2>5, <2>6
<1> DEFINE s == [i \in 1..n |-> a + ends[i] - 1]
           S == {p \in at..Len(stream) : stream[p] < Continue}
<1>10. ASSUME NEW i \in 1..n
       PROVE  /\ s[i] = a + ends[i] - 1 /\ s[i] \in Nat
              /\ ends[i - 1] \in Nat /\ ends[i] \in Nat /\ ends[i - 1] < ends[i]
              /\ ends[i] = ends[i - 1] + Len(seqs[i]) /\ Len(seqs[i]) \in Nat \ {0}
              /\ ends[i] \in 1..size
  <2>1. Len(seqs[i]) \in Nat \ {0} /\ i \in 0..n /\ i - 1 \in 0..n
    BY <1>2
  <2>2. Len(seqs[i]) \in 1..Len(seqs[i])
    BY <2>1
  <2>3. ends[i - 1] + Len(seqs[i]) \in 1..size
    BY <1>9, <2>2
  <2>4. ends[i] \in Nat /\ ends[i - 1] \in Nat /\ ends[i] = ends[i - 1] + Len(seqs[i])
    BY <1>4, <2>1
  <2>5. s[i] = a + ends[i] - 1
    OBVIOUS
  <2>6. PICK d \in Nat, e \in Nat, m \in Nat \ {0} :
          d = ends[i - 1] /\ e = ends[i] /\ m = Len(seqs[i]) /\ e = d + m /\ e \in 1..size
            /\ s[i] = a + e - 1
    BY <2>1, <2>3, <2>4, <2>5
  <2>7. a + e - 1 \in Nat /\ d < e
    <3>1. a \in Nat \ {0} /\ d \in Nat /\ e \in Nat /\ m \in Nat \ {0} /\ e = d + m
      BY <2>6
    <3> QED BY ONLY <3>1
  <2> HIDE DEF s
  <2> QED BY <2>6, <2>7
<1>11. Growing(s) /\ s \in Seq(Nat) /\ Len(s) = n /\ DOMAIN s = 1..n
  <2>1. s \in Seq(Nat) /\ Len(s) = n /\ DOMAIN s = 1..n
    <3>1. s = [i \in 1..n |-> s[i]]
      OBVIOUS
    <3>2. \A i \in 1..n : s[i] \in Nat
      BY <1>10
    <3>3. n \in Nat /\ s \in [1..n -> Nat]
      <4> HIDE DEF s
      <4> QED BY <3>1, <3>2
    <3> HIDE DEF s
    <3>4. s \in Seq(Nat)
      BY <3>3
    <3> QED BY <3>3, <3>4
  <2> DEFINE Right == {d \in Nat : \A i \in 1..n : i + d \in 1..n => ends[i] <= ends[i + d]}
  <2>2. 0 \in Right
    BY <1>10
  <2>3. ASSUME NEW d \in Nat, d \in Right PROVE d + 1 \in Right
    <3> SUFFICES ASSUME NEW i \in 1..n, i + (d + 1) \in 1..n PROVE ends[i] <= ends[i + (d + 1)]
      OBVIOUS
    <3>1. PICK j \in 1..n : j = i + (d + 1) /\ j - 1 = i + d /\ i + d \in 1..n
      OBVIOUS
    <3>2. ends[i] <= ends[j - 1]
      BY <2>3, <3>1
    <3>3. ends[j - 1] < ends[j] /\ ends[j - 1] \in Nat /\ ends[j] \in Nat
      BY <1>10
    <3>4. ends[i] \in Nat
      BY <1>10
    <3> QED BY <3>1, <3>2, <3>3, <3>4
  <2> HIDE DEF Right, s
  <2>4. Nat \subseteq Right
    BY <2>2, <2>3, EveryNumber
  <2>5. ASSUME NEW j \in 1..n, NEW k \in 1..n, j < k PROVE s[j] < s[k]
    <3>1. PICK d \in Nat : d = (k - 1) - j /\ j + d = k - 1 /\ k - 1 \in 1..n
      <4>1. (k - 1) - j \in Nat /\ j + ((k - 1) - j) = k - 1 /\ k - 1 \in 1..n
        BY <2>5
      <4> QED BY <4>1
    <3>2. d \in Right
      BY <2>4
    <3>3. ends[j] <= ends[j + d]
      BY <3>1, <3>2 DEF Right
    <3>4. ends[k - 1] < ends[k] /\ ends[k - 1] \in Nat /\ ends[k] \in Nat /\ ends[j] \in Nat
      BY <1>10
    <3>5. s[j] = a + ends[j] - 1 /\ s[k] = a + ends[k] - 1
      BY <1>10
    <3>6. ends[j] <= ends[k - 1]
      BY <3>1, <3>3
    <3> QED BY <3>4, <3>5, <3>6
  <2> QED BY <2>1, <2>5 DEF Growing
<1>12. S \in SUBSET Nat /\ IsFiniteSet(S)
  <2>1. S \subseteq a..len
    BY <1>1, <1>6
  <2>2. IsFiniteSet(a..len)
    <3>1. a \in Int /\ len \in Int
      OBVIOUS
    <3> QED BY <3>1, FS_Interval
  <2>3. IsFiniteSet(S)
    BY <2>1, <2>2, FS_Subset
  <2> QED BY <1>1, <1>6, <2>1, <2>3
<1>13. BeginsWith(S, s)
  <2>1. ASSUME NEW k \in 1..n PROVE s[k] \in S
    <3>1. Len(seqs[k]) \in 1..Len(seqs[k]) /\ ends[k] = ends[k - 1] + Len(seqs[k])
      BY <1>10
    <3>2. stream[a + ends[k] - 1] = seqs[k][Len(seqs[k])] /\ seqs[k][Len(seqs[k])] < Continue
      <4>1. PICK m \in 1..Len(seqs[k]) : m = Len(seqs[k]) /\ ends[k] = ends[k - 1] + m
        BY <3>1
      <4>2. stream[a + (ends[k - 1] + m) - 1] = seqs[k][m] /\ seqs[k][m] < Continue
        BY <1>9, <4>1
      <4> QED BY <4>1, <4>2
    <3>3. s[k] = a + ends[k] - 1 /\ ends[k] \in 1..size
      BY <1>10
    <3>4. s[k] \in at..Len(stream)
      <4>1. PICK e \in Nat : e = ends[k] /\ e \in 1..size
        BY <1>10
      <4>2. a + e - 1 \in a..len
        BY <1>6, <4>1, SMTT(30)
      <4> QED BY <1>1, <1>6, <3>3, <4>1, <4>2
    <3> QED BY <3>2, <3>3, <3>4
  <2>2. ASSUME NEW x \in S, \A k \in 1..n : x # s[k] PROVE \A k \in 1..n : s[k] < x
    <3>1. x \in a..len /\ stream[x] < Continue
      BY <1>1, <1>6
    <3>2. ~(x <= a + size - 1)
      <4> SUFFICES ASSUME x <= a + size - 1 PROVE FALSE
        OBVIOUS
      <4>1. PICK p \in 1..size : p = x - a + 1 /\ a + p - 1 = x
        <5>1. x - a + 1 \in 1..size /\ a + (x - a + 1) - 1 = x
          BY <3>1
        <5> QED BY <5>1
      <4>2. p \in 1..ends[Len(seqs)]
        BY <1>2, <1>6
      <4>3. PICK i \in 1..Len(seqs) : \E k \in 1..Len(seqs[i]) : p = ends[i - 1] + k
        <5>1. seqs \in Seq(Seq(ByteValues))
          BY <1>2
        <5>2. Covered(seqs, ends, p)
          BY ONLY <5>1, <1>3, <4>2, RowsCover
        <5> QED BY <5>2 DEF Covered
      <4>4. PICK k \in 1..Len(seqs[i]) : p = ends[i - 1] + k
        BY <4>3
      <4>5. i \in 1..n
        BY <1>2
      <4>6. stream[x] = seqs[i][k] /\ (seqs[i][k] < Continue <=> k = Len(seqs[i]))
        <5>1. stream[a + (ends[i - 1] + k) - 1] = seqs[i][k]
              /\ (seqs[i][k] < Continue <=> k = Len(seqs[i]))
          BY <1>9, <4>5
        <5>2. a + (ends[i - 1] + k) - 1 = x
          BY <4>1, <4>4
        <5> QED BY <5>1, <5>2
      <4>7. k = Len(seqs[i])
        BY <3>1, <4>6
      <4>8. x = s[i]
        <5>1. s[i] = a + ends[i] - 1 /\ ends[i] = ends[i - 1] + Len(seqs[i])
          BY <1>10, <4>5
        <5> HIDE DEF s
        <5> QED BY <4>1, <4>4, <4>7, <5>1
      <4> QED BY <2>2, <4>5, <4>8
    <3>3. ASSUME NEW k \in 1..n PROVE s[k] < x
      <4>1. PICK e \in 1..size : e = ends[k] /\ s[k] = a + e - 1
        BY <1>10
      <4> QED BY <3>1, <3>2, <4>1
    <3> QED BY <3>3
  <2> HIDE DEF S, s
  <2> QED BY <1>11, <2>1, <2>2 DEF BeginsWith
<1>14. \A k \in 1..n : Ordered(S)[k] = s[k]
  <2> HIDE DEF S, s
  <2> QED BY <1>11, <1>12, <1>13, OrderedBegins
<1> DEFINE marks == Ordered(S)
           start(i) == IF i = 1 THEN at ELSE marks[i - 1] + 1
<1>15. ASSUME NEW i \in 1..(n + 1) PROVE start(i) = a + ends[i - 1] /\ start(i) \in Nat
  <2>1. CASE i = 1
    <3>1. ends[i - 1] = 0
      BY <1>4, <2>1
    <3> QED BY <1>6, <2>1, <3>1
  <2>2. CASE i # 1
    <3>1. PICK j \in 1..n : j = i - 1
      BY <2>2
    <3>2. marks[j] = a + ends[j] - 1 /\ ends[j] \in Nat
      BY <1>10, <1>14
    <3> HIDE DEF marks
    <3> QED BY <2>2, <3>1, <3>2
  <2> QED BY <2>1, <2>2
<1> HIDE DEF S, s
<1>16. ReadVarints(stream, at, n) =
         [us |-> [i \in 1..n |-> ReadValue(stream, start(i)).value], next |-> start(n + 1)]
  BY DEF ReadVarints, S
<1> HIDE DEF start
<1>17. stream \in Seq(Nat)
  <2>1. ByteValues \subseteq Nat
    BY DEF ByteValues
  <2> QED BY <2>1, SeqMonotonic
<1>18. ASSUME NEW i \in 1..n PROVE ReadValue(stream, start(i)).value = us[i]
  <2>1. PICK u \in Nat, m \in Nat \ {0}, b \in Nat, e \in Nat :
          u = us[i] /\ m = Len(ValueBytes(u)) /\ seqs[i] = ValueBytes(u)
            /\ b = a + e /\ e = ends[i - 1] /\ start(i) = b
    <3>1. i \in 1..(n + 1)
      OBVIOUS
    <3>2. start(i) = a + ends[i - 1] /\ ends[i - 1] \in Nat
      BY <1>10, <1>15, <3>1
    <3>3. a + ends[i - 1] \in Nat
      BY <3>2
    <3> QED BY <1>2, <3>2, <3>3
  <2>2. \A k \in 1..m : stream[b + k - 1] = ValueBytes(u)[k]
    <3> TAKE k \in 1..m
    <3>1. stream[a + (e + k) - 1] = seqs[i][k]
      BY <1>9, <2>1
    <3>2. a + (e + k) - 1 = b + k - 1
      BY <2>1, SMTT(30)
    <3> QED BY <2>1, <3>1, <3>2
  <2>3. b + m - 1 <= Len(stream)
    <3>1. m \in 1..Len(seqs[i])
      BY <2>1
    <3>2. e + m \in 1..size
      BY <1>9, <2>1, <3>1
    <3>3. a \in Nat /\ size \in Nat /\ len \in Nat /\ a + size - 1 <= len /\ len = Len(stream)
          /\ b = a + e /\ m \in Nat /\ e \in Nat
      BY <1>1, <1>6, <2>1
    <3> QED BY ONLY <3>2, <3>3
  <2>4. ReadValue(stream, b) = [value |-> u, next |-> b + ValueSpace(u)]
    BY <1>17, <2>1, <2>2, <2>3, VarintReadsBack, ZenonT(30)
  <2> QED BY <2>1, <2>4
<1>19. start(n + 1) = at + Len(VarintBytes(us))
  <2>1. n + 1 \in 1..(n + 1) /\ (n + 1) - 1 = n
    OBVIOUS
  <2> QED BY <1>5, <1>6, <1>15, <2>1
<1>20. us = [i \in 1..n |-> us[i]]
  BY <1>1
<1> QED BY <1>1, <1>16, <1>18, <1>19, <1>20

-------------------------------------------------------------------------------
(* Integers as they are in memory.                                          *)

\* An integer is a whole number of bytes.
LEMMA ValueSizeFacts ==
  /\ ValueSize \in Nat \ {0} /\ Width = ByteBits * ValueSize
  /\ ByteBits \in Nat \ {0, 1} /\ 2^ByteBits \in Nat \ {0}
<1>1. /\ Width \in Nat \ {0} /\ ByteBits \in Nat \ {0, 1} /\ Width % ByteBits = 0
  BY TraitsAssumption, ByteAssumption, SizesAssumption
<1>2. PICK w \in Nat \ {0}, b \in Nat \ {0, 1}, q \in Nat :
        w = Width /\ b = ByteBits /\ q = ValueSize /\ w = q * b + (w % b)
  <2>1. PICK w \in Nat \ {0}, b \in Nat \ {0, 1} : w = Width /\ b = ByteBits
    BY <1>1
  <2>2. w \div b \in Nat /\ w = (w \div b) * b + (w % b)
    BY Division
  <2> QED BY <2>1, <2>2 DEF ValueSize
<1>3. w = q * b /\ q # 0 /\ q * b = b * q
  <2>1. w = q * b
    BY <1>1, <1>2
  <2>2. q # 0
    BY <1>2, <2>1
  <2>3. q * b = b * q
    BY <1>2
  <2> QED BY <2>1, <2>2, <2>3
<1>4. 2^ByteBits \in Nat \ {0}
  BY <1>1, PowerType
<1> QED BY <1>1, <1>2, <1>3, <1>4

\* Unsigned integers are natural numbers below the modulus.
LEMMA UnsignedNumbers == Unsigned \subseteq Nat /\ Modulus \in Nat \ {0}
BY ModulusFacts

\* A remainder is that of the quotient behind the lowest digit.
LEMMA RemainderSplit ==
  ASSUME NEW u \in Nat, NEW p \in Nat \ {0}, NEW b \in Nat \ {0}
  PROVE  /\ p * b \in Nat \ {0}
         /\ u % (p * b) = ((u \div p) % b) * p + (u % p)
<1>1. PICK q \in Nat, r \in 0..(p - 1) : q = u \div p /\ r = u % p /\ u = q * p + r
  BY Division
<1>2. PICK s \in Nat, t \in 0..(b - 1) : s = q \div b /\ t = q % b /\ q = s * b + t
  BY Division
<1>3. PICK c \in Nat \ {0} : c = p * b
  <2>1. p * b \in Nat /\ p * b # 0
    OBVIOUS
  <2> QED BY <2>1
<1>4. PICK e \in Nat : e = t * p + r /\ e \in 0..(c - 1)
  <2>1. PICK x \in Nat, y \in Nat : x = t * p /\ y = b * p /\ y = c
    <3>1. t * p \in Nat /\ b * p \in Nat /\ b * p = p * b
      OBVIOUS
    <3> QED BY <1>3, <3>1
  <2>2. t \in Nat /\ t < b
    OBVIOUS
  <2>3. x + p <= y
    BY <2>1, <2>2, RowsApart
  <2>4. r \in Nat /\ r < p
    OBVIOUS
  <2> QED BY <2>1, <2>3, <2>4
<1>5. u = s * c + e
  <2>1. q * p = (s * b) * p + t * p
    BY <1>2
  <2>2. (s * b) * p = s * (p * b)
    OBVIOUS
  <2>3. PICK x \in Nat, y \in Nat, z \in Nat : x = q * p /\ y = s * c /\ z = t * p /\ x = y + z
    <3>1. q * p \in Nat /\ s * c \in Nat /\ t * p \in Nat
      OBVIOUS
    <3> QED BY <1>3, <2>1, <2>2, <3>1
  <2> QED BY <1>1, <1>4, <2>3
<1>6. u % c = e
  BY <1>4, <1>5, DivisionUnique
<1> QED BY <1>1, <1>2, <1>3, <1>4, <1>6

\* The places of the bytes of an integer.
BytePower(k) == 2^(ByteBits * (k - 1))

\* What a byte of an integer stands for, counted from the least one.
LEMMA BytePowerFacts ==
  ASSUME NEW k \in Nat \ {0}
  PROVE  /\ BytePower(k) \in Nat \ {0} /\ BytePower(1) = 1
         /\ BytePower(k + 1) = BytePower(k) * 2^ByteBits
<1>1. PICK b \in Nat : b = ByteBits
  BY ByteAssumption
<1>2. PICK m \in Nat : m = b * (k - 1)
  <2>1. k - 1 \in Nat
    OBVIOUS
  <2>2. b * (k - 1) \in Nat
    BY <2>1, ProductType
  <2> QED BY <2>2
<1>3. b * (1 - 1) = 0 /\ b * ((k + 1) - 1) = m + b
  <2>1. (k + 1) - 1 = (k - 1) + 1 /\ 1 - 1 = 0 /\ b * 0 = 0
    OBVIOUS
  <2>2. b * ((k - 1) + 1) = b * (k - 1) + b
    OBVIOUS
  <2> QED BY <1>2, <2>1, <2>2
<1>4. 2^m \in Nat \ {0} /\ 2^(m + b) = 2^m * 2^b /\ 2^0 = 1
  BY PowerType, PowerSum, PowerZero
<1> QED BY <1>1, <1>2, <1>3, <1>4 DEF BytePower

\* The terms that the bytes of an integer add up from.
ByteTerms(g, u, m) ==
  /\ g \in [1..m -> Nat]
  /\ \A k \in 1..m : g[k] = ((u \div BytePower(k)) % 2^ByteBits) * BytePower(k)

\* The first bytes of an integer add up to its rest by their power.
LEMMA BytesAddUp ==
  ASSUME NEW u \in Nat, NEW m \in Nat, NEW g, ByteTerms(g, u, m)
  PROVE  Total(g, 1..m) = u % BytePower(m + 1)
<1> DEFINE Right == {n \in Nat : \A e : ByteTerms(e, u, n) => Total(e, 1..n) = u % BytePower(n + 1)}
<1>1. 0 \in Right
  <2> SUFFICES ASSUME NEW e, ByteTerms(e, u, 0) PROVE Total(e, 1..0) = u % BytePower(0 + 1)
    OBVIOUS
  <2>1. e \in [{} -> Nat] /\ 1..0 = {}
    BY DEF ByteTerms
  <2>2. Total(e, {}) = 0
    BY <2>1, TotalType, FS_EmptySet
  <2>3. BytePower(0 + 1) = 1
    <3>1. 1 \in Nat \ {0} /\ 0 + 1 = 1
      OBVIOUS
    <3> QED BY <3>1, BytePowerFacts
  <2>4. u % 1 = 0
    OBVIOUS
  <2> QED BY <2>1, <2>2, <2>3, <2>4
<1>2. ASSUME NEW n \in Nat, n \in Right PROVE n + 1 \in Right
  <2> SUFFICES ASSUME NEW e, ByteTerms(e, u, n + 1)
               PROVE  Total(e, 1..(n + 1)) = u % BytePower((n + 1) + 1)
    OBVIOUS
  <2>1. PICK p \in Nat \ {0}, b \in Nat \ {0} :
          p = BytePower(n + 1) /\ b = 2^ByteBits /\ BytePower((n + 1) + 1) = p * b
    <3>1. n + 1 \in Nat \ {0}
      OBVIOUS
    <3> QED BY <3>1, BytePowerFacts, ValueSizeFacts
  <2>2. PICK s : s = [k \in 1..n |-> e[k]]
    OBVIOUS
  <2>3. e \in [1..(n + 1) -> Nat] /\ e[n + 1] = ((u \div p) % b) * p
    <3>1. n + 1 \in 1..(n + 1)
      OBVIOUS
    <3> QED BY <2>1, <3>1 DEF ByteTerms
  <2>4. ByteTerms(s, u, n)
    <3>1. \A k \in 1..n : k \in 1..(n + 1)
      OBVIOUS
    <3> QED BY <2>2, <2>3, <3>1 DEF ByteTerms
  <2>5. Total(s, 1..n) = u % p
    BY <1>2, <2>1, <2>4
  <2>6. Total(e, 1..(n + 1)) = e[n + 1] + Total(s, 1..n)
    <3>1. 1..(n + 1) = (1..n) \cup {n + 1} /\ n + 1 \notin 1..n
      OBVIOUS
    <3>2. IsFiniteSet(1..n)
      <4>1. 1 \in Int /\ n \in Int
        OBVIOUS
      <4> QED BY <4>1, FS_Interval
    <3>3. s \in [1..n -> Nat] /\ \A y \in 1..n : s[y] = e[y]
      BY <2>2, <2>3
    <3>4. e \in [(1..n) \cup {n + 1} -> Nat]
      BY <2>3, <3>1
    <3>5. Total(e, (1..n) \cup {n + 1}) = e[n + 1] + Total(s, 1..n)
      BY <3>1, <3>2, <3>3, <3>4, TotalAdd, SMTT(30)
    <3> QED BY <3>1, <3>5
  <2>7. u % (p * b) = ((u \div p) % b) * p + (u % p)
    BY RemainderSplit
  <2> QED BY <2>1, <2>3, <2>5, <2>6, <2>7
<1> HIDE DEF Right
<1>3. m \in Right
  BY <1>1, <1>2, EveryNumber
<1> QED BY <1>3 DEF Right

\* The bytes of an integer stand one after another.
LEMMA NormalRows ==
  ASSUME NEW us \in Seq(Unsigned)
  PROVE  /\ NormalBytes(us) \in Seq(ByteValues)
         /\ Len(NormalBytes(us)) = Len(us) * ValueSize
         /\ \A i \in 1..Len(us) : \A k \in 1..ValueSize :
              /\ (i - 1) * ValueSize + k \in 1..(Len(us) * ValueSize)
              /\ NormalBytes(us)[(i - 1) * ValueSize + k] = (us[i] \div BytePower(k)) % 2^ByteBits
<1>1. PICK n \in Nat, v \in Nat \ {0}, b \in Nat \ {0}, l \in Nat :
        n = Len(us) /\ v = ValueSize /\ b = 2^ByteBits /\ l = n * v
  <2>1. Len(us) \in Nat /\ ValueSize \in Nat \ {0} /\ 2^ByteBits \in Nat \ {0}
    BY ValueSizeFacts
  <2>2. Len(us) * ValueSize \in Nat
    BY <2>1, ProductType
  <2> QED BY <2>1, <2>2
<1>2. PICK bytes : bytes = NormalBytes(us)
  OBVIOUS
<1>3. bytes = [p \in 1..l |->
         Byte(us[1 + (p - 1) \div v] \div 2^(ByteBits * ((p - 1) % v)))]
  BY <1>1, <1>2 DEF NormalBytes
<1>4. ASSUME NEW p \in 1..l, NEW q \in Nat, NEW r \in 0..(v - 1), p - 1 = q * v + r
      PROVE  /\ 1 + q \in 1..n
             /\ bytes[p] = (us[1 + q] \div BytePower(1 + r)) % b
             /\ bytes[p] \in 0..(b - 1)
  <2>1. q = (p - 1) \div v /\ r = (p - 1) % v
    BY <1>4, DivisionUnique
  <2>2. q < n
    <3> SUFFICES ASSUME n <= q PROVE FALSE
      OBVIOUS
    <3>1. PICK x \in Nat : x = q * v
      BY ProductType
    <3>2. l <= x
      BY <1>1, <3>1, ProductOrder
    <3> QED BY <2>1, <3>1, <3>2
  <2>3. bytes[p] = Byte(us[1 + q] \div 2^(ByteBits * r))
    BY <1>3, <2>1
  <2>4. PICK u \in Nat, c \in Nat \ {0} : u = us[1 + q] /\ c = 2^(ByteBits * r) /\ c = BytePower(1 + r)
    <3>1. us[1 + q] \in Nat
      <4>1. 1 + q \in 1..Len(us) /\ Unsigned \subseteq Nat
        BY <1>1, <2>2, UnsignedNumbers
      <4>2. PICK j \in 1..Len(us) : j = 1 + q
        BY <4>1
      <4>3. us[j] \in Unsigned
        OBVIOUS
      <4> QED BY <4>1, <4>2, <4>3
    <3>2. 1 + r \in Nat \ {0} /\ (1 + r) - 1 = r
      BY <2>1
    <3> QED BY <3>1, <3>2, BytePowerFacts DEF BytePower
  <2>5. bytes[p] = (u \div c) % b
    BY <1>1, <2>3, <2>4 DEF Byte
  <2>6. u \div c \in Nat
    BY Division
  <2>7. (u \div c) % b \in 0..(b - 1)
    BY <2>6, Division
  <2>8. 1 + q \in 1..n
    BY <2>2
  <2>9. bytes[p] = (us[1 + q] \div BytePower(1 + r)) % b
    BY <2>4, <2>5
  <2>10. bytes[p] \in 0..(b - 1)
    BY <2>5, <2>7
  <2> QED BY <2>8, <2>9, <2>10
<1>5. bytes \in Seq(ByteValues) /\ Len(bytes) = l
  <2>1. bytes \in [1..l -> ByteValues]
    <3>1. ASSUME NEW p \in 1..l PROVE bytes[p] \in 0..(b - 1)
      <4>1. PICK q \in Nat, r \in 0..(v - 1) : p - 1 = q * v + r
        <5>1. p - 1 \in Nat
          OBVIOUS
        <5> QED BY <5>1, Division
      <4> QED BY <1>4, <4>1
    <3> QED BY <1>1, <1>3, <3>1 DEF ByteValues
  <2> QED BY <2>1
<1>6. ASSUME NEW i \in 1..n, NEW k \in 1..v
      PROVE  /\ (i - 1) * v + k \in 1..l
             /\ bytes[(i - 1) * v + k] = (us[i] \div BytePower(k)) % b
  <2>1. PICK j \in Nat, r \in 0..(v - 1) : j = i - 1 /\ r = k - 1 /\ j < n
    <3>1. i - 1 \in Nat /\ k - 1 \in 0..(v - 1) /\ i - 1 < n
      OBVIOUS
    <3> QED BY <3>1
  <2>2. PICK x \in Nat : x = j * v /\ x + v <= l
    <3>1. j * v \in Nat /\ j * v + v <= n * v
      BY <2>1, ProductType, RowsApart
    <3> QED BY <1>1, <3>1
  <2>3. PICK p \in 1..l : p = (i - 1) * v + k /\ p - 1 = x + r
    <3>1. x + k \in 1..l /\ (x + k) - 1 = x + r
      BY <2>1, <2>2
    <3> QED BY <2>1, <2>2, <3>1
  <2>5. 1 + j = i /\ 1 + r = k
    BY <2>1
  <2>6. bytes[p] = (us[1 + j] \div BytePower(1 + r)) % b
    <3>1. p - 1 = j * v + r
      BY <2>2, <2>3
    <3> QED BY <1>4, <3>1
  <2>7. bytes[p] = (us[i] \div BytePower(k)) % b
    BY ONLY <2>5, <2>6
  <2>8. bytes[(i - 1) * v + k] = bytes[p] /\ (i - 1) * v + k \in 1..l
    BY <2>3
  <2> QED BY <2>7, <2>8
<1> QED BY <1>1, <1>2, <1>5, <1>6

\* They are read back.
LEMMA NormalReadsBack ==
  ASSUME NEW us \in Seq(Unsigned), NEW stream \in Seq(ByteValues), NEW at \in Nat,
         StandsAt(stream, at, NormalBytes(us))
  PROVE  ReadNormal(stream, at, Len(us)) = [us |-> us, next |-> at + Len(NormalBytes(us))]
<1>1. PICK n \in Nat, v \in Nat \ {0} : n = Len(us) /\ v = ValueSize
  <2>1. Len(us) \in Nat /\ ValueSize \in Nat \ {0}
    BY ValueSizeFacts
  <2> QED BY <2>1
<1>2. PICK bytes : bytes = NormalBytes(us) /\ Len(bytes) = n * v
  BY <1>1, NormalRows
<1>3. ASSUME NEW i \in 1..n
      PROVE  SumOf([k \in 1..v |-> stream[at + (i - 1) * v + k - 1] * 2^(ByteBits * (k - 1))]) = us[i]
  <2>1. PICK u \in Nat : u = us[i] /\ u \in Unsigned
    <3>1. us[i] \in Unsigned
      BY <1>1
    <3> QED BY <3>1, ModulusFacts
  <2> DEFINE g == [k \in 1..v |-> stream[at + (i - 1) * v + k - 1] * 2^(ByteBits * (k - 1))]
  <2>2. ASSUME NEW k \in 1..v
        PROVE  /\ g[k] = ((u \div BytePower(k)) % 2^ByteBits) * BytePower(k)
               /\ g[k] \in Nat
    <3>1. (i - 1) * v + k \in 1..Len(bytes) /\ bytes[(i - 1) * v + k] = (u \div BytePower(k)) % 2^ByteBits
      BY <1>1, <1>2, <2>1, NormalRows
    <3>2. stream[at + ((i - 1) * v + k) - 1] = bytes[(i - 1) * v + k]
      BY <1>2, <3>1 DEF StandsAt
    <3>3. at + (i - 1) * v + k - 1 = at + ((i - 1) * v + k) - 1
      <4>1. (i - 1) * v \in Int
        OBVIOUS
      <4>2. PICK x \in Int : x = (i - 1) * v
        BY <4>1
      <4> QED BY <4>2
    <3>4. g[k] = ((u \div BytePower(k)) % 2^ByteBits) * BytePower(k)
      BY <3>1, <3>2, <3>3 DEF BytePower
    <3>5. PICK c \in Nat \ {0}, b \in Nat \ {0} : c = BytePower(k) /\ b = 2^ByteBits
      <4>1. k \in Nat \ {0}
        OBVIOUS
      <4> QED BY <4>1, BytePowerFacts, ValueSizeFacts
    <3>6. u \div c \in Nat
      BY Division
    <3>7. (u \div c) % b \in Nat
      BY <3>6, Division
    <3>8. ((u \div c) % b) * c \in Nat
      BY <3>7, ProductType
    <3> HIDE DEF g
    <3> QED BY <3>4, <3>5, <3>8
  <2>3. DOMAIN g = 1..v /\ g \in [1..v -> Nat]
    BY <2>2
  <2> HIDE DEF g
  <2>4. ByteTerms(g, u, v)
    BY <2>2, <2>3 DEF ByteTerms
  <2>5. Total(g, 1..v) = u % BytePower(v + 1)
    BY <2>4, BytesAddUp
  <2>6. BytePower(v + 1) = Modulus
    <3>1. (v + 1) - 1 = v
      OBVIOUS
    <3> QED BY <1>1, <3>1, ValueSizeFacts DEF BytePower, Modulus
  <2>7. u % Modulus = u
    <3>1. PICK m \in Nat \ {0} : m = Modulus /\ u \in 0..(m - 1)
      BY <2>1, ModulusFacts DEF Unsigned
    <3> QED BY <3>1
  <2>8. SumOf(g) = Total(g, 1..v)
    BY <2>3, SumOfTotal
  <2> QED BY <2>1, <2>5, <2>6, <2>7, <2>8 DEF g
<1>4. ReadNormal(stream, at, n) =
        [us |-> [i \in 1..n |->
                   SumOf([k \in 1..v |-> stream[at + (i - 1) * v + k - 1] * 2^(ByteBits * (k - 1))])],
         next |-> at + n * v]
  BY <1>1 DEF ReadNormal
<1>5. us = [i \in 1..n |-> us[i]]
  BY <1>1
<1> QED BY <1>1, <1>2, <1>3, <1>4, <1>5

-------------------------------------------------------------------------------
(* The basic encodings.                                                     *)

\* The encodings by name.
EncodingNames == {"naught", "normal", "varint", "varfor", "bitpck", "bitfor", "bitpfr"}

\* The encodings, and which of them keep a number of bits and an origin.
LEMMA EncodingsFacts ==
  /\ Range(Encodings) = EncodingNames
  /\ WithNbits = {"bitpck", "bitfor", "bitpfr"}
  /\ WithOrigin = {"naught", "varfor", "bitfor", "bitpfr"}
<1>1. /\ DOMAIN Encodings = 1..7
      /\ Encodings[1] = "naught" /\ Encodings[2] = "normal" /\ Encodings[3] = "varint"
      /\ Encodings[4] = "varfor" /\ Encodings[5] = "bitpck" /\ Encodings[6] = "bitfor"
      /\ Encodings[7] = "bitpfr"
  BY DEF Encodings
<1>2. 1..7 = {1, 2, 3, 4, 5, 6, 7}
  OBVIOUS
<1>3. Range(Encodings) = {Encodings[k] : k \in {1, 2, 3, 4, 5, 6, 7}}
  BY <1>1, <1>2 DEF Range
<1>4. {Encodings[k] : k \in {1, 2, 3, 4, 5, 6, 7}} =
        {Encodings[1], Encodings[2], Encodings[3], Encodings[4], Encodings[5],
         Encodings[6], Encodings[7]}
  OBVIOUS
<1> QED BY <1>1, <1>3, <1>4 DEF WithNbits, WithOrigin, EncodingNames

\* What the choice of an encoding must know of the integers.
Writable(us, desc) ==
  /\ us \in Seq(WordValues)
  /\ desc.encoding \in EncodingNames
  /\ desc.encoding = "naught" => \A i \in 1..Len(us) : us[i] = 0
  /\ desc.encoding = "normal" => us \in Seq(Unsigned)
  /\ desc.encoding \in WithNbits => desc.nbits \in 1..WordBits
  /\ desc.encoding \in {"bitpck", "bitfor"} => \A i \in 1..Len(us) : us[i] < 2^desc.nbits

\* What is read of the integers before outliers are patched.
Regular(us, desc) ==
  IF desc.encoding = "bitpfr" THEN [i \in 1..Len(us) |-> us[i] % 2^desc.nbits] ELSE us

\* How much is written of them.
BasicSpace(us, desc) ==
  CASE desc.encoding = "naught" -> 0
    [] desc.encoding = "normal" -> Len(us) * ValueSize
    [] desc.encoding \in {"varint", "varfor"} -> VarintSpace(us)
    [] desc.encoding \in WithNbits -> PackedSpace(Len(us), desc.nbits)

\* How each of the basic encodings writes, measures and reads a list.
LEMMA ByEncoding ==
  ASSUME NEW us, NEW desc, desc.encoding \in EncodingNames
  PROVE  /\ desc.encoding = "naught" =>
              WriteBasic(us, desc) = <<>> /\ BasicSpace(us, desc) = 0
                /\ \A stream, at, count :
                     ReadBasic(stream, at, count, desc) =
                       [us |-> [i \in 1..count |-> 0], next |-> at]
         /\ desc.encoding = "normal" =>
              WriteBasic(us, desc) = NormalBytes(us) /\ BasicSpace(us, desc) = Len(us) * ValueSize
                /\ \A stream, at, count :
                     ReadBasic(stream, at, count, desc) = ReadNormal(stream, at, count)
         /\ desc.encoding \in {"varint", "varfor"} =>
              WriteBasic(us, desc) = VarintBytes(us) /\ BasicSpace(us, desc) = VarintSpace(us)
                /\ \A stream, at, count :
                     ReadBasic(stream, at, count, desc) = ReadVarints(stream, at, count)
         /\ desc.encoding \in WithNbits =>
              WriteBasic(us, desc) = PackedBytes(us, desc.nbits)
                /\ BasicSpace(us, desc) = PackedSpace(Len(us), desc.nbits)
                /\ \A stream, at, count :
                     ReadBasic(stream, at, count, desc) =
                       ReadPacked(stream, at, count, desc.nbits)
<1>1. WithNbits = {"bitpck", "bitfor", "bitpfr"}
  BY EncodingsFacts
<1>2. CASE desc.encoding = "naught"
  BY <1>1, <1>2 DEF WriteBasic, ReadBasic, BasicSpace
<1>3. CASE desc.encoding = "normal"
  BY <1>1, <1>3 DEF WriteBasic, ReadBasic, BasicSpace
<1>4. CASE desc.encoding \in {"varint", "varfor"}
  BY <1>1, <1>4 DEF WriteBasic, ReadBasic, BasicSpace
<1>5. CASE desc.encoding \in WithNbits
  BY <1>1, <1>5 DEF WriteBasic, ReadBasic, BasicSpace
<1> QED BY <1>1, <1>2, <1>3, <1>4, <1>5 DEF EncodingNames

\* The bytes of integers are bytes, and as many as they have been counted.
LEMMA BasicBytes ==
  ASSUME NEW us, NEW desc, Writable(us, desc)
  PROVE  /\ WriteBasic(us, desc) \in Seq(ByteValues)
         /\ Len(WriteBasic(us, desc)) = BasicSpace(us, desc)
<1>1. us \in Seq(WordValues) /\ desc.encoding \in EncodingNames
  BY DEF Writable
<1>2. us \in Seq(Nat)
  <2>1. WordValues \subseteq Nat
    BY DEF WordValues
  <2> QED BY <1>1, <2>1, SeqMonotonic
<1>3. CASE desc.encoding = "naught"
  <2>1. WriteBasic(us, desc) = <<>> /\ BasicSpace(us, desc) = 0
    BY <1>1, <1>3, ByEncoding
  <2>2. <<>> \in Seq(ByteValues) /\ Len(<<>>) = 0
    OBVIOUS
  <2> QED BY <2>1, <2>2
<1>4. CASE desc.encoding = "normal"
  <2>1. WriteBasic(us, desc) = NormalBytes(us) /\ BasicSpace(us, desc) = Len(us) * ValueSize
    BY <1>1, <1>4, ByEncoding
  <2>2. us \in Seq(Unsigned)
    BY <1>4 DEF Writable
  <2> QED BY <2>1, <2>2, NormalRows
<1>5. CASE desc.encoding \in {"varint", "varfor"}
  <2>1. WriteBasic(us, desc) = VarintBytes(us) /\ BasicSpace(us, desc) = VarintSpace(us)
    BY <1>1, <1>5, ByEncoding
  <2> QED BY <1>2, <2>1, VarintBytesType
<1>6. CASE desc.encoding \in WithNbits
  <2>1. /\ WriteBasic(us, desc) = PackedBytes(us, desc.nbits)
        /\ BasicSpace(us, desc) = PackedSpace(Len(us), desc.nbits)
    BY <1>1, <1>6, ByEncoding
  <2>2. PICK nbits \in 1..WordBits : nbits = desc.nbits
    BY <1>6 DEF Writable
  <2> QED BY <1>1, <2>1, <2>2, PackedRows
<1> QED BY <1>1, <1>3, <1>4, <1>5, <1>6, EncodingsFacts DEF EncodingNames

\* They are read back, and where they end is found.
LEMMA BasicReadsBack ==
  ASSUME NEW us, NEW desc, Writable(us, desc),
         NEW stream \in Seq(ByteValues), NEW at \in Nat,
         StandsAt(stream, at, WriteBasic(us, desc))
  PROVE  ReadBasic(stream, at, Len(us), desc) =
           [us |-> Regular(us, desc), next |-> at + Len(WriteBasic(us, desc))]
<1>1. us \in Seq(WordValues) /\ desc.encoding \in EncodingNames
  BY DEF Writable
<1>2. us \in Seq(Nat) /\ Len(us) \in Nat /\ us = [i \in 1..Len(us) |-> us[i]]
  <2>1. WordValues \subseteq Nat
    BY DEF WordValues
  <2> QED BY <1>1, <2>1, SeqMonotonic
<1>3. CASE desc.encoding = "naught"
  <2>1. WriteBasic(us, desc) = <<>>
        /\ ReadBasic(stream, at, Len(us), desc) = [us |-> [i \in 1..Len(us) |-> 0], next |-> at]
    BY <1>1, <1>3, ByEncoding
  <2>2. \A i \in 1..Len(us) : us[i] = 0
    BY <1>3 DEF Writable
  <2>3. us = [i \in 1..Len(us) |-> 0]
    BY <1>2, <2>2
  <2>4. at = at + Len(<<>>)
    OBVIOUS
  <2>5. Regular(us, desc) = us
    BY <1>3 DEF Regular
  <2> QED BY <2>1, <2>3, <2>4, <2>5
<1>4. CASE desc.encoding = "normal"
  <2>1. WriteBasic(us, desc) = NormalBytes(us)
        /\ ReadBasic(stream, at, Len(us), desc) = ReadNormal(stream, at, Len(us))
    BY <1>1, <1>4, ByEncoding
  <2>2. us \in Seq(Unsigned)
    BY <1>4 DEF Writable
  <2>3. StandsAt(stream, at, NormalBytes(us))
    BY <2>1
  <2>4. Regular(us, desc) = us
    BY <1>4 DEF Regular
  <2> QED BY <2>1, <2>2, <2>3, <2>4, NormalReadsBack
<1>5. CASE desc.encoding \in {"varint", "varfor"}
  <2>1. WriteBasic(us, desc) = VarintBytes(us)
        /\ ReadBasic(stream, at, Len(us), desc) = ReadVarints(stream, at, Len(us))
    BY <1>1, <1>5, ByEncoding
  <2>3. StandsAt(stream, at, VarintBytes(us))
    BY <2>1
  <2>4. Regular(us, desc) = us
    BY <1>5 DEF Regular
  <2> QED BY <1>2, <2>1, <2>3, <2>4, VarintsReadBack
<1>6. CASE desc.encoding \in WithNbits
  <2>1. /\ WriteBasic(us, desc) = PackedBytes(us, desc.nbits)
        /\ ReadBasic(stream, at, Len(us), desc) = ReadPacked(stream, at, Len(us), desc.nbits)
    BY <1>1, <1>6, ByEncoding
  <2>2. PICK nbits \in 1..WordBits : nbits = desc.nbits
    BY <1>6 DEF Writable
  <2>3. StandsAt(stream, at, PackedBytes(us, nbits))
    BY <2>1, <2>2
  <2>4. ReadPacked(stream, at, Len(us), nbits) =
          [us |-> [i \in 1..Len(us) |-> us[i] % 2^nbits], next |-> at + Len(PackedBytes(us, nbits))]
    BY <1>1, <2>2, <2>3, PackedReadsBack
  <2>5. [i \in 1..Len(us) |-> us[i] % 2^nbits] = Regular(us, desc)
    <3>1. CASE desc.encoding = "bitpfr"
      BY <2>2, <3>1 DEF Regular
    <3>2. CASE desc.encoding # "bitpfr"
      <4>1. \A i \in 1..Len(us) : us[i] < 2^nbits
        BY <1>6, <2>2, <3>2, EncodingsFacts DEF Writable
      <4>2. ASSUME NEW i \in 1..Len(us) PROVE us[i] % 2^nbits = us[i]
        <5>1. PICK u \in Nat, p \in Nat \ {0} : u = us[i] /\ p = 2^nbits /\ u < p
          <6>1. nbits \in Nat /\ us[i] \in Nat
            BY <1>2, <2>2
          <6> QED BY <4>1, <6>1, PowerType
        <5>2. u % p = u
          BY <5>1
        <5> QED BY <5>1, <5>2
      <4>3. Regular(us, desc) = us
        BY <3>2 DEF Regular
      <4> QED BY <1>2, <4>2, <4>3
    <3> QED BY <3>1, <3>2
  <2> QED BY <2>1, <2>2, <2>4, <2>5
<1> QED BY <1>1, <1>3, <1>4, <1>5, <1>6, EncodingsFacts DEF EncodingNames

-------------------------------------------------------------------------------
(* Metadata.                                                                *)

\* The descriptors of an encoding whose numbers of bits are bits at most, and metadata.
Descriptors(bits) ==
  [encoding : EncodingNames, dataspace : Nat, metaspace : Nat,
   origin : Original, nbits : 0..bits]

MetaRecords ==
  [value_desc : Descriptors(Width), noutliers : Nat,
   outlier_index_desc : Descriptors(WordBits), outlier_value_desc : Descriptors(Width)]

\* A list of outlier data is written in one of two ways.
ExtraFits(desc) == desc.encoding \in {"varint", "bitpck"} /\ desc.nbits # 0

\* Metadata that can be written.
MetaFits(meta) ==
  /\ meta \in MetaRecords
  /\ meta.value_desc.encoding = "bitpfr" =>
       ExtraFits(meta.outlier_index_desc) /\ ExtraFits(meta.outlier_value_desc)

\* Numbers of bits fit in a byte.
LEMMA BitsFacts ==
  /\ Width \in Nat \ {0} /\ WordBits \in Nat \ {0}
  /\ 0..Width \subseteq ByteValues /\ 0..WordBits \subseteq ByteValues
  /\ ByteValues \subseteq Nat
  /\ \A n \in 0..WordBits : Byte(n) = n
  /\ 0..Width \subseteq 0..WordBits
<1>1. Width \in Nat \ {0} /\ WordBits \in Nat \ {0} /\ Width <= WordBits /\ WordBits < 2^ByteBits
  BY TraitsAssumption, WordAssumption, SizesAssumption
<1>2. PICK b \in Nat \ {0} : b = 2^ByteBits
  BY ValueSizeFacts
<1>3. \A n \in 0..WordBits : n % b = n
  BY <1>1, <1>2
<1> QED BY <1>1, <1>2, <1>3 DEF ByteValues, Byte

\* The parts that the metadata of an encoding consist of.
MetaOrigin(meta) ==
  IF meta.value_desc.encoding \in WithOrigin
  THEN ValueBytes(ZigzagIfSigned(meta.value_desc.origin)) ELSE <<>>
MetaNbits(meta) ==
  IF meta.value_desc.encoding \in WithNbits THEN <<Byte(meta.value_desc.nbits)>> ELSE <<>>
MetaOutliers(meta) ==
  IF meta.value_desc.encoding = "bitpfr"
  THEN ValueBytes(meta.noutliers)
         \o <<ExtraByte(meta.outlier_index_desc), ExtraByte(meta.outlier_value_desc)>>
  ELSE <<>>
EncodingByte(meta) ==
  (CHOOSE k \in DOMAIN Encodings : Encodings[k] = meta.value_desc.encoding) - 1

\* Metadata are the byte of the encoding, the origin, the bits, the outliers.
LEMMA MetaParts ==
  ASSUME NEW meta
  PROVE  MetaBytes(meta) =
           ((<<EncodingByte(meta)>> \o MetaOrigin(meta)) \o MetaNbits(meta)) \o MetaOutliers(meta)
BY DEF MetaBytes, MetaOrigin, MetaNbits, MetaOutliers, EncodingByte

\* A variable-length integer takes as many bytes as its space says.
LEMMA ValueBytesAreBytes ==
  ASSUME NEW u \in Nat
  PROVE  ValueBytes(u) \in Seq(ByteValues) /\ Len(ValueBytes(u)) = ValueSpace(u)
           /\ ValueSpace(u) \in Nat \ {0}
<1>1. ValueBytes(u) \in Seq(Nat) /\ Len(ValueBytes(u)) \in Nat \ {0} /\ Len(ValueBytes(u)) = ValueSpace(u)
  BY ValueBytesNext, ValueBytesShape, ValueBytesSpace
<1>2. <<u>> \in Seq(Nat) /\ Len(<<u>>) = 1 /\ <<u>>[1] = u
  OBVIOUS
<1>3. ValueRows(<<u>>)[1] = ValueBytes(<<u>>[1]) /\ ValueBytes(<<u>>[1]) \in Seq(ByteValues)
  <2>1. 1 \in 1..Len(<<u>>)
    BY <1>2
  <2> QED BY <1>2, <2>1, ValueRowsType
<1> QED BY <1>1, <1>2, <1>3

\* The byte of an encoding names it.
LEMMA EncodingByteFacts ==
  ASSUME NEW meta, meta.value_desc.encoding \in EncodingNames
  PROVE  /\ EncodingByte(meta) \in ByteValues
         /\ Encodings[EncodingByte(meta) + 1] = meta.value_desc.encoding
<1>1. DOMAIN Encodings = 1..Len(Encodings) /\ Len(Encodings) = 7
  BY DEF Encodings
<1>2. PICK k : k = CHOOSE j \in DOMAIN Encodings : Encodings[j] = meta.value_desc.encoding
  OBVIOUS
<1>3. \E j \in DOMAIN Encodings : Encodings[j] = meta.value_desc.encoding
  BY EncodingsFacts DEF Range
<1>4. k \in 1..7 /\ Encodings[k] = meta.value_desc.encoding
  BY <1>1, <1>2, <1>3
<1>5. PICK b \in Nat \ {0} : b = 2^ByteBits /\ 7 <= b
  BY <1>1, ValueSizeFacts, SizesAssumption
<1>6. k - 1 \in 0..(b - 1) /\ (k - 1) + 1 = k
  BY <1>4, <1>5
<1> QED BY <1>2, <1>4, <1>5, <1>6 DEF EncodingByte, ByteValues

\* The byte of a list of outlier data tells how the list is written.
LEMMA ExtraByteFacts ==
  ASSUME NEW desc \in Descriptors(WordBits), ExtraFits(desc)
  PROVE  /\ ExtraByte(desc) \in ByteValues
         /\ desc.encoding = "bitpck" => ExtraByte(desc) = desc.nbits
         /\ ExtraByte(desc) = 0 <=> desc.encoding = "varint"
<1>1. desc.nbits \in 0..WordBits /\ desc.nbits # 0
  BY DEF Descriptors, ExtraFits
<1>2. 0 \in 0..WordBits
  BY BitsFacts
<1>3. Byte(desc.nbits) = desc.nbits /\ Byte(0) = 0
  BY <1>1, <1>2, BitsFacts
<1>4. desc.nbits \in ByteValues /\ 0 \in ByteValues
  BY <1>1, <1>2, BitsFacts
<1>5. desc.encoding \in {"varint", "bitpck"}
  BY DEF ExtraFits
<1> QED BY <1>1, <1>3, <1>4, <1>5 DEF ExtraByte

\* The parts of metadata are bytes, as many as their spaces say.
LEMMA MetaPartsFacts ==
  ASSUME NEW meta, MetaFits(meta)
  PROVE  /\ ZigzagIfSigned(meta.value_desc.origin) \in Nat
         /\ UnzigzagIfSigned(ZigzagIfSigned(meta.value_desc.origin)) = meta.value_desc.origin
         /\ meta.noutliers \in Nat
         /\ <<EncodingByte(meta)>> \in Seq(ByteValues)
         /\ MetaOrigin(meta) \in Seq(ByteValues)
         /\ MetaNbits(meta) \in Seq(ByteValues)
         /\ MetaOutliers(meta) \in Seq(ByteValues)
         /\ Len(MetaOrigin(meta)) =
              IF meta.value_desc.encoding \in WithOrigin
              THEN ValueSpace(ZigzagIfSigned(meta.value_desc.origin)) ELSE 0
         /\ Len(MetaNbits(meta)) = IF meta.value_desc.encoding \in WithNbits THEN 1 ELSE 0
         /\ Len(MetaOutliers(meta)) =
              IF meta.value_desc.encoding = "bitpfr" THEN ValueSpace(meta.noutliers) + 2 ELSE 0
<1>1. /\ meta.value_desc \in Descriptors(Width) /\ meta.noutliers \in Nat
      /\ meta.outlier_index_desc \in Descriptors(WordBits)
      /\ meta.outlier_value_desc \in Descriptors(Width)
  BY DEF MetaFits, MetaRecords
<1>2. /\ meta.value_desc.encoding \in EncodingNames /\ meta.value_desc.origin \in Original
      /\ meta.value_desc.nbits \in 0..Width
  BY <1>1 DEF Descriptors
<1>3. PICK z \in Nat : z = ZigzagIfSigned(meta.value_desc.origin)
                         /\ UnzigzagIfSigned(z) = meta.value_desc.origin
  BY <1>2, ValueCodecsInvert, UnsignedNumbers
<1>4. <<>> \in Seq(ByteValues) /\ Len(<<>>) = 0
  OBVIOUS
<1>5. /\ MetaOrigin(meta) \in Seq(ByteValues)
      /\ Len(MetaOrigin(meta)) =
           IF meta.value_desc.encoding \in WithOrigin THEN ValueSpace(z) ELSE 0
  <2>1. ValueBytes(z) \in Seq(ByteValues) /\ Len(ValueBytes(z)) = ValueSpace(z)
    BY ValueBytesAreBytes
  <2> QED BY <1>3, <1>4, <2>1 DEF MetaOrigin
<1>6. /\ MetaNbits(meta) \in Seq(ByteValues)
      /\ Len(MetaNbits(meta)) = IF meta.value_desc.encoding \in WithNbits THEN 1 ELSE 0
  <2>1. PICK b \in ByteValues : b = Byte(meta.value_desc.nbits)
    BY <1>2, BitsFacts
  <2>2. <<b>> \in Seq(ByteValues) /\ Len(<<b>>) = 1
    OBVIOUS
  <2> QED BY <1>4, <2>1, <2>2 DEF MetaNbits
<1>7. /\ MetaOutliers(meta) \in Seq(ByteValues)
      /\ Len(MetaOutliers(meta)) =
           IF meta.value_desc.encoding = "bitpfr" THEN ValueSpace(meta.noutliers) + 2 ELSE 0
  <2>1. CASE meta.value_desc.encoding = "bitpfr"
    <3>1. PICK x \in ByteValues, y \in ByteValues :
            x = ExtraByte(meta.outlier_index_desc) /\ y = ExtraByte(meta.outlier_value_desc)
      <4>1. Descriptors(Width) \subseteq Descriptors(WordBits)
        <5>1. 0..Width \subseteq 0..WordBits
          BY BitsFacts
        <5> QED BY <5>1 DEF Descriptors
      <4>2. ExtraFits(meta.outlier_index_desc) /\ ExtraFits(meta.outlier_value_desc)
        BY <2>1 DEF MetaFits
      <4>3. ExtraByte(meta.outlier_index_desc) \in ByteValues
        BY <1>1, <4>2, ExtraByteFacts
      <4>4. ExtraByte(meta.outlier_value_desc) \in ByteValues
        BY <1>1, <4>1, <4>2, ExtraByteFacts
      <4> QED BY <4>3, <4>4
    <3>2. PICK s \in Seq(ByteValues) :
            s = ValueBytes(meta.noutliers) /\ Len(s) = ValueSpace(meta.noutliers)
      BY <1>1, ValueBytesAreBytes
    <3>3. <<x, y>> \in Seq(ByteValues) /\ Len(<<x, y>>) = 2
      OBVIOUS
    <3>4. s \o <<x, y>> \in Seq(ByteValues) /\ Len(s \o <<x, y>>) = Len(s) + 2
      BY <3>3
    <3> QED BY <2>1, <3>1, <3>2, <3>4 DEF MetaOutliers
  <2>2. CASE meta.value_desc.encoding # "bitpfr"
    BY <1>4, <2>2 DEF MetaOutliers
  <2> QED BY <2>1, <2>2
<1>8. <<EncodingByte(meta)>> \in Seq(ByteValues)
  <2>1. EncodingByte(meta) \in ByteValues
    BY <1>2, EncodingByteFacts
  <2> QED BY <2>1
<1> QED BY <1>1, <1>3, <1>5, <1>6, <1>7, <1>8

\* Two descriptors are the same as far as bytes depend on them.
SameBasic(a, b) ==
  a.encoding = b.encoding /\ (a.encoding \in WithNbits => a.nbits = b.nbits)

\* Metadata that describe the same data.
SameChoice(a, b) ==
  /\ SameBasic(a.value_desc, b.value_desc)
  /\ a.value_desc.encoding \in WithOrigin => a.value_desc.origin = b.value_desc.origin
  /\ a.value_desc.encoding = "bitpfr" =>
       /\ a.noutliers = b.noutliers
       /\ SameBasic(a.outlier_index_desc, b.outlier_index_desc)
       /\ SameBasic(a.outlier_value_desc, b.outlier_value_desc)

\* What has been written of the metadata is read back.
LEMMA ExtraReadsBack ==
  ASSUME NEW bits \in 0..WordBits, NEW desc \in Descriptors(bits), ExtraFits(desc),
         NEW old \in Descriptors(bits)
  PROVE  /\ ExtraDescriptor(old, ExtraByte(desc)) \in Descriptors(bits)
         /\ SameBasic(ExtraDescriptor(old, ExtraByte(desc)), desc)
<1>1. /\ desc.nbits \in 0..bits /\ desc.encoding \in {"varint", "bitpck"} /\ desc.nbits # 0
  BY DEF Descriptors, ExtraFits
<1>2. desc \in Descriptors(WordBits)
  <2>1. \A n \in 0..bits : n \in 0..WordBits
    <3>1. WordBits \in Nat
      BY BitsFacts
    <3> QED BY <3>1
  <2> QED BY <2>1 DEF Descriptors
<1>3. /\ desc.encoding = "bitpck" => ExtraByte(desc) = desc.nbits
      /\ ExtraByte(desc) = 0 <=> desc.encoding = "varint"
  BY <1>2, ExtraByteFacts
<1>4. CASE desc.encoding = "varint"
  <2>1. ExtraDescriptor(old, ExtraByte(desc)) = [old EXCEPT !.encoding = "varint"]
    BY <1>3, <1>4 DEF ExtraDescriptor, Descriptors
  <2>2. [old EXCEPT !.encoding = "varint"] \in Descriptors(bits)
    BY DEF Descriptors, EncodingNames
  <2>3. [old EXCEPT !.encoding = "varint"].encoding = "varint"
    BY DEF Descriptors
  <2>4. "varint" \notin WithNbits
    BY DEF WithNbits
  <2> QED BY <1>4, <2>1, <2>2, <2>3, <2>4 DEF SameBasic
<1>5. CASE desc.encoding = "bitpck"
  <2>1. ExtraDescriptor(old, ExtraByte(desc)) =
          [old EXCEPT !.encoding = "bitpck", !.nbits = desc.nbits]
    BY <1>1, <1>3, <1>5 DEF ExtraDescriptor
  <2>2. [old EXCEPT !.encoding = "bitpck", !.nbits = desc.nbits] \in Descriptors(bits)
    BY <1>1 DEF Descriptors, EncodingNames
  <2>3. /\ [old EXCEPT !.encoding = "bitpck", !.nbits = desc.nbits].encoding = "bitpck"
        /\ [old EXCEPT !.encoding = "bitpck", !.nbits = desc.nbits].nbits = desc.nbits
    BY DEF Descriptors
  <2> QED BY <1>5, <2>1, <2>2, <2>3 DEF SameBasic
<1> QED BY <1>1, <1>4, <1>5

\* What reading finds is what was written, and the reading ends behind it.
MetaRead(read, meta) ==
  /\ read.meta \in MetaRecords
  /\ SameChoice(read.meta, meta)
  /\ read.next = 1 + Len(MetaBytes(meta))

\* Where the parts of metadata stand.
LEMMA MetaStands ==
  ASSUME NEW meta, MetaFits(meta), NEW stream \in Seq(ByteValues),
         StandsAt(stream, 1, MetaBytes(meta)),
         NEW lo \in Nat, NEW ln \in Nat, NEW lx \in Nat,
         lo = Len(MetaOrigin(meta)), ln = Len(MetaNbits(meta)), lx = Len(MetaOutliers(meta))
  PROVE  /\ Len(MetaBytes(meta)) = 1 + lo + ln + lx
         /\ stream[1] = EncodingByte(meta)
         /\ StandsAt(stream, 2, MetaOrigin(meta))
         /\ StandsAt(stream, 2 + lo, MetaNbits(meta))
         /\ StandsAt(stream, 2 + lo + ln, MetaOutliers(meta))
<1>1. PICK e \in Seq(ByteValues), o \in Seq(ByteValues), n \in Seq(ByteValues), x \in Seq(ByteValues) :
        /\ e = <<EncodingByte(meta)>> /\ o = MetaOrigin(meta)
        /\ n = MetaNbits(meta) /\ x = MetaOutliers(meta)
  BY MetaPartsFacts
<1>2. PICK eo \in Seq(ByteValues) : eo = e \o o /\ Len(eo) = 1 + lo
  <2>1. Len(e) = 1 /\ Len(o) = lo
    BY <1>1
  <2>2. e \o o \in Seq(ByteValues) /\ Len(e \o o) = Len(e) + Len(o)
    BY ConcatProperties
  <2> QED BY <2>1, <2>2
<1>3. PICK eon \in Seq(ByteValues) : eon = eo \o n /\ Len(eon) = 1 + lo + ln
  <2>1. Len(n) = ln
    BY <1>1
  <2>2. eo \o n \in Seq(ByteValues) /\ Len(eo \o n) = Len(eo) + Len(n)
    BY ConcatProperties
  <2> QED BY <1>2, <2>1, <2>2
<1>4. MetaBytes(meta) = eon \o x /\ Len(MetaBytes(meta)) = 1 + lo + ln + lx
  <2>1. MetaBytes(meta) = eon \o x
    BY <1>1, <1>2, <1>3, MetaParts
  <2>2. Len(x) = lx
    BY <1>1
  <2>3. Len(eon \o x) = Len(eon) + Len(x)
    BY ConcatProperties
  <2> QED BY <1>3, <2>1, <2>2, <2>3
<1>5. StandsAt(stream, 1, eon) /\ StandsAt(stream, 1 + (1 + lo + ln), x)
  <2>1. StandsAt(stream, 1, eon \o x)
    BY <1>4
  <2>2. StandsAt(stream, 1, eon) /\ StandsAt(stream, 1 + Len(eon), x)
    BY <2>1, StandsBehind
  <2> QED BY <1>3, <2>2
<1>6. StandsAt(stream, 1, eo) /\ StandsAt(stream, 1 + (1 + lo), n)
  <2>1. StandsAt(stream, 1, eo \o n)
    BY <1>3, <1>5
  <2>2. StandsAt(stream, 1, eo) /\ StandsAt(stream, 1 + Len(eo), n)
    BY <2>1, StandsBehind
  <2> QED BY <1>2, <2>2
<1>7. StandsAt(stream, 1, e) /\ StandsAt(stream, 1 + 1, o)
  <2>1. StandsAt(stream, 1, e \o o)
    BY <1>2, <1>6
  <2>2. StandsAt(stream, 1, e) /\ StandsAt(stream, 1 + Len(e), o)
    BY <2>1, StandsBehind
  <2>3. Len(e) = 1
    BY <1>1
  <2> QED BY <2>2, <2>3
<1>8. stream[1] = EncodingByte(meta)
  <2>1. Len(e) = 1 /\ e[1] = EncodingByte(meta) /\ 1 \in 1..1
    BY <1>1
  <2>2. stream[1 + 1 - 1] = e[1]
    BY <1>7, <2>1 DEF StandsAt
  <2> QED BY <2>1, <2>2
<1>9. 1 + 1 = 2 /\ 1 + (1 + lo) = 2 + lo /\ 1 + (1 + lo + ln) = 2 + lo + ln
  OBVIOUS
<1> QED BY <1>1, <1>4, <1>5, <1>6, <1>7, <1>8, <1>9

\* A varint that stands in a stream is read.
LEMMA StandingValue ==
  ASSUME NEW stream \in Seq(ByteValues), NEW at \in Nat, NEW u \in Nat,
         StandsAt(stream, at, ValueBytes(u))
  PROVE  ReadValue(stream, at) = [value |-> u, next |-> at + ValueSpace(u)]
<1>1. stream \in Seq(Nat)
  BY BitsFacts, SeqMonotonic
<1>2. /\ at + Len(ValueBytes(u)) - 1 <= Len(stream)
      /\ \A k \in 1..Len(ValueBytes(u)) : stream[at + k - 1] = ValueBytes(u)[k]
  BY DEF StandsAt
<1> QED BY <1>1, <1>2, VarintReadsBack

\* Metadata that are read are those that were written, as far as data depend on
\* them, whatever the reader's metadata held before.
LEMMA MetaReadsBack ==
  ASSUME NEW meta, MetaFits(meta), NEW reader \in MetaRecords,
         NEW stream \in Seq(ByteValues), StandsAt(stream, 1, MetaBytes(meta))
  PROVE  MetaRead(ReadMeta(reader, stream), meta)
<1>1. /\ meta.value_desc \in Descriptors(Width) /\ meta.noutliers \in Nat
      /\ meta.outlier_index_desc \in Descriptors(WordBits)
      /\ meta.outlier_value_desc \in Descriptors(Width)
  BY DEF MetaFits, MetaRecords
<1>2. PICK enc \in EncodingNames, origin \in Original, nbits \in 0..Width, no \in Nat :
        /\ enc = meta.value_desc.encoding /\ origin = meta.value_desc.origin
        /\ nbits = meta.value_desc.nbits /\ no = meta.noutliers
  BY <1>1 DEF Descriptors
<1>3. PICK z \in Nat : z = ZigzagIfSigned(origin) /\ UnzigzagIfSigned(z) = origin
  BY <1>2, MetaPartsFacts
<1>4. PICK lo \in Nat, ln \in Nat, lx \in Nat :
        /\ lo = Len(MetaOrigin(meta)) /\ ln = Len(MetaNbits(meta)) /\ lx = Len(MetaOutliers(meta))
        /\ lo = IF enc \in WithOrigin THEN ValueSpace(z) ELSE 0
        /\ ln = IF enc \in WithNbits THEN 1 ELSE 0
        /\ lx = IF enc = "bitpfr" THEN ValueSpace(no) + 2 ELSE 0
  <2>1. MetaOrigin(meta) \in Seq(ByteValues) /\ MetaNbits(meta) \in Seq(ByteValues)
        /\ MetaOutliers(meta) \in Seq(ByteValues)
    BY MetaPartsFacts
  <2>2. Len(MetaOrigin(meta)) \in Nat /\ Len(MetaNbits(meta)) \in Nat /\ Len(MetaOutliers(meta)) \in Nat
    BY <2>1
  <2> QED BY <1>2, <1>3, <2>2, MetaPartsFacts
<1>5. /\ Len(MetaBytes(meta)) = 1 + lo + ln + lx
      /\ stream[1] = EncodingByte(meta)
      /\ StandsAt(stream, 2, MetaOrigin(meta))
      /\ StandsAt(stream, 2 + lo, MetaNbits(meta))
      /\ StandsAt(stream, 2 + lo + ln, MetaOutliers(meta))
  BY <1>4, MetaStands
<1>6. Encodings[stream[1] + 1] = enc
  BY <1>2, <1>5, EncodingByteFacts
<1>7. enc \in WithOrigin => ReadValue(stream, 2) = [value |-> z, next |-> 2 + lo]
  <2> SUFFICES ASSUME enc \in WithOrigin PROVE ReadValue(stream, 2) = [value |-> z, next |-> 2 + lo]
    OBVIOUS
  <2>1. MetaOrigin(meta) = ValueBytes(z) /\ lo = ValueSpace(z)
    BY <1>2, <1>3, <1>4 DEF MetaOrigin
  <2>2. 2 \in Nat
    OBVIOUS
  <2> QED BY <1>5, <2>1, <2>2, StandingValue
<1>8. PICK a \in Nat : /\ a = IF enc \in WithOrigin THEN ReadValue(stream, 2).next ELSE 2
                       /\ a = 2 + lo
  <2>1. CASE enc \in WithOrigin
    <3>1. ReadValue(stream, 2).next = 2 + lo
      BY <1>7, <2>1
    <3> QED BY <2>1, <3>1
  <2>2. CASE enc \notin WithOrigin
    <3>1. lo = 0
      BY <1>4, <2>2
    <3>2. 2 = 2 + lo
      BY <3>1
    <3> QED BY <2>2, <3>2
  <2> QED BY <2>1, <2>2
<1>9. PICK b \in Nat : /\ b = IF enc \in WithNbits THEN a + 1 ELSE a
                       /\ b = 2 + lo + ln
  <2>1. a \in Nat /\ a = 2 + lo /\ lo \in Nat
    BY <1>8
  <2>2. CASE enc \in WithNbits
    <3>1. ln = 1
      BY <1>4, <2>2
    <3>2. a + 1 \in Nat /\ a + 1 = 2 + lo + ln
      BY ONLY <2>1, <3>1
    <3> QED BY <2>2, <3>2
  <2>3. CASE enc \notin WithNbits
    <3>1. ln = 0
      BY <1>4, <2>3
    <3>2. a = 2 + lo + ln
      BY ONLY <2>1, <3>1
    <3> QED BY <2>1, <2>3, <3>2
  <2> QED BY <2>2, <2>3
<1>10. enc \in WithNbits => stream[a] = nbits
  <2> SUFFICES ASSUME enc \in WithNbits PROVE stream[a] = nbits
    OBVIOUS
  <2>1. Byte(nbits) = nbits
    BY BitsFacts
  <2>2. MetaNbits(meta) = <<nbits>>
    BY <1>2, <2>1 DEF MetaNbits
  <2>3. Len(<<nbits>>) = 1 /\ 1 \in 1..1 /\ <<nbits>>[1] = nbits
    OBVIOUS
  <2>4. stream[a + 1 - 1] = <<nbits>>[1]
    <3>1. StandsAt(stream, a, <<nbits>>)
      BY <1>5, <1>8, <2>2
    <3> QED BY <2>3, <3>1 DEF StandsAt
  <2>5. a + 1 - 1 = a
    <3>1. a \in Nat
      BY <1>8
    <3> QED BY ONLY <3>1
  <2> QED BY <2>3, <2>4, <2>5
<1> DEFINE described ==
             [reader EXCEPT
                !.value_desc.encoding = enc,
                !.value_desc.origin = IF enc \in WithOrigin THEN origin ELSE @,
                !.value_desc.nbits = IF enc \in WithNbits THEN nbits ELSE @]
<1>11. /\ described \in MetaRecords
       /\ described.value_desc.encoding = enc
       /\ enc \in WithOrigin => described.value_desc.origin = origin
       /\ enc \in WithNbits => described.value_desc.nbits = nbits
  BY DEF MetaRecords, Descriptors
<1>12. ReadMeta(reader, stream) =
         IF enc # "bitpfr" THEN [meta |-> described, next |-> b]
         ELSE [meta |->
                 [described EXCEPT
                    !.noutliers = ReadValue(stream, b).value,
                    !.outlier_index_desc = ExtraDescriptor(@, stream[ReadValue(stream, b).next]),
                    !.outlier_value_desc = ExtraDescriptor(@, stream[ReadValue(stream, b).next + 1])],
               next |-> ReadValue(stream, b).next + 2]
  <2>1. PICK d : d = described
    OBVIOUS
  <2>2. d = [reader EXCEPT
               !.value_desc.encoding = enc,
               !.value_desc.origin =
                 IF enc \in WithOrigin THEN UnzigzagIfSigned(ReadValue(stream, 2).value) ELSE @,
               !.value_desc.nbits = IF enc \in WithNbits THEN stream[a] ELSE @]
    <3>1. CASE enc \in WithOrigin
      <4>1. UnzigzagIfSigned(ReadValue(stream, 2).value) = origin
        BY <1>3, <1>7, <3>1
      <4>2. CASE enc \in WithNbits
        BY <1>10, <2>1, <3>1, <4>1, <4>2
      <4>3. CASE enc \notin WithNbits
        BY <2>1, <3>1, <4>1, <4>3
      <4> QED BY <4>2, <4>3
    <3>2. CASE enc \notin WithOrigin
      <4>2. CASE enc \in WithNbits
        BY <1>10, <2>1, <3>2, <4>2
      <4>3. CASE enc \notin WithNbits
        BY <2>1, <3>2, <4>3
      <4> QED BY <4>2, <4>3
    <3> QED BY <3>1, <3>2
  <2> HIDE DEF described
  <2> QED BY <1>6, <1>8, <1>9, <2>1, <2>2 DEF ReadMeta
<1> HIDE DEF described
<1>13. CASE enc # "bitpfr"
  <2>1. ReadMeta(reader, stream) = [meta |-> described, next |-> b]
    BY <1>12, <1>13
  <2>2. lx = 0 /\ b = 1 + Len(MetaBytes(meta))
    <3>1. lx = 0 /\ lo \in Nat /\ ln \in Nat
      BY <1>4, <1>13
    <3>2. b = 2 + lo + ln /\ Len(MetaBytes(meta)) = 1 + lo + ln + lx
      BY <1>5, <1>9
    <3> QED BY ONLY <3>1, <3>2
  <2>3. SameChoice(described, meta)
    BY <1>2, <1>11, <1>13 DEF SameChoice, SameBasic
  <2> QED BY <1>11, <2>1, <2>2, <2>3 DEF MetaRead
<1>14. CASE enc = "bitpfr"
  <2>1. PICK s \in Seq(ByteValues) : s = ValueBytes(no) /\ Len(s) = ValueSpace(no)
    BY ValueBytesAreBytes
  <2>2. PICK x \in ByteValues, y \in ByteValues :
          x = ExtraByte(meta.outlier_index_desc) /\ y = ExtraByte(meta.outlier_value_desc)
    <3>1. ExtraFits(meta.outlier_index_desc) /\ ExtraFits(meta.outlier_value_desc)
      BY <1>2, <1>14 DEF MetaFits
    <3>2. Descriptors(Width) \subseteq Descriptors(WordBits)
      <4>1. 0..Width \subseteq 0..WordBits
        BY BitsFacts
      <4> QED BY <4>1 DEF Descriptors
    <3>3. ExtraByte(meta.outlier_index_desc) \in ByteValues
      BY <1>1, <3>1, ExtraByteFacts
    <3>4. ExtraByte(meta.outlier_value_desc) \in ByteValues
      BY <1>1, <3>1, <3>2, ExtraByteFacts
    <3> QED BY <3>3, <3>4
  <2>3. MetaOutliers(meta) = s \o <<x, y>>
    BY <1>2, <1>14, <2>1, <2>2 DEF MetaOutliers
  <2>4. PICK e \in Nat : e = b + ValueSpace(no) /\ e = b + Len(s)
    <3>1. Len(s) \in Nat
      OBVIOUS
    <3> QED BY <2>1, <3>1
  <2>5. StandsAt(stream, b, s) /\ StandsAt(stream, e, <<x, y>>)
    <3>1. <<x, y>> \in Seq(ByteValues)
      OBVIOUS
    <3>2. StandsAt(stream, b, s \o <<x, y>>)
      <4>1. StandsAt(stream, b, MetaOutliers(meta))
        BY <1>5, <1>9
      <4> QED BY <2>3, <4>1
    <3>3. StandsAt(stream, b, s) /\ StandsAt(stream, b + Len(s), <<x, y>>)
      BY <3>1, <3>2, StandsBehind
    <3> QED BY <2>4, <3>3
  <2>6. ReadValue(stream, b) = [value |-> no, next |-> e]
    BY <2>1, <2>4, <2>5, StandingValue
  <2>7. stream[e] = x /\ stream[e + 1] = y
    <3>1. Len(<<x, y>>) = 2 /\ <<x, y>>[1] = x /\ <<x, y>>[2] = y /\ 1 \in 1..2 /\ 2 \in 1..2
      OBVIOUS
    <3>2. stream[e + 1 - 1] = <<x, y>>[1] /\ stream[e + 2 - 1] = <<x, y>>[2]
      BY <2>5, <3>1 DEF StandsAt
    <3>3. e + 1 - 1 = e /\ e + 2 - 1 = e + 1
      BY <2>4
    <3> QED BY <3>1, <3>2, <3>3
  <2> DEFINE i == ExtraDescriptor(described.outlier_index_desc, x)
             v == ExtraDescriptor(described.outlier_value_desc, y)
             m == [described EXCEPT !.noutliers = no,
                                    !.outlier_index_desc = i, !.outlier_value_desc = v]
  <2>8. ReadMeta(reader, stream) = [meta |-> m, next |-> e + 2]
    <3>1. ReadMeta(reader, stream) =
            [meta |->
               [described EXCEPT
                  !.noutliers = no,
                  !.outlier_index_desc = ExtraDescriptor(@, x),
                  !.outlier_value_desc = ExtraDescriptor(@, y)],
             next |-> e + 2]
      <4>1. ReadValue(stream, b).value = no /\ ReadValue(stream, b).next = e
        BY <2>6
      <4> HIDE DEF i, v, m
      <4> QED BY <1>12, <1>14, <2>7, <4>1
    <3>2. [described EXCEPT
             !.noutliers = no,
             !.outlier_index_desc = ExtraDescriptor(@, x),
             !.outlier_value_desc = ExtraDescriptor(@, y)] = m
      BY <1>11 DEF MetaRecords
    <3> HIDE DEF m
    <3> QED BY <3>1, <3>2
  <2>9. /\ i \in Descriptors(WordBits) /\ SameBasic(i, meta.outlier_index_desc)
        /\ v \in Descriptors(Width) /\ SameBasic(v, meta.outlier_value_desc)
    <3>1. described.outlier_index_desc \in Descriptors(WordBits)
          /\ described.outlier_value_desc \in Descriptors(Width)
      BY <1>11 DEF MetaRecords
    <3>2. ExtraFits(meta.outlier_index_desc) /\ ExtraFits(meta.outlier_value_desc)
      BY <1>2, <1>14 DEF MetaFits
    <3>3. WordBits \in 0..WordBits /\ Width \in 0..WordBits
      BY BitsFacts
    <3>4. i \in Descriptors(WordBits) /\ SameBasic(i, meta.outlier_index_desc)
      BY <1>1, <2>2, <3>1, <3>2, <3>3, ExtraReadsBack
    <3>5. v \in Descriptors(Width) /\ SameBasic(v, meta.outlier_value_desc)
      BY <1>1, <2>2, <3>1, <3>2, <3>3, ExtraReadsBack
    <3> QED BY <3>4, <3>5
  <2> HIDE DEF i, v
  <2>10. /\ m \in MetaRecords
         /\ m.noutliers = no /\ m.outlier_index_desc = i /\ m.outlier_value_desc = v
         /\ m.value_desc = described.value_desc
    BY <1>11, <2>9 DEF MetaRecords
  <2> HIDE DEF m
  <2>11. SameChoice(m, meta)
    BY <1>2, <1>11, <1>14, <2>9, <2>10 DEF SameChoice, SameBasic
  <2>12. e + 2 = 1 + Len(MetaBytes(meta))
    <3>1. lx = ValueSpace(no) + 2
      BY <1>4, <1>14
    <3>2. PICK p \in Nat : p = ValueSpace(no)
      BY <2>1
    <3>3. e = b + p /\ b = 2 + lo + ln /\ Len(MetaBytes(meta)) = 1 + lo + ln + lx /\ lx = p + 2
      BY <1>5, <1>9, <2>4, <3>1, <3>2
    <3>4. lo \in Nat /\ ln \in Nat /\ p \in Nat
      OBVIOUS
    <3> QED BY ONLY <3>3, <3>4
  <2> QED BY <2>8, <2>10, <2>11, <2>12 DEF MetaRead
<1> QED BY <1>13, <1>14

-------------------------------------------------------------------------------
(* Statistics.                                                              *)

\* The integers of a type are as many as the modulus, zero among them.
LEMMA OriginalBounds ==
  /\ Original = LeastOriginal..GreatestOriginal
  /\ LeastOriginal \in Int /\ GreatestOriginal \in Int /\ LeastOriginal <= GreatestOriginal
  /\ GreatestOriginal - LeastOriginal = Modulus - 1 /\ 0 \in Original
<1>1. PICK half \in Nat \ {0} : /\ Modulus = 2 * half /\ Modulus \div 2 = half
                                /\ Unsigned = 0..(2 * half - 1)
                                /\ IsSigned => Original = (0 - half)..(half - 1)
                                /\ ~IsSigned => Original = Unsigned
  BY ModulusFacts
<1>2. CASE IsSigned
  <2>1. LeastOriginal = 0 - half
    <3>1. -(Modulus \div 2) = 0 - half
      BY <1>1
    <3> QED BY <1>2, <3>1 DEF LeastOriginal
  <2>2. GreatestOriginal = half - 1
    BY <1>1, <2>1 DEF GreatestOriginal
  <2> QED BY <1>1, <1>2, <2>1, <2>2
<1>3. CASE ~IsSigned
  <2>1. LeastOriginal = 0
    BY <1>3 DEF LeastOriginal
  <2>2. GreatestOriginal = 2 * half - 1
    BY <1>1, <2>1 DEF GreatestOriginal
  <2> QED BY <1>1, <1>3, <2>1, <2>2
<1> QED BY <1>2, <1>3

\* A bounded set of integers has a least and a greatest one.
LEMMA IntegersBounded ==
  ASSUME NEW low \in Int, NEW high \in Int, NEW S \in SUBSET (low..high), S # {}
  PROVE  /\ Min(S) \in S /\ \A x \in S : Min(S) <= x
         /\ Max(S) \in S /\ \A x \in S : x <= Max(S)
<1>0. PICK s \in S : TRUE
  OBVIOUS
<1>1. \E m \in S : \A x \in S : m <= x
  <2> DEFINE N == {k \in Nat : low + k \in S}
  <2>1. N \subseteq Nat
    OBVIOUS
  <2>2. s - low \in N
    OBVIOUS
  <2>3. PICK k \in N : \A j \in N : k <= j
    <3> HIDE DEF N
    <3> QED BY <2>1, <2>2, LeastNumber
  <2>4. low + k \in S /\ k \in Nat
    OBVIOUS
  <2>5. ASSUME NEW x \in S PROVE low + k <= x
    <3>1. x - low \in N
      OBVIOUS
    <3>2. k <= x - low
      BY <2>3, <3>1
    <3> QED BY <2>4, <3>2
  <2> QED BY <2>4, <2>5
<1>2. \E m \in S : \A x \in S : x <= m
  <2> DEFINE N == {k \in Nat : high - k \in S}
  <2>1. N \subseteq Nat
    OBVIOUS
  <2>2. high - s \in N
    <3>1. high - s \in Nat /\ high - (high - s) = s
      OBVIOUS
    <3> QED BY <3>1
  <2>3. PICK k \in N : \A j \in N : k <= j
    <3> HIDE DEF N
    <3> QED BY <2>1, <2>2, LeastNumber
  <2>4. high - k \in S /\ k \in Nat
    OBVIOUS
  <2>5. ASSUME NEW x \in S PROVE x <= high - k
    <3>1. high - x \in N
      <4>1. high - x \in Nat /\ high - (high - x) = x
        OBVIOUS
      <4> QED BY <4>1
    <3>2. k <= high - x
      BY <2>3, <3>1
    <3> QED BY <2>4, <3>2
  <2> QED BY <2>4, <2>5
<1> QED BY <1>1, <1>2 DEF Min, Max

\* What is between the least and the greatest integer of a sequence.
Spans(min, max, ints) ==
  /\ min \in Original /\ max \in Original /\ min <= max
  /\ \A i \in 1..Len(ints) : ints[i] \in Original /\ min <= ints[i] /\ ints[i] <= max
  /\ \E i \in 1..Len(ints) : ints[i] = min
  /\ \E i \in 1..Len(ints) : ints[i] = max

\* Statistics hold the least and the greatest of the integers, and their number.
LEMMA StatsFacts ==
  ASSUME NEW ints \in Seq(Original), Len(ints) # 0
  PROVE  Spans(Stats(ints).min, Stats(ints).max, ints) /\ Stats(ints).nvalues = Len(ints)
<1>1. /\ Original = LeastOriginal..GreatestOriginal
      /\ LeastOriginal \in Int /\ GreatestOriginal \in Int /\ LeastOriginal <= GreatestOriginal
  BY OriginalBounds
<1>2. PICK n \in Nat \ {0} : n = Len(ints)
  BY LenProperties
<1>3. Range(ints) = {ints[i] : i \in 1..n} /\ \A i \in 1..n : ints[i] \in Original
  BY <1>2 DEF Range
<1> DEFINE S == {GreatestOriginal} \cup Range(ints)
           T == {LeastOriginal} \cup Range(ints)
<1>4. PICK a : a = Min(S)
  OBVIOUS
<1>5. PICK c : c = Max(T)
  OBVIOUS
<1>6. S \in SUBSET (LeastOriginal..GreatestOriginal) /\ T \in SUBSET (LeastOriginal..GreatestOriginal)
      /\ S # {} /\ T # {}
  BY <1>1, <1>3
<1>7. a \in S /\ \A x \in S : a <= x
  <2> HIDE DEF S, T
  <2> QED BY <1>1, <1>4, <1>6, IntegersBounded
<1>8. c \in T /\ \A x \in T : x <= c
  <2> HIDE DEF S, T
  <2> QED BY <1>1, <1>5, <1>6, IntegersBounded
<1>9. 1 \in 1..n
  OBVIOUS
<1>10. \E i \in 1..n : ints[i] = a
  <2>1. CASE a = GreatestOriginal
    <3>1. a <= ints[1] /\ ints[1] <= GreatestOriginal /\ ints[1] \in Int
      BY <1>1, <1>3, <1>7, <1>9
    <3> QED BY <1>1, <1>9, <2>1, <3>1
  <2>2. CASE a \in Range(ints)
    BY <1>3, <2>2
  <2> QED BY <1>7, <2>1, <2>2
<1>11. \E i \in 1..n : ints[i] = c
  <2>1. CASE c = LeastOriginal
    <3>1. ints[1] <= c /\ LeastOriginal <= ints[1] /\ ints[1] \in Int
      BY <1>1, <1>3, <1>8, <1>9
    <3> QED BY <1>1, <1>9, <2>1, <3>1
  <2>2. CASE c \in Range(ints)
    BY <1>3, <2>2
  <2> QED BY <1>8, <2>1, <2>2
<1>12. a \in Original /\ c \in Original
  BY <1>3, <1>10, <1>11
<1>13. \A i \in 1..n : a <= ints[i] /\ ints[i] <= c
  BY <1>3, <1>7, <1>8
<1>14. a <= c
  <2>1. a <= ints[1] /\ ints[1] <= c /\ ints[1] \in Int /\ a \in Int /\ c \in Int
    BY <1>1, <1>3, <1>9, <1>12, <1>13
  <2> QED BY <2>1
<1>15. Stats(ints).min = a /\ Stats(ints).max = c /\ Stats(ints).nvalues = n
  BY <1>2, <1>4, <1>5 DEF Stats, MinValue, MaxValue
<1> HIDE DEF S, T
<1> QED BY <1>2, <1>3, <1>10, <1>11, <1>12, <1>13, <1>14, <1>15 DEF Spans

\* The difference to the least integer does not wrap.
LEMMA Differences ==
  ASSUME NEW min \in Original, NEW max \in Original, NEW v \in Original,
         min <= v, v <= max
  PROVE  /\ OriginEncode(min, v) \in Nat /\ OriginEncode(min, v) = v - min
         /\ OriginEncode(min, v) = ToUnsigned(v - min)
         /\ ToUnsigned(max - min) \in Nat /\ ToUnsigned(max - min) = max - min
         /\ OriginEncode(min, v) <= ToUnsigned(max - min)
         /\ ToUnsigned(max - min) < Modulus
<1>1. PICK low \in Int, high \in Int, m \in Nat \ {0} :
        /\ low = LeastOriginal /\ high = GreatestOriginal /\ m = Modulus
        /\ high - low = m - 1 /\ Original = low..high
  BY OriginalBounds, UnsignedNumbers
<1>2. v - min \in 0..(m - 1) /\ max - min \in 0..(m - 1) /\ v - min <= max - min
  BY <1>1
<1>3. ASSUME NEW x \in 0..(m - 1) PROVE ToUnsigned(x) = x
  BY <1>1 DEF ToUnsigned
<1>4. ToUnsigned(v - min) = v - min /\ ToUnsigned(max - min) = max - min
  BY <1>2, <1>3
<1> QED BY <1>1, <1>2, <1>4 DEF OriginEncode

\* No integer is folded to more than the least or the greatest is.
Wider(a, b) == IF a > b THEN a ELSE b

\* The wider zigzag code of the ends bounds those of all integers between them.
LEMMA ZigzagBetween ==
  ASSUME NEW min \in Original, NEW max \in Original, NEW v \in Original,
         min <= v, v <= max
  PROVE  LET z == Wider(ZigzagIfSigned(min), ZigzagIfSigned(max))
         IN /\ z \in Nat /\ z < Modulus
            /\ ZigzagIfSigned(v) \in Nat /\ ZigzagIfSigned(v) <= z
            /\ min # max => z # 0
<1>1. PICK a \in Nat, b \in Nat, c \in Nat :
        a = ZigzagIfSigned(min) /\ b = ZigzagIfSigned(max) /\ c = ZigzagIfSigned(v)
  BY ValueCodecsInvert, UnsignedNumbers
<1>2. a < Modulus /\ b < Modulus
  <2>1. PICK m \in Nat \ {0} : m = Modulus
    BY UnsignedNumbers
  <2>2. a \in 0..(m - 1) /\ b \in 0..(m - 1)
    BY <1>1, <2>1, ValueCodecsInvert DEF Unsigned
  <2> QED BY <2>1, <2>2
<1>3. min \in Int /\ max \in Int /\ v \in Int
  BY OriginalBounds
<1>4. CASE IsSigned
  <2>1. /\ a = (IF min < 0 THEN 0 - 2 * min - 1 ELSE 2 * min)
        /\ b = (IF max < 0 THEN 0 - 2 * max - 1 ELSE 2 * max)
        /\ c = (IF v < 0 THEN 0 - 2 * v - 1 ELSE 2 * v)
    BY <1>1, <1>4, ZigzagInverts DEF ZigzagIfSigned
  <2>2. c <= Wider(a, b)
    BY <1>3, <2>1 DEF Wider
  <2>3. min # max => Wider(a, b) # 0
    BY <1>3, <2>1 DEF Wider
  <2>4. Wider(a, b) \in Nat /\ Wider(a, b) < Modulus
    BY <1>2 DEF Wider
  <2> QED BY <1>1, <2>2, <2>3, <2>4
<1>5. CASE ~IsSigned
  <2>1. a = min /\ b = max /\ c = v
    BY <1>1, <1>5 DEF ZigzagIfSigned
  <2>2. c <= Wider(a, b)
    BY <2>1 DEF Wider
  <2>3. min # max => Wider(a, b) # 0
    BY <2>1 DEF Wider
  <2>4. Wider(a, b) \in Nat /\ Wider(a, b) < Modulus
    BY <1>2 DEF Wider
  <2> QED BY <1>1, <2>2, <2>3, <2>4
<1> QED BY <1>4, <1>5

\* The bits of what is bounded are bounded.
LEMMA BitsBetween ==
  ASSUME NEW z \in Nat, z < Modulus
  PROVE  /\ UsedCount(z) \in 0..Width /\ (z # 0 => UsedCount(z) \in 1..Width)
         /\ \A u \in Nat : u <= z => u < 2^UsedCount(z)
<1>1. PICK k \in Nat : k = UsedCount(z) /\ z < 2^k
  BY UsedCountFacts
<1>2. Width \in Nat
  BY BitsFacts
<1>3. k <= Width
  BY <1>1, <1>2, UsedCountBelow DEF Modulus
<1>4. z # 0 => k # 0
  BY <1>1, UsedCountNext, UsedCountFacts
<1>5. PICK p \in Nat : p = 2^k
  BY PowerType
<1> QED BY <1>1, <1>2, <1>3, <1>4, <1>5

-------------------------------------------------------------------------------
(* Outliers.                                                                *)

\* s are the positions of the outliers, each once and in order.
Outliers(s, us, nbits) ==
  /\ s \in Seq(Nat) /\ Growing(s)
  /\ \A k \in 1..Len(s) : s[k] \in 0..(Len(us) - 1) /\ us[s[k] + 1] >= 2^nbits
  /\ \A p \in 0..(Len(us) - 1) :
       us[p + 1] >= 2^nbits => \E k \in 1..Len(s) : s[k] = p

\* The outliers of a list are listed in order.
LEMMA OutliersExist ==
  ASSUME NEW us \in Seq(Nat), NEW nbits \in Nat
  PROVE  Outliers(OutlierPositions(us, nbits), us, nbits)
<1>1. PICK n \in Nat : n = Len(us)
  OBVIOUS
<1> DEFINE S == {p \in 0..(n - 1) : us[p + 1] >= 2^nbits}
<1>2. S \in SUBSET (0..(n - 1))
  OBVIOUS
<1>3. PICK s \in Seq(Nat) : Growing(s) /\ S = {s[j] : j \in DOMAIN s}
  <2> HIDE DEF S
  <2> QED BY <1>2, OrderedExists
<1>4. DOMAIN s = 1..Len(s)
  OBVIOUS
<1>5. OutlierPositions(us, nbits) = Ordered(S)
  BY <1>1 DEF OutlierPositions
<1>6. IsFiniteSet(S) /\ S \in SUBSET Nat
  <2>1. 0 \in Int /\ n - 1 \in Int
    OBVIOUS
  <2>2. IsFiniteSet(0..(n - 1))
    BY <2>1, FS_Interval
  <2>3. IsFiniteSet(S)
    BY <1>2, <2>2, FS_Subset
  <2> QED BY <1>2, <2>3
<1>7. BeginsWith(S, s)
  <2>1. \A k \in DOMAIN s : s[k] \in S
    BY <1>3
  <2>2. \A x \in S : \E k \in DOMAIN s : x = s[k]
    BY <1>3
  <2> QED BY <2>1, <2>2 DEF BeginsWith
<1>8. Ordered(S) = s
  <2> HIDE DEF S
  <2> QED BY <1>3, <1>6, <1>7, OrderedBegins
<1>9. \A k \in 1..Len(s) : s[k] \in 0..(n - 1) /\ us[s[k] + 1] >= 2^nbits
  <2> TAKE k \in 1..Len(s)
  <2>1. s[k] \in S
    BY <1>3, <1>4
  <2> QED BY <2>1
<1>10. \A p \in 0..(n - 1) : us[p + 1] >= 2^nbits => \E k \in 1..Len(s) : s[k] = p
  <2> SUFFICES ASSUME NEW p \in 0..(n - 1), us[p + 1] >= 2^nbits
               PROVE  \E k \in 1..Len(s) : s[k] = p
    OBVIOUS
  <2>1. p \in S
    OBVIOUS
  <2>2. p \in {s[j] : j \in DOMAIN s}
    BY <1>3, <2>1
  <2> HIDE DEF S
  <2> QED BY <1>4, <2>2
<1> HIDE DEF S
<1> QED BY <1>1, <1>3, <1>5, <1>8, <1>9, <1>10 DEF Outliers

\* Positions that grow are restored from their distances.
LEMMA OffsetsInvert ==
  ASSUME NEW s \in Seq(Nat), Growing(s)
  PROVE  /\ OffsetEncode(s) \in Seq(Nat) /\ Len(OffsetEncode(s)) = Len(s)
         /\ \A k \in 1..Len(s) : OffsetEncode(s)[k] <= s[k]
         /\ OffsetDecode(OffsetEncode(s)) = s
<1>1. PICK n \in Nat : n = Len(s) /\ DOMAIN s = 1..n
  OBVIOUS
<1>2. PICK c : c = OffsetEncode(s)
  OBVIOUS
<1>3. c = [k \in 1..n |-> s[k] - (IF k = 1 THEN 0 ELSE s[k - 1] + 1)]
  BY <1>1, <1>2 DEF OffsetEncode
<1>4. ASSUME NEW k \in 1..n
      PROVE  /\ s[k] \in Nat /\ c[k] \in Nat /\ c[k] <= s[k]
             /\ k # 1 => k - 1 \in 1..n /\ s[k - 1] \in Nat
             /\ s[k] = c[k] + (IF k = 1 THEN 0 ELSE s[k - 1] + 1)
  <2>1. s[k] \in Nat /\ c[k] = s[k] - (IF k = 1 THEN 0 ELSE s[k - 1] + 1)
    BY <1>1, <1>3
  <2>2. CASE k = 1
    BY <2>1, <2>2
  <2>3. CASE k # 1
    <3>1. PICK j \in 1..n : j = k - 1 /\ j < k
      BY <2>3
    <3>2. s[j] \in Nat /\ s[j] < s[k]
      BY <1>1, <3>1 DEF Growing
    <3>3. c[k] = s[k] - (s[j] + 1)
      BY <2>1, <2>3, <3>1
    <3>4. PICK x \in Nat, y \in Nat : x = s[k] /\ y = s[j] /\ y < x
      BY <2>1, <3>2
    <3>5. c[k] = x - (y + 1) /\ x - (y + 1) \in Nat
      BY <3>3, <3>4
    <3>6. c[k] \in Nat /\ c[k] <= x /\ x = c[k] + (y + 1)
      BY <3>4, <3>5
    <3> QED BY <2>3, <3>1, <3>4, <3>6
  <2> QED BY <2>2, <2>3
<1>5. c \in Seq(Nat) /\ Len(c) = n /\ DOMAIN c = 1..n
  <2>1. c \in [1..n -> Nat]
    BY <1>3, <1>4
  <2> QED BY <2>1
<1> DEFINE IsDecoded(f) ==
             f = [k \in DOMAIN c |-> c[k] + (IF k = 1 THEN 0 ELSE f[k - 1] + 1)]
           f == CHOOSE g : IsDecoded(g)
<1>6. IsDecoded(s)
  <2>1. s = [k \in 1..n |-> s[k]]
    BY <1>1
  <2>2. s = [k \in 1..n |-> c[k] + (IF k = 1 THEN 0 ELSE s[k - 1] + 1)]
    BY <1>4, <2>1
  <2> QED BY <1>5, <2>2
<1>7. IsDecoded(f)
  <2> HIDE DEF IsDecoded
  <2> QED BY <1>6
<1>8. OffsetDecode(c) = f
  BY DEF OffsetDecode
<1> HIDE DEF f
<1>9. /\ f = [k \in 1..n |-> f[k]]
      /\ \A k \in 1..n : f[k] = c[k] + (IF k = 1 THEN 0 ELSE f[k - 1] + 1)
  BY <1>5, <1>7
<1> DEFINE Right == {m \in Nat : m \in 1..n => f[m] = s[m]}
<1>10. 0 \in Right
  OBVIOUS
<1>11. ASSUME NEW m \in Nat, m \in Right PROVE m + 1 \in Right
  <2> SUFFICES ASSUME m + 1 \in 1..n PROVE f[m + 1] = s[m + 1]
    OBVIOUS
  <2>1. PICK k \in 1..n : k = m + 1 /\ k - 1 = m
    OBVIOUS
  <2>2. f[k] = c[k] + (IF k = 1 THEN 0 ELSE f[k - 1] + 1)
    BY <1>9
  <2>3. s[k] = c[k] + (IF k = 1 THEN 0 ELSE s[k - 1] + 1)
    BY <1>4
  <2>4. k # 1 => f[k - 1] = s[k - 1]
    BY <1>11, <2>1
  <2> QED BY <2>1, <2>2, <2>3, <2>4
<1> HIDE DEF Right
<1>12. \A k \in 1..n : f[k] = s[k]
  <2>1. Nat \subseteq Right
    BY <1>10, <1>11, EveryNumber
  <2> QED BY <2>1 DEF Right
<1>13. s = [k \in 1..n |-> s[k]]
  BY <1>1
<1>14. f = s
  BY <1>9, <1>12, <1>13
<1> QED BY <1>1, <1>2, <1>4, <1>5, <1>8, <1>14

\* The high bits of the outliers.
HighValues(s, us, nbits) == [k \in 1..Len(s) |-> us[s[k] + 1] \div 2^nbits]

\* The indices of outliers are their gaps, the values their high bits.
LEMMA ExceptionsFacts ==
  ASSUME NEW us \in Seq(Nat), NEW nbits \in Nat, NEW s, s = OutlierPositions(us, nbits)
  PROVE  /\ Outliers(s, us, nbits)
         /\ Exceptions(us, nbits).indices = OffsetEncode(s)
         /\ Exceptions(us, nbits).values = HighValues(s, us, nbits)
         /\ OffsetEncode(s) \in Seq(Nat) /\ Len(OffsetEncode(s)) = Len(s)
         /\ \A k \in 1..Len(s) : OffsetEncode(s)[k] <= s[k]
         /\ HighValues(s, us, nbits) \in Seq(Nat) /\ Len(HighValues(s, us, nbits)) = Len(s)
<1>1. Outliers(s, us, nbits)
  BY OutliersExist
<1>2. s \in Seq(Nat) /\ Growing(s) /\ Len(s) \in Nat /\ DOMAIN s = 1..Len(s)
  BY <1>1 DEF Outliers
<1>3. /\ Exceptions(us, nbits).indices = OffsetEncode(s)
      /\ Exceptions(us, nbits).values = HighValues(s, us, nbits)
  BY <1>2 DEF Exceptions, HighValues
<1>4. PICK v : v = HighValues(s, us, nbits)
  OBVIOUS
<1>5. \A k \in 1..Len(s) : us[s[k] + 1] \div 2^nbits \in Nat
  <2> TAKE k \in 1..Len(s)
  <2>1. s[k] \in 0..(Len(us) - 1)
    BY <1>1 DEF Outliers
  <2>2. s[k] + 1 \in 1..Len(us)
    BY <2>1
  <2>3. PICK u \in Nat, p \in Nat \ {0} : u = us[s[k] + 1] /\ p = 2^nbits
    BY <2>2, PowerType
  <2>4. u \div p \in Nat
    BY Division
  <2> QED BY <2>3, <2>4
<1>6. v \in Seq(Nat) /\ Len(v) = Len(s)
  <2>1. v \in [1..Len(s) -> Nat]
    BY <1>4, <1>5 DEF HighValues
  <2> QED BY <1>2, <2>1
<1> QED BY <1>1, <1>2, <1>3, <1>4, <1>6, OffsetsInvert

\* Patching restores the integers.
LEMMA PatchRestores ==
  ASSUME NEW us \in Seq(Nat), NEW nbits \in Nat, NEW regular,
         regular = [i \in 1..Len(us) |-> us[i] % 2^nbits]
  PROVE  Patch(regular, [indices |-> Exceptions(us, nbits).indices,
                         values |-> Exceptions(us, nbits).values], nbits) = us
<1>1. PICK n \in Nat, p \in Nat \ {0} : n = Len(us) /\ p = 2^nbits
  BY PowerType
<1>2. PICK s : s = OutlierPositions(us, nbits)
  OBVIOUS
<1>3. Outliers(s, us, nbits)
  BY <1>2, ExceptionsFacts
<1>4. s \in Seq(Nat) /\ Growing(s) /\ DOMAIN s = 1..Len(s)
  BY <1>3 DEF Outliers
<1>5. PICK e : e = [indices |-> Exceptions(us, nbits).indices, values |-> Exceptions(us, nbits).values]
  OBVIOUS
<1>6. OffsetDecode(e.indices) = s
  BY <1>2, <1>4, <1>5, ExceptionsFacts, OffsetsInvert
<1>7. e.values = [k \in 1..Len(s) |-> us[s[k] + 1] \div p]
  <2>1. Exceptions(us, nbits).values = HighValues(s, us, nbits)
    BY <1>2, ExceptionsFacts
  <2>2. e.values = HighValues(s, us, nbits)
    BY <1>5, <2>1
  <2> QED BY <1>1, <2>2 DEF HighValues
<1> DEFINE high(q) == e.values[CHOOSE k \in DOMAIN s : s[k] = q] * p
           patched == {s[k] : k \in DOMAIN s}
<1>8. Patch(regular, e, nbits) =
        [i \in DOMAIN regular |-> IF i - 1 \in patched THEN regular[i] + high(i - 1) ELSE regular[i]]
  BY <1>1, <1>6 DEF Patch
<1>9. DOMAIN regular = 1..n /\ \A i \in 1..n : us[i] \in Nat /\ regular[i] = us[i] % p
  BY <1>1
<1>10. ASSUME NEW i \in 1..n
       PROVE  us[i] = IF i - 1 \in patched THEN regular[i] + high(i - 1) ELSE regular[i]
  <2>1. PICK u \in Nat, q \in Nat, r \in Nat : u = us[i] /\ q = u \div p /\ r = u % p /\ u = q * p + r
    <3>1. PICK u \in Nat : u = us[i]
      BY <1>9
    <3>2. u \div p \in Nat /\ u % p \in Nat /\ u = (u \div p) * p + (u % p)
      BY Division
    <3> QED BY <3>1, <3>2
  <2>2. regular[i] = r
    BY <1>9, <2>1
  <2>3. CASE i - 1 \in patched
    <3>1. PICK k : k = CHOOSE j \in DOMAIN s : s[j] = i - 1
      OBVIOUS
    <3>2. k \in DOMAIN s /\ s[k] = i - 1
      BY <2>3, <3>1
    <3>3. e.values[k] = us[s[k] + 1] \div p
      BY <1>4, <1>7, <3>2
    <3>4. (i - 1) + 1 = i
      OBVIOUS
    <3>5. e.values[k] = q
      BY <2>1, <3>2, <3>3, <3>4
    <3>6. high(i - 1) = q * p
      BY <3>1, <3>5
    <3>7. PICK x \in Nat : x = q * p
      BY ProductType
    <3>8. u = r + x
      <4>1. u = x + r /\ x \in Nat /\ r \in Nat
        BY <2>1, <3>7
      <4> QED BY ONLY <4>1
    <3> HIDE DEF high, patched
    <3> QED BY <2>1, <2>2, <2>3, <3>6, <3>7, <3>8
  <2>4. CASE i - 1 \notin patched
    <3>1. ~(us[i] >= p)
      <4> SUFFICES ASSUME us[i] >= p PROVE FALSE
        OBVIOUS
      <4>1. PICK j \in 0..(n - 1) : j = i - 1 /\ j + 1 = i
        OBVIOUS
      <4>2. PICK k \in 1..Len(s) : s[k] = j
        BY <1>1, <1>3, <4>1 DEF Outliers
      <4> QED BY <1>4, <2>4, <4>1, <4>2
    <3>2. u % p = u
      <4>1. u \in Nat /\ p \in Nat \ {0} /\ ~(u >= p)
        BY <2>1, <3>1
      <4> QED BY ONLY <4>1
    <3> HIDE DEF patched, high
    <3> QED BY <2>1, <2>2, <2>4, <3>2
  <2> QED BY <2>3, <2>4
<1> HIDE DEF high, patched
<1>11. Patch(regular, e, nbits) = [i \in 1..n |-> us[i]]
  BY <1>8, <1>9, <1>10
<1>12. us = [i \in 1..n |-> us[i]]
  BY <1>1
<1> QED BY <1>5, <1>11, <1>12

-------------------------------------------------------------------------------
(* How many outliers there are, and what they take.                         *)

\* How many bits each integer uses.
UsedCounts(us) == [i \in 1..Len(us) |-> UsedCount(us[i])]

\* The histogram counts the integers of each number of used bits.
LEMMA HistogramFacts ==
  ASSUME NEW us \in Seq(Nat)
  PROVE  /\ UsedCounts(us) \in [1..Len(us) -> Nat]
         /\ \A k \in 0..Width :
              /\ Histogram(us)[k] = Cardinality(PlacesOf(UsedCounts(us), Len(us), k))
              /\ Histogram(us)[k] \in Nat
<1>1. PICK n \in Nat : n = Len(us) /\ DOMAIN us = 1..n
  OBVIOUS
<1>2. PICK c : c = UsedCounts(us) /\ c = [i \in 1..n |-> UsedCount(us[i])]
  BY <1>1 DEF UsedCounts
<1>3. c \in [1..n -> Nat]
  <2>1. ASSUME NEW i \in 1..n PROVE UsedCount(us[i]) \in Nat
    <3>1. us[i] \in Nat
      BY <1>1
    <3> QED BY <3>1, UsedCountFacts
  <2> QED BY <1>2, <2>1
<1>4. \A k \in 0..Width : Histogram(us)[k] = Cardinality({i \in DOMAIN c : c[i] = k})
  <2>1. c = [i \in DOMAIN us |-> UsedCount(us[i])]
    BY <1>1, <1>2
  <2> QED BY <2>1 DEF Histogram
<1>5. \A k \in 0..Width : {i \in DOMAIN c : c[i] = k} = PlacesOf(c, n, k)
  BY <1>3 DEF PlacesOf
<1>6. \A k \in 0..Width : Cardinality(PlacesOf(c, n, k)) \in Nat
  BY PlacesType
<1> QED BY <1>1, <1>2, <1>3, <1>4, <1>5, <1>6

\* The places of the outliers, counted.
HighOnly(T, us, nbits) == \A i \in T : i \in 1..Len(us) /\ us[i] >= 2^nbits
\* The ranks of the outliers at the places T.
RanksOf(T, s) == {k \in 1..Len(s) : s[k] + 1 \in T}

\* A set of places of outliers is as large as the set of their ranks.
LEMMA PlacesOfOutliers ==
  ASSUME NEW us \in Seq(Nat), NEW nbits \in Nat, NEW s, Outliers(s, us, nbits),
         NEW T, HighOnly(T, us, nbits)
  PROVE  Cardinality(RanksOf(T, s)) = Cardinality(T)
<1> DEFINE P == {k \in 1..Len(s) : s[k] + 1 \in T}
<1>1. PICK n \in Nat, l \in Nat : n = Len(us) /\ l = Len(s) /\ DOMAIN s = 1..l
  BY DEF Outliers
<1>0. T \subseteq 1..n /\ \A i \in T : us[i] >= 2^nbits
  BY <1>1 DEF HighOnly
<1>2. /\ \A k \in 1..l : s[k] \in Nat
      /\ \A j, k \in 1..l : j < k => s[j] < s[k]
      /\ \A p \in 0..(n - 1) : us[p + 1] >= 2^nbits => \E k \in 1..l : s[k] = p
  <2>1. s \in Seq(Nat) /\ Growing(s)
    BY DEF Outliers
  <2>2. \A p \in 0..(n - 1) : us[p + 1] >= 2^nbits => \E k \in 1..l : s[k] = p
    BY <1>1 DEF Outliers
  <2>3. \A k \in 1..l : s[k] \in Nat
    BY <1>1, <2>1
  <2>4. \A j, k \in 1..l : j < k => s[j] < s[k]
    BY <1>1, <2>1 DEF Growing
  <2> QED BY <2>2, <2>3, <2>4
<1>3. IsFiniteSet(P)
  <2>1. 1 \in Int /\ l \in Int
    OBVIOUS
  <2>2. IsFiniteSet(1..l) /\ P \subseteq 1..l
    BY <1>1, <2>1, FS_Interval
  <2> QED BY <2>2, FS_Subset
<1> DEFINE f == [k \in P |-> s[k] + 1]
<1>4. f \in [P -> T]
  OBVIOUS
<1>5. \A j, k \in P : f[j] = f[k] => j = k
  <2> SUFFICES ASSUME NEW j \in P, NEW k \in P, f[j] = f[k] PROVE j = k
    OBVIOUS
  <2>1. j \in 1..l /\ k \in 1..l /\ s[j] + 1 = s[k] + 1
    BY <1>1
  <2>2. PICK x \in Nat, y \in Nat : x = s[j] /\ y = s[k] /\ x + 1 = y + 1
    BY <1>2, <2>1
  <2>3. ~(j < k) /\ ~(k < j)
    BY <1>2, <2>1, <2>2
  <2> QED BY <2>1, <2>3
<1>6. \A t \in T : \E k \in P : f[k] = t
  <2> TAKE t \in T
  <2>1. PICK p \in 0..(n - 1) : p = t - 1 /\ p + 1 = t
    BY <1>0
  <2>2. us[p + 1] >= 2^nbits
    BY <1>0, <2>1
  <2>3. PICK k \in 1..l : s[k] = p
    BY <1>2, <2>2
  <2>4. k \in P /\ f[k] = t
    BY <1>1, <2>1, <2>3
  <2> QED BY <2>4
<1>7. f \in Bijection(P, T)
  <2> HIDE DEF f, P
  <2>1. f \in Injection(P, T)
    <3>1. IsInjective(f)
      BY <1>4, <1>5 DEF IsInjective
    <3> QED BY <1>4, <3>1 DEF Injection
  <2>2. f \in Surjection(P, T)
    BY <1>4, <1>6 DEF Surjection
  <2> QED BY <2>1, <2>2 DEF Bijection
<1>8. ExistsBijection(P, T)
  <2> HIDE DEF f, P
  <2> QED BY <1>7 DEF ExistsBijection
<1> HIDE DEF P
<1>9. Cardinality(T) = Cardinality(P)
  BY <1>3, <1>8, FS_Bijection
<1> QED BY <1>9 DEF P, RanksOf

\* The integers that the histogram has above nbits are the outliers.
LEMMA OutlierNumber ==
  ASSUME NEW us \in Seq(Nat), NEW nbits \in 0..Width
  PROVE  Len(us) - SumOf([k \in 0..nbits |-> Histogram(us)[k]]) =
           Len(OutlierPositions(us, nbits))
<1>0. PICK n \in Nat : n = Len(us)
  OBVIOUS
<1>1. PICK s : n = Len(us) /\ s = OutlierPositions(us, nbits)
  BY <1>0
<1>2. nbits \in Nat /\ Width \in Nat
  BY BitsFacts
<1>3. Outliers(s, us, nbits)
  BY <1>1, <1>2, OutliersExist
<1>4. PICK c : c = UsedCounts(us) /\ c \in [1..n -> Nat]
                 /\ \A i \in 1..n : c[i] = UsedCount(us[i])
  <2>1. UsedCounts(us) \in [1..n -> Nat]
    BY <1>1, HistogramFacts
  <2>2. \A i \in 1..n : UsedCounts(us)[i] = UsedCount(us[i])
    BY <1>1 DEF UsedCounts
  <2> QED BY <2>1, <2>2
<1> DEFINE g == [k \in 0..nbits |-> Histogram(us)[k]]
           A == {i \in 1..n : c[i] <= nbits}
           B == (1..n) \ A
<1>5. Counts(g, c, n, nbits)
  <2>1. ASSUME NEW k \in 0..nbits
        PROVE  g[k] \in Nat /\ g[k] = Cardinality(PlacesOf(c, n, k))
    <3>1. k \in 0..Width
      BY <1>2
    <3> QED BY <1>1, <1>4, <3>1, HistogramFacts
  <2>2. g = [k \in 0..nbits |-> g[k]]
    OBVIOUS
  <2> HIDE DEF g
  <2> QED BY <2>1, <2>2 DEF Counts
<1>6. SumOf(g) = Total(g, 0..nbits)
  <2>1. DOMAIN g = 0..nbits
    OBVIOUS
  <2> HIDE DEF g
  <2> QED BY <2>1, SumOfTotal
<1>7. Total(g, 0..nbits) = Cardinality(A)
  <2> HIDE DEF g
  <2> QED BY <1>2, <1>4, <1>5, TotalUpTo
<1>8. IsFiniteSet(1..n) /\ Cardinality(1..n) = n
  <2>1. 1 \in Int /\ n \in Int
    OBVIOUS
  <2> QED BY <2>1, FS_Interval
<1>9. Cardinality(B) = n - Cardinality(A) /\ Cardinality(A) \in Nat
  <2>1. (1..n) \cap A = A /\ A \subseteq 1..n
    OBVIOUS
  <2>2. IsFiniteSet(A)
    BY <1>8, <2>1, FS_Subset
  <2>3. Cardinality(A) \in Nat
    BY <2>2, FS_CardinalityType
  <2> HIDE DEF A
  <2> QED BY <1>8, <2>1, <2>3, FS_Difference, ZenonT(30)
<1>10. \A i \in 1..n : i \in B <=> us[i] >= 2^nbits
  <2> TAKE i \in 1..n
  <2>1. PICK u \in Nat, p \in Nat, k \in Nat :
          u = us[i] /\ p = 2^nbits /\ k = UsedCount(u) /\ c[i] = k
    <3>1. us[i] \in Nat /\ nbits \in Nat
      BY <1>1, <1>2
    <3>2. PICK u \in Nat, m \in Nat : u = us[i] /\ m = nbits
      BY <3>1
    <3>3. 2^m \in Nat /\ UsedCount(u) \in Nat
      BY PowerType, UsedCountFacts
    <3> QED BY <1>4, <3>2, <3>3
  <2>2. u < p <=> k <= nbits
    BY <1>2, <2>1, UsedCountBelow
  <2>3. i \in B <=> ~(k <= nbits)
    BY <2>1
  <2> HIDE DEF A, B
  <2> QED BY <2>1, <2>2, <2>3
<1>11. Cardinality(RanksOf(B, s)) = Cardinality(B)
  <2>1. HighOnly(B, us, nbits)
    <3>1. B \subseteq 1..n
      OBVIOUS
    <3> HIDE DEF B
    <3> QED BY <1>1, <1>10, <3>1 DEF HighOnly
  <2> HIDE DEF B
  <2> QED BY <1>2, <1>3, <2>1, PlacesOfOutliers
<1>12. RanksOf(B, s) = 1..Len(s)
  <2> SUFFICES ASSUME NEW k \in 1..Len(s) PROVE s[k] + 1 \in B
    BY DEF RanksOf
  <2>1. s[k] \in 0..(n - 1) /\ us[s[k] + 1] >= 2^nbits
    BY <1>1, <1>3 DEF Outliers
  <2>2. PICK i \in 1..n : i = s[k] + 1
    BY <2>1
  <2> HIDE DEF B
  <2> QED BY <1>10, <2>1, <2>2
<1>13. Cardinality(1..Len(s)) = Len(s) /\ Len(s) \in Nat
  <2>1. s \in Seq(Nat)
    BY <1>3 DEF Outliers
  <2>2. PICK l \in Nat : l = Len(s)
    BY <2>1, LenProperties
  <2>3. 1 \in Int /\ l \in Int
    OBVIOUS
  <2>4. Cardinality(1..l) = l
    BY <2>3, FS_Interval
  <2> QED BY <2>2, <2>4
<1> HIDE DEF A, B, g
<1>14. n - SumOf(g) = Len(s)
  BY <1>6, <1>7, <1>9, <1>11, <1>12, <1>13
<1> QED BY <1>1, <1>14 DEF g

\* What is shifted out of an integer is not counted any more.
LEMMA UsedCountShifted ==
  ASSUME NEW u \in Nat, NEW nbits \in Nat, u >= 2^nbits
  PROVE  /\ u \div 2^nbits \in Nat \ {0}
         /\ UsedCount(u) - nbits \in Nat \ {0}
         /\ UsedCount(u \div 2^nbits) = UsedCount(u) - nbits
<1>1. PICK p \in Nat \ {0} : p = 2^nbits
  BY PowerType
<1>2. PICK q \in Nat, r \in 0..(p - 1) : q = u \div p /\ u = q * p + r
  BY Division
<1>3. PICK j \in Nat : j = UsedCount(u)
  BY UsedCountFacts
<1>4. PICK m \in Nat : j = nbits + (m + 1) /\ j - 1 = nbits + m
  <2>1. ~(j <= nbits)
    BY <1>1, <1>3, UsedCountBelow
  <2>2. j - nbits - 1 \in Nat /\ j = nbits + ((j - nbits - 1) + 1)
        /\ j - 1 = nbits + (j - nbits - 1)
    BY <2>1
  <2> QED BY <2>2
<1>5. PICK x \in Nat \ {0} : x = 2^m /\ 2^(m + 1) = 2 * x
  BY PowerNext
<1>6. 2^(nbits + m) = p * x /\ 2^(nbits + (m + 1)) = p * (2 * x)
  <2>1. m \in Nat /\ m + 1 \in Nat
    OBVIOUS
  <2>2. 2^(nbits + m) = 2^nbits * 2^m
    BY <2>1, PowerSum
  <2>3. PICK k \in Nat : k = m + 1
    OBVIOUS
  <2>4. 2^(nbits + k) = 2^nbits * 2^k
    BY <2>3, PowerSum
  <2> QED BY <1>1, <1>5, <2>2, <2>3, <2>4
<1>7. p * x <= u /\ u < p * (2 * x)
  <2>1. u # 0
    BY <1>1
  <2> QED BY <1>3, <1>4, <1>6, <2>1, UsedCountFacts
<1>8. x <= q
  <2> SUFFICES ASSUME q < x PROVE FALSE
    OBVIOUS
  <2>1. q * p + p <= x * p
    BY RowsApart
  <2>2. x * p = p * x
    OBVIOUS
  <2>3. PICK a \in Nat, b \in Nat : a = q * p /\ b = x * p
    BY ProductType
  <2> QED BY <1>2, <1>7, <2>1, <2>2, <2>3
<1>9. q < 2 * x
  <2> SUFFICES ASSUME 2 * x <= q PROVE FALSE
    OBVIOUS
  <2>1. (2 * x) * p <= q * p
    BY ProductOrder
  <2>2. (2 * x) * p = p * (2 * x)
    OBVIOUS
  <2>3. PICK a \in Nat, b \in Nat : a = q * p /\ b = (2 * x) * p
    BY ProductType
  <2> QED BY <1>2, <1>7, <2>1, <2>2, <2>3
<1>10. UsedCount(q) = m + 1
  BY <1>5, <1>8, <1>9, UsedCountUnique
<1> QED BY <1>1, <1>2, <1>3, <1>4, <1>5, <1>8, <1>10

\* Statistics sum up natural numbers.
LEMMA NbitsSpaceType ==
  ASSUME NEW n \in Nat
  PROVE  NbitsSpace(n) \in Nat
<1>1. PICK g \in Nat \ {0} : g = GroupBits
  BY ContinueFacts
<1>2. n + g - 1 \in Nat
  OBVIOUS
<1>3. (n + g - 1) \div g \in Nat
  BY <1>2, Division
<1> QED BY <1>1, <1>3 DEF NbitsSpace

\* The outliers as varints take what the histogram tells.
LEMMA OutlierSpaces ==
  ASSUME NEW us \in Seq(Nat), NEW nbits \in Nat, NEW most \in 0..Width,
         \A i \in 1..Len(us) : UsedCount(us[i]) <= most,
         NEW s, s = OutlierPositions(us, nbits)
  PROVE  SumOf([nb \in (nbits + 1)..most |-> NbitsSpace(nb - nbits) * Histogram(us)[nb]]) =
           VarintSpace(HighValues(s, us, nbits))
<1>1. PICK n \in Nat, l \in Nat : n = Len(us) /\ l = Len(s) /\ Outliers(s, us, nbits)
  <2>1. Outliers(s, us, nbits)
    BY OutliersExist
  <2>2. Len(us) \in Nat /\ Len(s) \in Nat
    BY <2>1 DEF Outliers
  <2> QED BY <2>1, <2>2
<1>2. most \in Nat /\ Width \in Nat
  BY BitsFacts
<1>3. PICK c : c = UsedCounts(us) /\ c \in [1..n -> Nat]
                 /\ \A i \in 1..n : c[i] = UsedCount(us[i])
  <2>1. UsedCounts(us) \in [1..n -> Nat]
    BY <1>1, HistogramFacts
  <2>2. \A i \in 1..n : UsedCounts(us)[i] = UsedCount(us[i])
    BY <1>1 DEF UsedCounts
  <2> QED BY <2>1, <2>2
<1> DEFINE T == (nbits + 1)..most
           w == [nb \in T |-> NbitsSpace(nb - nbits)]
           g == [nb \in T |-> NbitsSpace(nb - nbits) * Histogram(us)[nb]]
           d == [k \in 1..l |-> c[s[k] + 1]]
           v == HighValues(s, us, nbits)
           e == [k \in 1..l |-> ValueSpace(v[k])]
<1>4. ASSUME NEW k \in 1..l
      PROVE  /\ s[k] + 1 \in 1..n /\ us[s[k] + 1] \in Nat /\ us[s[k] + 1] >= 2^nbits
             /\ d[k] = UsedCount(us[s[k] + 1]) /\ d[k] \in T
             /\ v[k] = us[s[k] + 1] \div 2^nbits /\ v[k] \in Nat \ {0}
             /\ UsedCount(v[k]) = d[k] - nbits
  <2>1. s[k] \in 0..(n - 1) /\ us[s[k] + 1] >= 2^nbits
    BY <1>1 DEF Outliers
  <2>2. PICK i \in 1..n : i = s[k] + 1
    BY <2>1
  <2>3. PICK u \in Nat : u = us[i] /\ u >= 2^nbits
    <3>1. us[i] \in Nat
      BY <1>1
    <3> QED BY <2>1, <2>2, <3>1
  <2>4. /\ u \div 2^nbits \in Nat \ {0} /\ UsedCount(u) - nbits \in Nat \ {0}
        /\ UsedCount(u \div 2^nbits) = UsedCount(u) - nbits
    BY <2>3, UsedCountShifted
  <2>5. UsedCount(u) \in Nat /\ UsedCount(u) <= most
    BY <1>1, <2>2, <2>3, UsedCountFacts
  <2>6. d[k] = UsedCount(u)
    BY <1>3, <2>2, <2>3
  <2>7. UsedCount(u) \in T
    <3>1. PICK x \in Nat : x = UsedCount(u) /\ x - nbits \in Nat \ {0} /\ x <= most
      BY <2>4, <2>5
    <3>2. x \in (nbits + 1)..most
      BY <1>2, <3>1
    <3> QED BY <3>1, <3>2
  <2>8. v[k] = u \div 2^nbits
    BY <1>1, <2>2, <2>3 DEF HighValues
  <2> QED BY <2>2, <2>3, <2>4, <2>6, <2>7, <2>8
<1>5. T \subseteq 0..Width /\ T \subseteq Nat /\ IsFiniteSet(T)
  <2>1. IsFiniteSet(T)
    <3>1. nbits + 1 \in Int /\ most \in Int
      BY <1>2
    <3> QED BY <3>1, FS_Interval
  <2>2. \A nb \in T : nb \in 0..Width
    BY <1>2
  <2> QED BY <2>1, <2>2
<1>6. ASSUME NEW nb \in T
      PROVE  /\ w[nb] \in Nat /\ Histogram(us)[nb] = Cardinality(PlacesOf(c, n, nb))
             /\ Histogram(us)[nb] \in Nat /\ g[nb] = w[nb] * Histogram(us)[nb]
             /\ g[nb] \in Nat
  <2>1. nb - nbits \in Nat /\ nb \in 0..Width
    BY <1>2
  <2>2. w[nb] \in Nat
    BY <2>1, NbitsSpaceType
  <2>3. Histogram(us)[nb] = Cardinality(PlacesOf(c, n, nb)) /\ Histogram(us)[nb] \in Nat
    BY <1>1, <1>3, <2>1, HistogramFacts
  <2>4. w[nb] * Histogram(us)[nb] \in Nat
    BY <2>2, <2>3, ProductType
  <2>5. g[nb] = w[nb] * Histogram(us)[nb]
    OBVIOUS
  <2> QED BY <2>2, <2>3, <2>4, <2>5
<1>7. ASSUME NEW nb \in T
      PROVE  Cardinality(PlacesOf(d, l, nb)) = Cardinality(PlacesOf(c, n, nb))
  <2> DEFINE P == PlacesOf(c, n, nb)
  <2>1. HighOnly(P, us, nbits)
    <3>1. P \subseteq 1..n
      BY DEF PlacesOf
    <3>2. ASSUME NEW i \in P PROVE us[i] >= 2^nbits
      <4>1. PICK u \in Nat, p \in Nat : u = us[i] /\ p = 2^nbits /\ i \in 1..n
        <5>1. i \in 1..n
          BY <3>1
        <5>2. us[i] \in Nat /\ 2^nbits \in Nat
          BY <1>1, <5>1, PowerType
        <5> QED BY <5>1, <5>2
      <4>2. UsedCount(u) = nb
        BY <1>3, <4>1 DEF PlacesOf
      <4>3. ~(nb <= nbits)
        BY <1>2
      <4>4. ~(u < p)
        BY <4>1, <4>2, <4>3, UsedCountBelow
      <4> QED BY <4>1, <4>4
    <3> HIDE DEF P
    <3> QED BY <1>1, <3>1, <3>2 DEF HighOnly
  <2>2. PlacesOf(d, l, nb) = RanksOf(P, s)
    <3>1. ASSUME NEW k \in 1..l PROVE d[k] = nb <=> s[k] + 1 \in P
      <4>1. d[k] = c[s[k] + 1] /\ s[k] + 1 \in 1..n
        BY <1>4
      <4> QED BY <4>1 DEF PlacesOf
    <3> HIDE DEF d, P
    <3> QED BY <1>1, <3>1 DEF PlacesOf, RanksOf
  <2> HIDE DEF P
  <2>3. Cardinality(RanksOf(P, s)) = Cardinality(P)
    BY <1>1, <2>1, PlacesOfOutliers
  <2> QED BY <2>2, <2>3 DEF P
<1>8. ASSUME NEW k \in 1..l PROVE e[k] = w[d[k]] /\ e[k] \in Nat
  <2>1. v[k] \in Nat \ {0} /\ UsedCount(v[k]) = d[k] - nbits /\ d[k] \in T
    BY <1>4
  <2>2. ValueSpace(v[k]) = NbitsSpace(d[k] - nbits)
    BY <2>1 DEF ValueSpace
  <2>3. w[d[k]] = NbitsSpace(d[k] - nbits)
    BY <2>1
  <2>4. w[d[k]] \in Nat
    BY <1>6, <2>1
  <2> HIDE DEF w, d, v
  <2> QED BY <2>2, <2>3, <2>4
<1>9. SumTwoWays(T, w, l, d, g, e)
  <2>1. w \in [T -> Nat] /\ g \in [T -> Nat]
    BY <1>6
  <2>2. d \in [1..l -> T]
    BY <1>4
  <2>3. e \in [1..l -> Nat]
    BY <1>8
  <2>4. \A nb \in T : g[nb] = w[nb] * Cardinality(PlacesOf(d, l, nb))
    <3> HIDE DEF w, g, d, T
    <3> QED BY <1>6, <1>7
  <2>5. \A k \in 1..l : e[k] = w[d[k]]
    BY <1>8
  <2> HIDE DEF w, g, d, T, e, v
  <2> QED BY <1>1, <1>5, <2>1, <2>2, <2>3, <2>4, <2>5 DEF SumTwoWays
<1>10. Total(g, T) = Total(e, 1..l)
  <2> HIDE DEF w, g, d, T, e, v
  <2> QED BY <1>9, TotalByValue
<1>11. SumOf(g) = Total(g, T)
  <2>1. DOMAIN g = T
    OBVIOUS
  <2> HIDE DEF g, T
  <2> QED BY <2>1, SumOfTotal
<1>12. VarintSpace(v) = Total(e, 1..l)
  <2>1. v \in Seq(Nat) /\ Len(v) = l
    BY <1>1, ExceptionsFacts
  <2>2. e = [k \in 1..Len(v) |-> ValueSpace(v[k])]
    BY <2>1
  <2>3. VarintSpace(v) = Total([k \in 1..Len(v) |-> ValueSpace(v[k])], 1..Len(v))
    BY <2>1, VarintSpaceTotal
  <2> HIDE DEF e, v
  <2> QED BY <2>1, <2>2, <2>3
<1> HIDE DEF T, w, d, e
<1> QED BY <1>10, <1>11, <1>12 DEF g, v, T

-------------------------------------------------------------------------------
(* The candidates of select().                                              *)

\* The integers as an encoding writes them.
Coded(ints, desc) == [i \in 1..Len(ints) |-> ValueCode(desc, ints[i])]

\* What the metadata of an encoding take beside its name.
OwnSpace(desc) ==
  (IF desc.encoding \in WithOrigin THEN ValueSpace(ZigzagIfSigned(desc.origin)) ELSE 0)
    + (IF desc.encoding \in WithNbits THEN 1 ELSE 0)

\* desc describes what an encoding does with the integers, and what it takes.  old
\* are the metadata of an earlier choice, which the normal encoding leaves there.
Candidate(desc, ints, old) ==
  /\ desc \in Descriptors(Width) /\ desc.encoding # "bitpfr"
  /\ Writable(Coded(ints, desc), desc)
  /\ desc.dataspace = BasicSpace(Coded(ints, desc), desc)
  /\ desc.metaspace = IF desc.encoding = "normal" THEN old ELSE OwnSpace(desc)

\* An encoding is not larger than the integers, and what the metadata took before.
Small(desc, ints, old) ==
  desc.dataspace + desc.metaspace <= Len(ints) * ValueSize + old

\* Spaces are natural numbers.
LEMMA PackedSpaceType ==
  ASSUME NEW n \in Nat, NEW nbits \in 1..WordBits
  PROVE  PackedSpace(n, nbits) \in Nat
<1>1. PICK b \in Nat, s \in Nat : b = BlockNumber(n, nbits) /\ s = BlockSize
  BY BlockRowsExist, BlockSizeFacts
<1>2. s * b \in Nat
  BY ProductType
<1> QED BY <1>1, <1>2 DEF PackedSpace

\* So are these.
LEMMA VarintSpaceType ==
  ASSUME NEW us \in Seq(Nat)
  PROVE  VarintSpace(us) \in Nat
<1>1. PICK b \in Seq(ByteValues) : b = VarintBytes(us) /\ Len(b) = VarintSpace(us)
  BY VarintBytesType
<1> QED BY <1>1, LenProperties

\* Words, and numbers of the unsigned type among them.
LEMMA WordNumbers ==
  /\ WordValues \subseteq Nat /\ Unsigned \subseteq WordValues
  /\ \A u \in Nat : u < Modulus => u \in Unsigned
<1>1. Width \in Nat /\ WordBits \in Nat /\ Width <= WordBits
  BY BitsFacts, SizesAssumption
<1>2. PICK p \in Nat, m \in Nat : p = 2^WordBits /\ m = 2^Width /\ m <= p
  BY <1>1, PowerType, PowerOrder
<1>3. WordValues = 0..(p - 1) /\ Unsigned = 0..(m - 1) /\ Modulus = m
  BY <1>2 DEF WordValues, Unsigned, Modulus
<1> QED BY <1>2, <1>3

\* The first n elements are all, and below the modulus.
BelowModulus(us, n) ==
  us = [i \in 1..n |-> us[i]] /\ \A i \in 1..n : us[i] \in Nat /\ us[i] < Modulus

\* A list of codes below the modulus is a list of words.
LEMMA UnsignedList ==
  ASSUME NEW n \in Nat, NEW us, BelowModulus(us, n)
  PROVE  us \in Seq(Unsigned) /\ us \in Seq(WordValues) /\ us \in Seq(Nat) /\ Len(us) = n
<1>1. us = [i \in 1..n |-> us[i]] /\ \A i \in 1..n : us[i] \in Unsigned
  BY WordNumbers DEF BelowModulus
<1>2. us \in [1..n -> Unsigned]
  BY <1>1
<1>3. us \in Seq(Unsigned) /\ Len(us) = n
  BY <1>2
<1> QED BY <1>3, WordNumbers, UnsignedNumbers, SeqMonotonic

\* The first candidate: integers as they are in memory.
LEMMA NormalCandidate ==
  ASSUME NEW ints \in Seq(Original), NEW old \in Nat, NEW desc \in Descriptors(Width),
         desc.encoding = "normal", desc.dataspace = Len(ints) * ValueSize,
         desc.metaspace = old
  PROVE  Candidate(desc, ints, old) /\ Small(desc, ints, old)
<1>0. PICK n \in Nat : n = Len(ints)
  BY LenProperties
<1>1. PICK us : n = Len(ints) /\ us = Coded(ints, desc)
  BY <1>0, LenProperties
<1>2. us = [i \in 1..n |-> ToUnsigned(ints[i])]
  BY <1>1, EncodingsFacts DEF Coded, ValueCode
<1>3. ASSUME NEW i \in 1..n PROVE us[i] \in Nat /\ us[i] < Modulus
  <2>1. ints[i] \in Original
    BY <1>1
  <2>2. PICK v \in Original : v = ints[i]
    BY <2>1
  <2>3. ToUnsigned(v) \in Unsigned
    <3>1. 0 \in Int
      OBVIOUS
    <3> QED BY <3>1, Converted
  <2>4. PICK m \in Nat \ {0} : m = Modulus
    BY UnsignedNumbers
  <2>5. ToUnsigned(v) \in 0..(m - 1)
    BY <2>3, <2>4 DEF Unsigned
  <2> QED BY <1>2, <2>2, <2>4, <2>5
<1>4. us \in Seq(Unsigned) /\ us \in Seq(WordValues) /\ Len(us) = n
  <2>1. BelowModulus(us, n)
    BY <1>2, <1>3 DEF BelowModulus
  <2> QED BY <2>1, UnsignedList
<1>5. desc.encoding \in EncodingNames
  BY DEF EncodingNames
<1>6. BasicSpace(us, desc) = desc.dataspace
  BY <1>1, <1>4, <1>5, ByEncoding
<1>7. Writable(us, desc)
  BY <1>4, <1>5, EncodingsFacts DEF Writable
<1>8. PICK x \in Nat : x = Len(ints) * ValueSize
  <2>1. n * ValueSize \in Nat
    BY ProductType, ValueSizeFacts
  <2> QED BY <1>1, <2>1
<1>9. Small(desc, ints, old)
  BY <1>8 DEF Small
<1> QED BY <1>1, <1>6, <1>7, <1>9 DEF Candidate

\* Bit-packed integers, or their zigzag codes.
LEMMA BitpckCandidate ==
  ASSUME NEW ints \in Seq(Original), NEW old \in Nat, NEW min, NEW max,
         Spans(min, max, ints), min # max, NEW nbits,
         nbits = UsedCount(Wider(ZigzagIfSigned(min), ZigzagIfSigned(max))),
         NEW desc,
         desc = [encoding |-> "bitpck", dataspace |-> PackedSpace(Len(ints), nbits),
                 metaspace |-> 1, origin |-> 0, nbits |-> nbits]
  PROVE  Candidate(desc, ints, old)
<1>0. PICK n \in Nat : n = Len(ints)
  BY LenProperties
<1>1. PICK us : n = Len(ints) /\ us = Coded(ints, desc)
  BY <1>0, LenProperties
<1>2. us = [i \in 1..n |-> ZigzagIfSigned(ints[i])]
  BY <1>1, EncodingsFacts DEF Coded, ValueCode
<1>3. PICK z : z = Wider(ZigzagIfSigned(min), ZigzagIfSigned(max)) /\ nbits = UsedCount(z)
  OBVIOUS
<1>4. min \in Original /\ max \in Original
  BY DEF Spans
<1>5. ASSUME NEW i \in 1..n
      PROVE  us[i] \in Nat /\ us[i] <= z /\ z \in Nat /\ z < Modulus /\ z # 0
  <2>1. PICK v \in Original : v = ints[i] /\ min <= v /\ v <= max
    BY <1>1 DEF Spans
  <2>2. us[i] = ZigzagIfSigned(v)
    BY <1>2, <2>1
  <2> QED BY <1>3, <1>4, <2>1, <2>2, ZigzagBetween
<1>6. z \in Nat /\ z < Modulus /\ z # 0
  BY <1>1, <1>5 DEF Spans
<1>7. nbits \in 1..Width /\ \A u \in Nat : u <= z => u < 2^nbits
  BY <1>3, <1>6, BitsBetween
<1>8. us \in Seq(WordValues) /\ Len(us) = n
  <2>1. PICK m \in Nat : m = Modulus
    BY UnsignedNumbers
  <2>2. \A i \in 1..n : us[i] \in Nat /\ us[i] < Modulus
    BY <1>5, <2>1
  <2>3. BelowModulus(us, n)
    BY <1>2, <2>2 DEF BelowModulus
  <2> QED BY <2>3, UnsignedList
<1>9. desc.encoding \in EncodingNames /\ desc.encoding \in WithNbits /\ desc.encoding \notin WithOrigin
  BY EncodingsFacts DEF EncodingNames
<1>10. nbits \in 0..Width /\ nbits \in 1..WordBits /\ 0 \in Original
  BY <1>7, OriginalBounds, BitsFacts, SizesAssumption
<1>11. BasicSpace(us, desc) = desc.dataspace /\ desc.dataspace \in Nat
  <2>1. BasicSpace(us, desc) = PackedSpace(Len(us), desc.nbits)
    BY <1>9, ByEncoding
  <2>2. PackedSpace(n, nbits) \in Nat
    BY <1>10, PackedSpaceType
  <2> QED BY <1>1, <1>8, <2>1, <2>2
<1>12. Writable(us, desc)
  <2>1. \A i \in 1..Len(us) : us[i] < 2^nbits
    BY <1>5, <1>7, <1>8
  <2> QED BY <1>8, <1>9, <1>10, <2>1 DEF Writable
<1>13. desc \in Descriptors(Width)
  BY <1>9, <1>10, <1>11 DEF Descriptors
<1> QED BY <1>1, <1>9, <1>11, <1>12, <1>13 DEF Candidate, OwnSpace

\* The differences to the least integer.
LEMMA DeltasFacts ==
  ASSUME NEW ints \in Seq(Original), NEW min, NEW max, Spans(min, max, ints),
         NEW us, us = [i \in 1..Len(ints) |-> OriginEncode(min, ints[i])], NEW z,
         z = ToUnsigned(max - min)
  PROVE  /\ us \in Seq(WordValues) /\ us \in Seq(Nat) /\ Len(us) = Len(ints)
         /\ z \in Nat /\ z = max - min /\ (min # max => UsedCount(z) \in 1..Width)
         /\ \A i \in 1..Len(us) : us[i] \in Nat /\ us[i] = ints[i] - min /\ us[i] <= z
                                    /\ us[i] < 2^UsedCount(z) /\ us[i] < Modulus
<1>1. PICK n \in Nat : n = Len(ints)
  BY LenProperties
<1>2. min \in Original /\ max \in Original /\ min \in Int /\ max \in Int
  BY OriginalBounds DEF Spans
<1>3. ASSUME NEW i \in 1..n
      PROVE  /\ us[i] \in Nat /\ us[i] = ints[i] - min /\ us[i] <= z
             /\ z \in Nat /\ z = max - min /\ z < Modulus
  <2>1. PICK v \in Original : v = ints[i] /\ min <= v /\ v <= max
    BY <1>1 DEF Spans
  <2>2. us[i] = OriginEncode(min, v)
    BY <1>1, <2>1
  <2> QED BY <1>2, <2>1, <2>2, Differences
<1>4. z \in Nat /\ z = max - min /\ z < Modulus
  BY <1>1, <1>3 DEF Spans
<1>5. /\ z # 0 => UsedCount(z) \in 1..Width
      /\ \A u \in Nat : u <= z => u < 2^UsedCount(z)
  BY <1>4, BitsBetween
<1>6. \A i \in 1..n : us[i] \in Nat /\ us[i] < Modulus
  <2>1. PICK m \in Nat : m = Modulus
    BY UnsignedNumbers
  <2> QED BY <1>3, <2>1
<1>7. BelowModulus(us, n)
  BY <1>1, <1>6 DEF BelowModulus
<1>8. us \in Seq(WordValues) /\ us \in Seq(Nat) /\ Len(us) = n
  BY <1>7, UnsignedList
<1>9. min # max => UsedCount(z) \in 1..Width
  BY <1>2, <1>4, <1>5
<1> QED BY <1>1, <1>3, <1>4, <1>5, <1>6, <1>8, <1>9

\* Bit-packed distances from the least integer.
LEMMA BitforCandidate ==
  ASSUME NEW ints \in Seq(Original), NEW old \in Nat, NEW min, NEW max,
         Spans(min, max, ints), min # max, NEW nbits,
         nbits = UsedCount(ToUnsigned(max - min)),
         NEW desc,
         desc = [encoding |-> "bitfor", dataspace |-> PackedSpace(Len(ints), nbits),
                 metaspace |-> 1 + ValueSpace(ZigzagIfSigned(min)), origin |-> min,
                 nbits |-> nbits]
  PROVE  Candidate(desc, ints, old)
<1>0. PICK n \in Nat : n = Len(ints)
  BY LenProperties
<1>1. PICK us, z : n = Len(ints) /\ us = Coded(ints, desc) /\ z = ToUnsigned(max - min)
  BY <1>0, LenProperties
<1>2. us = [i \in 1..n |-> OriginEncode(min, ints[i])]
  BY <1>1, EncodingsFacts DEF Coded, ValueCode
<1>3. /\ us \in Seq(WordValues) /\ Len(us) = n /\ nbits \in 1..Width
      /\ \A i \in 1..Len(us) : us[i] < 2^nbits
  BY <1>1, <1>2, DeltasFacts
<1>4. desc.encoding \in EncodingNames /\ desc.encoding \in WithNbits /\ desc.encoding \in WithOrigin
  BY EncodingsFacts DEF EncodingNames
<1>5. nbits \in 0..Width /\ nbits \in 1..WordBits /\ min \in Original
  BY <1>3, BitsFacts, SizesAssumption DEF Spans
<1>6. BasicSpace(us, desc) = desc.dataspace /\ desc.dataspace \in Nat
  <2>1. BasicSpace(us, desc) = PackedSpace(Len(us), desc.nbits)
    BY <1>4, ByEncoding
  <2>2. PackedSpace(n, nbits) \in Nat
    BY <1>5, PackedSpaceType
  <2> QED BY <1>1, <1>3, <2>1, <2>2
<1>7. Writable(us, desc)
  BY <1>3, <1>4, <1>5 DEF Writable
<1>8. PICK s \in Nat : s = ValueSpace(ZigzagIfSigned(min))
  <2>1. ZigzagIfSigned(min) \in Nat
    BY <1>5, ValueCodecsInvert, UnsignedNumbers
  <2> QED BY <2>1, ValueBytesAreBytes
<1>9. desc \in Descriptors(Width)
  BY <1>4, <1>5, <1>6, <1>8 DEF Descriptors
<1>10. desc.metaspace = OwnSpace(desc)
  <2>1. OwnSpace(desc) = s + 1 /\ desc.metaspace = 1 + s
    BY <1>4, <1>8 DEF OwnSpace
  <2> QED BY <2>1
<1> QED BY <1>1, <1>6, <1>7, <1>9, <1>10 DEF Candidate

\* Variable-length integers, or their zigzag codes.
LEMMA VarintCandidate ==
  ASSUME NEW ints \in Seq(Original), NEW old \in Nat, NEW min, NEW max,
         Spans(min, max, ints),
         NEW desc,
         desc = [encoding |-> "varint",
                 dataspace |-> VarintSpace([i \in DOMAIN ints |-> ZigzagIfSigned(ints[i])]),
                 metaspace |-> 0, origin |-> 0, nbits |-> 0]
  PROVE  Candidate(desc, ints, old)
<1>0. PICK n \in Nat : n = Len(ints)
  BY LenProperties
<1>1. PICK us : n = Len(ints) /\ us = Coded(ints, desc) /\ DOMAIN ints = 1..n
  BY <1>0, LenProperties
<1>2. us = [i \in 1..n |-> ZigzagIfSigned(ints[i])]
  BY <1>1, EncodingsFacts DEF Coded, ValueCode
<1>3. \A i \in 1..n : us[i] \in Nat /\ us[i] < Modulus
  <2> TAKE i \in 1..n
  <2>1. PICK v \in Original : v = ints[i]
    BY <1>1
  <2>2. PICK m \in Nat \ {0} : m = Modulus
    BY UnsignedNumbers
  <2>3. ZigzagIfSigned(v) \in 0..(m - 1)
    BY <2>2, ValueCodecsInvert DEF Unsigned
  <2> QED BY <1>2, <2>1, <2>2, <2>3
<1>4. us \in Seq(WordValues) /\ us \in Seq(Nat) /\ Len(us) = n
  <2>1. BelowModulus(us, n)
    BY <1>2, <1>3 DEF BelowModulus
  <2> QED BY <2>1, UnsignedList
<1>5. /\ desc.encoding \in EncodingNames /\ desc.encoding \notin WithNbits
      /\ desc.encoding \notin WithOrigin
  BY EncodingsFacts DEF EncodingNames
<1>6. desc.dataspace = VarintSpace(us)
  BY <1>1, <1>2
<1>7. BasicSpace(us, desc) = desc.dataspace /\ desc.dataspace \in Nat
  BY <1>4, <1>5, <1>6, ByEncoding, VarintSpaceType
<1>8. Writable(us, desc)
  BY <1>4, <1>5 DEF Writable
<1>9. desc \in Descriptors(Width)
  <2>1. 0 \in 0..Width /\ 0 \in Original
    BY BitsFacts, OriginalBounds
  <2> QED BY <1>5, <1>7, <2>1 DEF Descriptors
<1> QED BY <1>1, <1>5, <1>7, <1>8, <1>9 DEF Candidate, OwnSpace

\* Variable-length distances from the least integer.
LEMMA VarforCandidate ==
  ASSUME NEW ints \in Seq(Original), NEW old \in Nat, NEW min, NEW max,
         Spans(min, max, ints),
         NEW desc,
         desc = [encoding |-> "varfor",
                 dataspace |-> VarintSpace([i \in DOMAIN ints |-> OriginEncode(min, ints[i])]),
                 metaspace |-> ValueSpace(ZigzagIfSigned(min)), origin |-> min, nbits |-> 0]
  PROVE  Candidate(desc, ints, old)
<1>0. PICK n \in Nat : n = Len(ints)
  BY LenProperties
<1>1. PICK us, z : /\ n = Len(ints) /\ us = Coded(ints, desc) /\ DOMAIN ints = 1..n
                    /\ z = ToUnsigned(max - min)
  BY <1>0, LenProperties
<1>2. us = [i \in 1..n |-> OriginEncode(min, ints[i])]
  BY <1>1, EncodingsFacts DEF Coded, ValueCode
<1>3. us \in Seq(WordValues) /\ us \in Seq(Nat) /\ Len(us) = n
  BY <1>1, <1>2, DeltasFacts
<1>4. /\ desc.encoding \in EncodingNames /\ desc.encoding \notin WithNbits
      /\ desc.encoding \in WithOrigin
  BY EncodingsFacts DEF EncodingNames
<1>5. desc.dataspace = VarintSpace(us)
  BY <1>1, <1>2
<1>6. BasicSpace(us, desc) = desc.dataspace /\ desc.dataspace \in Nat
  BY <1>3, <1>4, <1>5, ByEncoding, VarintSpaceType
<1>7. Writable(us, desc)
  BY <1>3, <1>4 DEF Writable
<1>8. PICK s \in Nat : s = ValueSpace(ZigzagIfSigned(min)) /\ min \in Original
  <2>1. min \in Original
    BY DEF Spans
  <2>2. ZigzagIfSigned(min) \in Nat
    BY <2>1, ValueCodecsInvert, UnsignedNumbers
  <2> QED BY <2>1, <2>2, ValueBytesAreBytes
<1>9. desc \in Descriptors(Width)
  <2>1. 0 \in 0..Width
    BY BitsFacts
  <2> QED BY <1>4, <1>6, <1>8, <2>1 DEF Descriptors
<1>10. OwnSpace(desc) = s + 0
  BY <1>4, <1>8 DEF OwnSpace
<1> QED BY <1>1, <1>4, <1>6, <1>7, <1>8, <1>9, <1>10 DEF Candidate

\* A comparison keeps a candidate, and none that is larger.
LEMMA Compared ==
  ASSUME NEW ints \in Seq(Original), NEW old \in Nat, NEW a, NEW b,
         Candidate(a, ints, old), Small(a, ints, old), Candidate(b, ints, old)
  PROVE  Candidate(Compare(a, b), ints, old) /\ Small(Compare(a, b), ints, old)
<1>1. PICK x \in Nat, y \in Nat :
        x = a.dataspace + a.metaspace /\ y = b.dataspace + b.metaspace
  <2>1. a \in Descriptors(Width) /\ b \in Descriptors(Width)
    BY DEF Candidate
  <2>2. PICK p \in Nat, q \in Nat : p = a.dataspace /\ q = a.metaspace
    BY <2>1 DEF Descriptors
  <2>3. PICK r \in Nat, s \in Nat : r = b.dataspace /\ s = b.metaspace
    BY <2>1 DEF Descriptors
  <2>4. p + q \in Nat /\ r + s \in Nat
    OBVIOUS
  <2> QED BY <2>2, <2>3, <2>4
<1>2. PICK l \in Nat : l = Len(ints) * ValueSize + old
  <2>1. Len(ints) \in Nat /\ ValueSize \in Nat
    BY LenProperties, ValueSizeFacts
  <2>2. PICK p \in Nat : p = Len(ints) * ValueSize
    BY <2>1, ProductType
  <2> QED BY <2>2
<1>3. Compare(a, b) = (IF y < x THEN b ELSE a)
  BY <1>1 DEF Compare
<1>4. x <= l
  BY <1>1, <1>2 DEF Small
<1>5. CASE y < x
  <2>1. y <= l
    BY <1>4, <1>5
  <2> QED BY <1>1, <1>2, <1>3, <1>5, <2>1 DEF Small
<1>6. CASE ~(y < x)
  BY <1>3, <1>6
<1> QED BY <1>5, <1>6

\* select_basic chooses one of the five.
LEMMA BasicChosen ==
  ASSUME NEW ints \in Seq(Original), NEW stats, NEW min, NEW max,
         stats.min = min, stats.max = max, stats.nvalues = Len(ints),
         Spans(min, max, ints), min # max,
         NEW desc \in Descriptors(Width), NEW old, old = desc.metaspace
  PROVE  /\ Candidate(SelectBasic(desc, stats, ints), ints, old)
         /\ Small(SelectBasic(desc, stats, ints), ints, old)
<1> DEFINE pckbits == UsedCount(Wider(ZigzagIfSigned(min), ZigzagIfSigned(max)))
           forbits == UsedCount(ToUnsigned(max - min))
           minspace == ValueSpace(ZigzagIfSigned(min))
           normal == [desc EXCEPT !.encoding = "normal", !.dataspace = Len(ints) * ValueSize]
           bitpck == [encoding |-> "bitpck", dataspace |-> PackedSpace(Len(ints), pckbits),
                      metaspace |-> 1, origin |-> 0, nbits |-> pckbits]
           bitfor == [encoding |-> "bitfor", dataspace |-> PackedSpace(Len(ints), forbits),
                      metaspace |-> 1 + minspace, origin |-> min, nbits |-> forbits]
           varint == [encoding |-> "varint",
                      dataspace |-> VarintSpace([i \in DOMAIN ints |-> ZigzagIfSigned(ints[i])]),
                      metaspace |-> 0, origin |-> 0, nbits |-> 0]
           varfor == [encoding |-> "varfor",
                      dataspace |-> VarintSpace([i \in DOMAIN ints |-> OriginEncode(min, ints[i])]),
                      metaspace |-> minspace, origin |-> min, nbits |-> 0]
           one == Compare(normal, bitpck)
           two == Compare(one, bitfor)
           three == Compare(two, varint)
<1>1. SelectBasic(desc, stats, ints) = Compare(three, varfor)
  BY DEF SelectBasic, Wider
<1>2. old \in Nat
  BY DEF Descriptors
<1>3. Candidate(normal, ints, old) /\ Small(normal, ints, old)
  <2>1. Len(ints) * ValueSize \in Nat
    BY LenProperties, ValueSizeFacts, ProductType
  <2>2. "normal" \in EncodingNames
    BY DEF EncodingNames
  <2>3. /\ normal \in Descriptors(Width) /\ normal.encoding = "normal"
        /\ normal.dataspace = Len(ints) * ValueSize /\ normal.metaspace = old
    BY <2>1, <2>2 DEF Descriptors
  <2> HIDE DEF normal
  <2> QED BY <1>2, <2>3, NormalCandidate
<1>4. Candidate(bitpck, ints, old)
  BY <1>2, BitpckCandidate
<1>5. Candidate(bitfor, ints, old)
  BY <1>2, BitforCandidate
<1>6. Candidate(varint, ints, old)
  BY <1>2, VarintCandidate
<1>7. Candidate(varfor, ints, old)
  BY <1>2, VarforCandidate
<1> HIDE DEF normal, bitpck, bitfor, varint, varfor
<1>8. Candidate(one, ints, old) /\ Small(one, ints, old)
  BY <1>2, <1>3, <1>4, Compared
<1>9. Candidate(two, ints, old) /\ Small(two, ints, old)
  <2> HIDE DEF one
  <2> QED BY <1>2, <1>5, <1>8, Compared
<1>10. Candidate(three, ints, old) /\ Small(three, ints, old)
  <2> HIDE DEF two
  <2> QED BY <1>2, <1>6, <1>9, Compared
<1> HIDE DEF three
<1> QED BY <1>1, <1>2, <1>7, <1>10, Compared

-------------------------------------------------------------------------------
(* Patched bit-packing.                                                     *)

\* The outliers of the integers, as they are written.
OutliersFit(m, excpts) ==
  /\ m.noutliers = Len(excpts.indices) /\ m.noutliers = Len(excpts.values)
  /\ ExtraFits(m.outlier_index_desc) /\ ExtraFits(m.outlier_value_desc)
  /\ Writable(excpts.indices, m.outlier_index_desc)
  /\ Writable(excpts.values, m.outlier_value_desc)

\* What the two lists of outlier data take, and the lists.
OutlierSpace(m, excpts) ==
  BasicSpace(excpts.indices, m.outlier_index_desc)
    + BasicSpace(excpts.values, m.outlier_value_desc)

CodedExceptions(m, ints) ==
  Exceptions(Coded(ints, m.value_desc), m.value_desc.nbits)

\* The metadata m describe how the integers are written, and what it takes.
Fits(m, ints, old) ==
  /\ m \in MetaRecords
  /\ m.value_desc.encoding # "bitpfr" => Candidate(m.value_desc, ints, old)
  /\ m.value_desc.encoding = "bitpfr" =>
       /\ Writable(Coded(ints, m.value_desc), m.value_desc)
       /\ OutliersFit(m, CodedExceptions(m, ints))
       /\ m.value_desc.dataspace =
            BasicSpace(Coded(ints, m.value_desc), m.value_desc)
              + OutlierSpace(m, CodedExceptions(m, ints))
       /\ m.value_desc.metaspace =
            OwnSpace(m.value_desc) + ValueSpace(m.noutliers) + 2

\* Every integer of a list has at most nbits bits.
Within(list, nbits) == \A k \in 1..Len(list) : list[k] < 2^nbits

\* The cheaper of two ways of writing a list is one that can write it.
LEMMA CheaperFits ==
  ASSUME NEW list \in Seq(Nat), NEW bits \in 0..WordBits, NEW nbits \in 1..bits,
         Within(list, nbits), NEW old \in Descriptors(bits), NEW packed, NEW plain,
         packed = PackedSpace(Len(list), nbits), plain = VarintSpace(list),
         NEW desc, desc = Cheaper(old, packed, plain, nbits)
  PROVE  /\ desc \in Descriptors(bits) /\ ExtraFits(desc) /\ Writable(list, desc)
         /\ BasicSpace(list, desc) = Least(packed, plain) /\ Least(packed, plain) \in Nat
<1>1. nbits \in 1..WordBits /\ nbits \in 0..bits /\ WordBits \in Nat
  BY BitsFacts
<1>2. Len(list) \in Nat /\ packed \in Nat /\ plain \in Nat
  <2>1. Len(list) \in Nat
    BY LenProperties
  <2> QED BY <1>1, <2>1, PackedSpaceType, VarintSpaceType
<1>3. desc.encoding \in {"bitpck", "varint"} /\ desc.nbits = nbits
  <2>1. desc = [old EXCEPT !.encoding = IF packed < plain THEN "bitpck" ELSE "varint",
                           !.nbits = nbits]
    BY DEF Cheaper
  <2> QED BY <2>1 DEF Descriptors
<1>4. desc \in Descriptors(bits)
  <2>1. "bitpck" \in EncodingNames /\ "varint" \in EncodingNames
    BY DEF EncodingNames
  <2> QED BY <1>1, <2>1 DEF Cheaper, Descriptors
<1>5. desc.encoding = (IF packed < plain THEN "bitpck" ELSE "varint")
  BY DEF Cheaper, Descriptors
<1>6. list \in Seq(WordValues)
  <2>1. PICK p \in Nat, q \in Nat : p = 2^nbits /\ q = 2^WordBits /\ p <= q
    BY <1>1, PowerType, PowerOrder
  <2>2. ASSUME NEW k \in 1..Len(list) PROVE list[k] \in WordValues
    <3>1. list[k] \in Nat /\ list[k] < p
      BY <2>1 DEF Within
    <3>2. list[k] \in 0..(q - 1)
      BY <2>1, <3>1
    <3> QED BY <2>1, <3>2 DEF WordValues
  <2> QED BY <2>2, Retyped
<1>7. desc.encoding \in EncodingNames
  BY <1>3 DEF EncodingNames
<1>8. Writable(list, desc)
  <2>1. desc.encoding = "bitpck" => \A k \in 1..Len(list) : list[k] < 2^nbits
    BY DEF Within
  <2>2. desc.encoding # "bitfor"
    BY <1>3
  <2> QED BY <1>1, <1>3, <1>6, <1>7, <2>1, <2>2 DEF Writable
<1>9. ExtraFits(desc)
  BY <1>1, <1>3 DEF ExtraFits
<1>10. BasicSpace(list, desc) = (IF packed < plain THEN packed ELSE plain)
  <2>1. "bitpck" \in WithNbits
    BY EncodingsFacts
  <2> QED BY <1>3, <1>5, <1>7, <2>1, ByEncoding
<1> QED BY <1>2, <1>4, <1>8, <1>9, <1>10 DEF Least

\* The indices of the outliers are packed in as many bits as the greatest has.
Below(list, n) == \A k \in 1..Len(list) : list[k] < n

\* The gaps between outliers fit in the bits that are reserved for them.
LEMMA IndexBits ==
  ASSUME NEW list \in Seq(Nat), NEW n \in Nat, UsedCount(n) <= WordBits, Below(list, n)
  PROVE  IndexNbits(list) \in 1..WordBits /\ Within(list, IndexNbits(list))
<1> DEFINE S == {1} \cup {UsedCount(list[i]) : i \in DOMAIN list}
<1>1. WordBits \in Nat \ {0} /\ DOMAIN list = 1..Len(list)
  BY BitsFacts
<1>2. PICK c \in Nat, p \in Nat : c = UsedCount(n) /\ p = 2^c /\ n < p /\ c <= WordBits
  BY UsedCountFacts, PowerType
<1>3. ASSUME NEW k \in 1..Len(list)
      PROVE  /\ list[k] \in Nat /\ UsedCount(list[k]) \in 0..WordBits
  <2>1. PICK u \in Nat : u = list[k] /\ u < n
    <3>1. list[k] \in Nat /\ list[k] < n
      BY DEF Below
    <3> QED BY <3>1
  <2>2. u < p
    BY <1>2, <2>1
  <2>3. UsedCount(u) \in Nat /\ UsedCount(u) <= c
    BY <1>2, <2>2, UsedCountBelow, UsedCountFacts
  <2>4. PICK w \in Nat : w = UsedCount(u) /\ w <= c
    BY <2>3
  <2> QED BY <1>1, <1>2, <2>1, <2>4
<1>4. S \in SUBSET (0..WordBits) /\ S # {}
  <2>1. 1 \in 0..WordBits
    BY <1>1
  <2>2. {UsedCount(list[i]) : i \in DOMAIN list} \subseteq 0..WordBits
    BY <1>1, <1>3
  <2> QED BY <2>1, <2>2
<1>5. PICK m : m = Max(S)
  OBVIOUS
<1>6. m \in S /\ \A x \in S : x <= m
  <2>1. 0 \in Int /\ WordBits \in Int
    BY <1>1
  <2> HIDE DEF S
  <2> QED BY <1>4, <1>5, <2>1, IntegersBounded
<1>7. m \in 1..WordBits
  <2>1. m \in 0..WordBits /\ 1 \in S
    BY <1>4, <1>6
  <2>2. 1 <= m
    BY <1>6, <2>1
  <2> HIDE DEF S
  <2> QED BY <1>1, <2>1, <2>2
<1>8. ASSUME NEW k \in 1..Len(list) PROVE list[k] < 2^m
  <2>1. PICK u \in Nat : u = list[k]
    BY <1>3
  <2>2. UsedCount(u) \in S
    BY <1>1, <2>1
  <2>3. UsedCount(u) <= m /\ m \in Nat
    <3>1. m \in Nat
      BY <1>1, <1>7
    <3> HIDE DEF S
    <3> QED BY <1>6, <2>2, <3>1
  <2> QED BY <2>1, <2>3, UsedCountBelow
<1> HIDE DEF S
<1>9. IndexNbits(list) = m
  BY <1>5 DEF IndexNbits, S
<1> QED BY <1>7, <1>8, <1>9 DEF Within

\* How the outliers of the differences are written.
LEMMA OutlierLists ==
  ASSUME NEW us \in Seq(Nat), NEW most \in 1..Width, NEW nbits \in 1..(most - 1),
         Within(us, most), UsedCount(Len(us)) <= WordBits,
         NEW s, s = OutlierPositions(us, nbits),
         NEW indices, indices = OffsetEncode(s), NEW values, values = HighValues(s, us, nbits)
  PROVE  /\ indices \in Seq(Nat) /\ values \in Seq(Nat)
         /\ Len(s) \in Nat /\ Len(indices) = Len(s) /\ Len(values) = Len(s)
         /\ IndexNbits(indices) \in 1..WordBits /\ Within(indices, IndexNbits(indices))
         /\ Within(values, most - nbits) /\ most - nbits \in 1..Width
<1>1. PICK n \in Nat : n = Len(us)
  BY LenProperties
<1>2. Width \in Nat /\ most \in Nat /\ nbits \in Nat /\ nbits < most
  BY BitsFacts
<1>3. /\ Outliers(s, us, nbits)
      /\ indices \in Seq(Nat) /\ Len(indices) = Len(s)
      /\ \A k \in 1..Len(s) : indices[k] <= s[k]
      /\ values \in Seq(Nat) /\ Len(values) = Len(s)
  BY <1>2, ExceptionsFacts
<1>4. PICK l \in Nat : l = Len(s)
  <2>1. s \in Seq(Nat)
    BY <1>3 DEF Outliers
  <2> QED BY <2>1, LenProperties
<1>5. Below(indices, n)
  <2>1. ASSUME NEW k \in 1..l PROVE indices[k] < n
    <3>1. s[k] \in 0..(n - 1)
      BY <1>1, <1>3, <1>4 DEF Outliers
    <3>2. indices[k] \in Nat /\ indices[k] <= s[k]
      BY <1>3, <1>4
    <3> QED BY <3>1, <3>2
  <2> QED BY <1>3, <1>4, <2>1 DEF Below
<1>6. IndexNbits(indices) \in 1..WordBits /\ Within(indices, IndexNbits(indices))
  BY <1>1, <1>3, <1>5, IndexBits
<1>7. PICK d \in 1..Width : d = most - nbits
  BY <1>2
<1>8. ASSUME NEW k \in 1..l PROVE values[k] < 2^d
  <2>1. s[k] \in 0..(n - 1) /\ us[s[k] + 1] >= 2^nbits
    BY <1>1, <1>3, <1>4 DEF Outliers
  <2>2. PICK i \in 1..n : i = s[k] + 1
    BY <2>1
  <2>3. PICK u \in Nat : u = us[i] /\ u >= 2^nbits
    <3>1. us[i] \in Nat
      BY <1>1
    <3> QED BY <2>1, <2>2, <3>1
  <2>4. u < 2^most
    BY <1>1, <2>2, <2>3 DEF Within
  <2>5. UsedCount(u) <= most /\ UsedCount(u) \in Nat
    BY <1>2, <2>3, <2>4, UsedCountBelow, UsedCountFacts
  <2>6. PICK v \in Nat : v = u \div 2^nbits /\ UsedCount(v) = UsedCount(u) - nbits
    BY <1>2, <2>3, UsedCountShifted
  <2>7. values[k] = v
    BY <1>4, <2>2, <2>3, <2>6 DEF HighValues
  <2>8. UsedCount(v) <= d
    BY <1>2, <1>7, <2>5, <2>6
  <2>9. v < 2^d
    BY <1>7, <2>6, <2>8, UsedCountBelow
  <2> QED BY <2>7, <2>9
<1>9. Within(values, d)
  BY <1>3, <1>4, <1>8 DEF Within
<1> QED BY <1>3, <1>4, <1>6, <1>7, <1>9

\* One iteration of the loop of select().
LEMMA PatchedStep ==
  ASSUME NEW ints \in Seq(Original), UsedCount(Len(ints)) <= WordBits,
         NEW stats, NEW min, NEW max,
         stats.min = min, stats.max = max, stats.nvalues = Len(ints),
         Spans(min, max, ints), min # max,
         NEW old \in Nat, NEW meta, Fits(meta, ints, old), Small(meta.value_desc, ints, old),
         NEW nbits \in 1..(UsedCount(ToUnsigned(max - min)) - 1),
         NEW us, us = Deltas(stats, ints),
         NEW m, m = SelectPatched(meta, stats, us, Histogram(us), nbits)
  PROVE  Fits(m, ints, old) /\ Small(m.value_desc, ints, old)
<1>0. PICK n \in Nat : n = Len(ints)
  BY LenProperties
<1>1. PICK z : n = Len(ints) /\ DOMAIN ints = 1..n /\ z = ToUnsigned(max - min)
  BY <1>0, LenProperties
<1>2. us = [i \in 1..Len(ints) |-> OriginEncode(min, ints[i])]
  BY <1>1 DEF Deltas, OriginEncode
<1>3. PICK most \in 1..Width : most = UsedCount(z) /\ nbits \in 1..(most - 1)
  BY <1>1, <1>2, DeltasFacts
<1>4. us \in Seq(WordValues) /\ us \in Seq(Nat) /\ Len(us) = n /\ Within(us, most)
  <2>1. /\ us \in Seq(WordValues) /\ us \in Seq(Nat) /\ Len(us) = n
        /\ \A i \in 1..Len(us) : us[i] < 2^UsedCount(z)
    <3>1. /\ us \in Seq(WordValues) /\ us \in Seq(Nat) /\ Len(us) = Len(ints)
          /\ \A i \in 1..Len(us) : us[i] \in Nat /\ us[i] = ints[i] - min /\ us[i] <= z
                                     /\ us[i] < 2^UsedCount(z) /\ us[i] < Modulus
      <4>1. z = ToUnsigned(max - min)
        BY <1>1
      <4> QED BY ONLY ints \in Seq(Original), Spans(min, max, ints), <1>2, <4>1, DeltasFacts
    <3> QED BY <1>1, <3>1
  <2> QED BY <1>3, <2>1 DEF Within
<1>5. /\ Width \in Nat /\ most \in Nat /\ nbits \in Nat /\ nbits \in 0..Width /\ nbits \in 1..WordBits
      /\ most \in 0..Width
  BY <1>3, BitsFacts, SizesAssumption
<1>6. PICK s : s = OutlierPositions(us, nbits)
  OBVIOUS
<1>7. PICK indices, values : indices = OffsetEncode(s) /\ values = HighValues(s, us, nbits)
  OBVIOUS
<1>8. PICK no \in Nat, ib \in 1..WordBits, vb \in 1..Width :
        /\ no = Len(s) /\ ib = IndexNbits(indices) /\ vb = most - nbits
        /\ indices \in Seq(Nat) /\ values \in Seq(Nat)
        /\ Len(indices) = no /\ Len(values) = no
        /\ Within(indices, ib) /\ Within(values, vb)
  <2>1. UsedCount(Len(us)) <= WordBits
    BY <1>1, <1>4
  <2>2. /\ indices \in Seq(Nat) /\ values \in Seq(Nat)
        /\ Len(s) \in Nat /\ Len(indices) = Len(s) /\ Len(values) = Len(s)
        /\ IndexNbits(indices) \in 1..WordBits /\ Within(indices, IndexNbits(indices))
        /\ Within(values, most - nbits) /\ most - nbits \in 1..Width
    BY <1>3, <1>4, <1>6, <1>7, <2>1, OutlierLists
  <2> QED BY <2>2
<1>9. Exceptions(us, nbits).indices = indices /\ Exceptions(us, nbits).values = values
  BY <1>4, <1>5, <1>6, <1>7, ExceptionsFacts
<1>10. PICK basic \in Nat, minspace \in Nat, nospace \in Nat :
         /\ basic = PackedSpace(n, nbits) /\ minspace = ValueSpace(ZigzagIfSigned(min))
         /\ nospace = ValueSpace(no)
  <2>1. PackedSpace(n, nbits) \in Nat
    BY <1>5, PackedSpaceType
  <2>2. ZigzagIfSigned(min) \in Nat
    BY ValueCodecsInvert, UnsignedNumbers DEF Spans
  <2>3. ValueSpace(ZigzagIfSigned(min)) \in Nat /\ ValueSpace(no) \in Nat
    BY <2>2, ValueBytesAreBytes
  <2> QED BY <2>1, <2>3
<1> DEFINE indpck == PackedSpace(no, ib)
           indvar == VarintSpace(indices)
           valpck == PackedSpace(no, vb)
           valvar == VarintSpace(values)
           index == Cheaper(meta.outlier_index_desc, indpck, indvar, ib)
           value == Cheaper(meta.outlier_value_desc, valpck, valvar, vb)
           fixed == (1 + minspace) + (2 + nospace) + basic + Least(valpck, valvar)
           selected == meta.value_desc.dataspace + meta.value_desc.metaspace
           patched == [value_desc |->
                         [encoding  |-> "bitpfr",
                          dataspace |-> basic + Least(valpck, valvar) + Least(indpck, indvar),
                          metaspace |-> (1 + minspace) + (2 + nospace),
                          origin    |-> min,
                          nbits     |-> nbits],
                       noutliers |-> no,
                       outlier_index_desc |-> index,
                       outlier_value_desc |-> value]
<1>11. meta \in MetaRecords
  BY DEF Fits
<1>12. /\ index \in Descriptors(WordBits) /\ ExtraFits(index) /\ Writable(indices, index)
       /\ BasicSpace(indices, index) = Least(indpck, indvar) /\ Least(indpck, indvar) \in Nat
  <2>1. meta.outlier_index_desc \in Descriptors(WordBits) /\ WordBits \in 0..WordBits
    BY <1>11, BitsFacts DEF MetaRecords
  <2>2. PICK bits \in 0..WordBits, before \in Descriptors(WordBits) :
          bits = WordBits /\ before = meta.outlier_index_desc
    BY <2>1
  <2>3. PICK packed, plain, desc :
          packed = indpck /\ plain = indvar /\ desc = Cheaper(before, packed, plain, ib)
    OBVIOUS
  <2>4. /\ indices \in Seq(Nat) /\ bits \in 0..WordBits /\ ib \in 1..bits /\ Within(indices, ib)
        /\ before \in Descriptors(bits) /\ packed = PackedSpace(Len(indices), ib)
        /\ plain = VarintSpace(indices) /\ desc = Cheaper(before, packed, plain, ib)
    BY <1>8, <2>2, <2>3
  <2>5. /\ desc \in Descriptors(bits) /\ ExtraFits(desc) /\ Writable(indices, desc)
        /\ BasicSpace(indices, desc) = Least(packed, plain) /\ Least(packed, plain) \in Nat
    BY ONLY <2>4, CheaperFits
  <2> QED BY <2>2, <2>3, <2>5
<1>13. /\ value \in Descriptors(Width) /\ ExtraFits(value) /\ Writable(values, value)
       /\ BasicSpace(values, value) = Least(valpck, valvar) /\ Least(valpck, valvar) \in Nat
  <2>1. meta.outlier_value_desc \in Descriptors(Width) /\ Width \in 0..WordBits
    BY <1>11, BitsFacts, SizesAssumption DEF MetaRecords
  <2>2. PICK bits \in 0..WordBits, before \in Descriptors(Width) :
          bits = Width /\ before = meta.outlier_value_desc
    BY <2>1
  <2>3. PICK packed, plain, desc :
          packed = valpck /\ plain = valvar /\ desc = Cheaper(before, packed, plain, vb)
    OBVIOUS
  <2>4. /\ values \in Seq(Nat) /\ bits \in 0..WordBits /\ vb \in 1..bits /\ Within(values, vb)
        /\ before \in Descriptors(bits) /\ packed = PackedSpace(Len(values), vb)
        /\ plain = VarintSpace(values) /\ desc = Cheaper(before, packed, plain, vb)
    BY <1>8, <2>2, <2>3
  <2>5. /\ desc \in Descriptors(bits) /\ ExtraFits(desc) /\ Writable(values, desc)
        /\ BasicSpace(values, desc) = Least(packed, plain) /\ Least(packed, plain) \in Nat
    BY ONLY <2>4, CheaperFits
  <2> QED BY <2>2, <2>3, <2>5
<1>14. n - SumOf([k \in 0..nbits |-> Histogram(us)[k]]) = no
  BY <1>4, <1>5, <1>6, <1>8, OutlierNumber
<1>15. SumOf([nb \in (nbits + 1)..most |-> NbitsSpace(nb - nbits) * Histogram(us)[nb]]) = valvar
  <2>1. \A i \in 1..Len(us) : UsedCount(us[i]) <= most
    <3> TAKE i \in 1..Len(us)
    <3>1. us[i] \in Nat /\ us[i] < 2^most
      BY <1>4 DEF Within
    <3>2. PICK u \in Nat : u = us[i]
      BY <3>1
    <3> QED BY <1>5, <3>1, <3>2, UsedCountBelow
  <2> QED BY <1>4, <1>5, <1>6, <1>7, <2>1, OutlierSpaces
<1>16. \/ m = meta
       \/ m = patched /\ ~(fixed + Least(indpck, indvar) >= selected)
  BY <1>1, <1>3, <1>8, <1>9, <1>10, <1>14, <1>15 DEF SelectPatched
<1> HIDE DEF index, value
<1>17. CASE m = patched /\ ~(fixed + Least(indpck, indvar) >= selected)
  <2>1. PICK li \in Nat, lv \in Nat : li = Least(indpck, indvar) /\ lv = Least(valpck, valvar)
    BY <1>12, <1>13
  <2> HIDE DEF indpck, indvar, valpck, valvar
  <2>2. /\ m.value_desc.encoding = "bitpfr" /\ m.value_desc.origin = min
        /\ m.value_desc.nbits = nbits
        /\ m.value_desc.dataspace = basic + lv + li
        /\ m.value_desc.metaspace = (1 + minspace) + (2 + nospace)
        /\ m.noutliers = no /\ m.outlier_index_desc = index /\ m.outlier_value_desc = value
    BY <1>17, <2>1
  <2>3. m \in MetaRecords
    <3>1. "bitpfr" \in EncodingNames /\ min \in Original
      BY DEF EncodingNames, Spans
    <3>2. basic + lv + li \in Nat /\ (1 + minspace) + (2 + nospace) \in Nat
      OBVIOUS
    <3> QED BY <1>5, <1>12, <1>13, <1>17, <2>1, <3>1, <3>2 DEF MetaRecords, Descriptors
  <2>4. "bitpfr" \in WithOrigin /\ "bitpfr" \in WithNbits /\ "bitpfr" \in EncodingNames
    BY EncodingsFacts DEF EncodingNames
  <2>5. Coded(ints, m.value_desc) = us
    BY <1>2, <2>2, <2>4, EncodingsFacts DEF Coded, ValueCode
  <2>6. Writable(us, m.value_desc)
    BY <1>4, <1>5, <2>2, <2>4 DEF Writable
  <2>7. BasicSpace(us, m.value_desc) = basic
    <3>1. BasicSpace(us, m.value_desc) = PackedSpace(Len(us), m.value_desc.nbits)
      BY <2>2, <2>4, ByEncoding
    <3> QED BY <1>4, <1>10, <2>2, <3>1
  <2>8. PICK e : e = CodedExceptions(m, ints) /\ e.indices = indices /\ e.values = values
    BY <1>9, <2>2, <2>5 DEF CodedExceptions
  <2>9. OutliersFit(m, e)
    BY <1>8, <1>12, <1>13, <2>2, <2>8 DEF OutliersFit
  <2>10. OutlierSpace(m, e) = li + lv
    BY <1>12, <1>13, <2>1, <2>2, <2>8 DEF OutlierSpace
  <2>11. OwnSpace(m.value_desc) = minspace + 1
    BY <1>10, <2>2, <2>4 DEF OwnSpace
  <2>12. basic + lv + li = basic + (li + lv) /\ (1 + minspace) + (2 + nospace) = (minspace + 1) + nospace + 2
    OBVIOUS
  <2>13. Fits(m, ints, old)
    BY <1>10, <2>2, <2>3, <2>5, <2>6, <2>7, <2>8, <2>9, <2>10, <2>11, <2>12 DEF Fits
  <2>14. PICK sd \in Nat : sd = selected
    <3>1. PICK p \in Nat, q \in Nat : p = meta.value_desc.dataspace /\ q = meta.value_desc.metaspace
      BY <1>11 DEF MetaRecords, Descriptors
    <3>2. p + q \in Nat
      OBVIOUS
    <3> QED BY <3>1, <3>2
  <2>15. PICK l \in Nat : l = Len(ints) * ValueSize + old
    <3>1. Len(ints) * ValueSize \in Nat
      BY LenProperties, ValueSizeFacts, ProductType
    <3>2. PICK p \in Nat : p = Len(ints) * ValueSize
      BY <3>1
    <3> QED BY <3>2
  <2>16. sd <= l
    BY <2>14, <2>15 DEF Small
  <2>17. ~((1 + minspace) + (2 + nospace) + basic + lv + li >= sd)
    BY <1>17, <2>1, <2>14
  <2>18. (basic + lv + li) + ((1 + minspace) + (2 + nospace)) <= l
    BY <2>16, <2>17
  <2>19. Small(m.value_desc, ints, old)
    BY <2>2, <2>15, <2>18 DEF Small
  <2> QED BY <2>13, <2>19
<1>18. CASE m = meta
  BY <1>18
<1> HIDE DEF patched, fixed, selected, indpck, indvar, valpck, valvar
<1> QED BY <1>16, <1>17, <1>18

-------------------------------------------------------------------------------
(* select().                                                                *)

\* The metadata after each iteration of the loop.
PassesUpTo(g, k, basic, stats, us) ==
  g = [nbits \in 0..k |->
         IF nbits = 0 THEN basic
         ELSE SelectPatched(g[nbits - 1], stats, us, Histogram(us), nbits)]

\* The passes of select() over numbers of bits are a function.
LEMMA PassesExist ==
  ASSUME NEW k \in Nat, NEW basic, NEW stats, NEW us
  PROVE  \E g : PassesUpTo(g, k, basic, stats, us)
<1> DEFINE Right == {m \in Nat : \E g : PassesUpTo(g, m, basic, stats, us)}
<1>1. 0 \in Right
  <2>1. PICK g : g = [nbits \in 0..0 |-> basic]
    OBVIOUS
  <2>2. g = [nbits \in 0..0 |->
               IF nbits = 0 THEN basic
               ELSE SelectPatched(g[nbits - 1], stats, us, Histogram(us), nbits)]
    BY <2>1
  <2>3. 0 \in Nat
    OBVIOUS
  <2> QED BY <2>2, <2>3 DEF PassesUpTo
<1>2. ASSUME NEW m \in Nat, m \in Right PROVE m + 1 \in Right
  <2>1. PICK g : PassesUpTo(g, m, basic, stats, us)
    BY <1>2
  <2> DEFINE step(f, nbits) ==
               IF nbits = 0 THEN basic
               ELSE SelectPatched(f[nbits - 1], stats, us, Histogram(us), nbits)
  <2>2. /\ g = [nbits \in 0..m |-> step(g, nbits)]
        /\ \A nbits \in 0..m : g[nbits] = step(g, nbits)
    BY <2>1 DEF PassesUpTo
  <2>3. PICK f : f = [nbits \in 0..(m + 1) |-> step(g, nbits)]
    OBVIOUS
  <2>4. \A nbits \in 0..m : f[nbits] = g[nbits]
    <3>1. \A nbits \in 0..m : nbits \in 0..(m + 1)
      OBVIOUS
    <3> HIDE DEF step
    <3> QED BY <2>2, <2>3, <3>1
  <2>5. \A nbits \in 0..(m + 1) : step(f, nbits) = step(g, nbits)
    <3> TAKE nbits \in 0..(m + 1)
    <3>1. CASE nbits = 0
      BY <3>1
    <3>2. CASE nbits # 0
      <4>1. nbits - 1 \in 0..m
        BY <3>2
      <4>2. f[nbits - 1] = g[nbits - 1]
        BY <2>4, <4>1
      <4> QED BY <4>2
    <3> QED BY <3>1, <3>2
  <2>6. f = [nbits \in 0..(m + 1) |-> step(f, nbits)]
    <3> HIDE DEF step
    <3> QED BY <2>3, <2>5
  <2>7. PassesUpTo(f, m + 1, basic, stats, us)
    BY <2>6 DEF PassesUpTo
  <2> QED BY <2>7
<1> HIDE DEF Right
<1>3. Nat \subseteq Right
  BY <1>1, <1>2, EveryNumber
<1> QED BY <1>3 DEF Right

\* All the integers are one.
Constant(ints) == Len(ints) # 0 /\ \A i \in 1..Len(ints) : ints[i] = ints[1]

\* Metadata that name a basic candidate describe the integers.
LEMMA CandidateFits ==
  ASSUME NEW meta \in MetaRecords, NEW ints, NEW old, NEW desc, Candidate(desc, ints, old),
         NEW m, m = [meta EXCEPT !.value_desc = desc]
  PROVE  Fits(m, ints, old) /\ m.value_desc = desc
<1>1. m.value_desc = desc
  BY DEF MetaRecords
<1>2. m \in MetaRecords
  BY DEF MetaRecords, Candidate
<1> QED BY <1>1, <1>2 DEF Fits, Candidate

\* A constant sequence needs its origin only.
LEMMA NaughtCandidate ==
  ASSUME NEW ints \in Seq(Original), NEW old \in Nat, NEW min, Spans(min, min, ints),
         NEW desc \in Descriptors(Width), desc.encoding = "naught", desc.dataspace = 0,
         desc.metaspace = ValueSpace(ZigzagIfSigned(min)), desc.origin = min
  PROVE  Candidate(desc, ints, old)
<1>0. PICK n \in Nat : n = Len(ints)
  BY LenProperties
<1>1. PICK us : n = Len(ints) /\ us = Coded(ints, desc)
  BY <1>0, LenProperties
<1>2. us = [i \in 1..n |-> OriginEncode(min, ints[i])]
  BY <1>1, EncodingsFacts DEF Coded, ValueCode
<1>3. PICK z : z = ToUnsigned(min - min)
  OBVIOUS
<1>4. /\ us \in Seq(WordValues) /\ Len(us) = n
      /\ \A i \in 1..Len(us) : us[i] = ints[i] - min
  BY <1>1, <1>2, <1>3, DeltasFacts, SMTT(30)
<1>5. \A i \in 1..n : ints[i] \in Int /\ ints[i] = min
  <2>1. \A i \in 1..n : ints[i] \in Original /\ min <= ints[i] /\ ints[i] <= min
    BY <1>1 DEF Spans
  <2> QED BY <2>1, OriginalBounds DEF Spans
<1>6. \A i \in 1..Len(us) : us[i] = 0
  BY <1>4, <1>5
<1>7. /\ desc.encoding \in EncodingNames /\ desc.encoding \notin WithNbits
      /\ desc.encoding \in WithOrigin
  BY EncodingsFacts DEF EncodingNames
<1>8. Writable(us, desc)
  BY <1>4, <1>6, <1>7 DEF Writable
<1>9. BasicSpace(us, desc) = 0
  BY <1>7, ByEncoding
<1>10. OwnSpace(desc) = ValueSpace(ZigzagIfSigned(min))
  <2>1. PICK s \in Nat : s = ValueSpace(ZigzagIfSigned(min))
    <3>1. ZigzagIfSigned(min) \in Nat
      BY ValueCodecsInvert, UnsignedNumbers DEF Spans
    <3> QED BY <3>1, ValueBytesAreBytes
  <2>2. OwnSpace(desc) = s + 0
    BY <1>7, <2>1 DEF OwnSpace
  <2> QED BY <2>1, <2>2
<1> QED BY <1>1, <1>7, <1>8, <1>9, <1>10 DEF Candidate

\* What select() promises: a description, not larger than the integers unless they
\* are constant.
Selected(m, ints, o) ==
  Fits(m, ints, o) /\ (Small(m.value_desc, ints, o) \/ Constant(ints))

\* What select() leaves describes the integers, whatever the metadata held.
LEMMA SelectFits ==
  ASSUME NEW ints \in Seq(Original), UsedCount(Len(ints)) <= WordBits,
         NEW meta \in MetaRecords, NEW m, m = Select(meta, ints)
  PROVE  \E o \in {0, meta.value_desc.metaspace} : Selected(m, ints, o)
<1>1. PICK n \in Nat, desc \in Descriptors(Width), old \in Nat :
        n = Len(ints) /\ desc = meta.value_desc /\ old = desc.metaspace
  <2>1. meta.value_desc \in Descriptors(Width)
    BY DEF MetaRecords
  <2>2. meta.value_desc.metaspace \in Nat
    BY <2>1 DEF Descriptors
  <2> QED BY <2>1, <2>2, LenProperties
<1>2. PICK stats, min, max : /\ stats = Stats(ints) /\ min = stats.min /\ max = stats.max
                             /\ stats.nvalues = n
  <2>1. Stats(ints).nvalues = n
    BY <1>1 DEF Stats
  <2> QED BY <2>1
<1>3. CASE n = 0
  <2>1. PICK d : d = [desc EXCEPT !.encoding = "normal", !.dataspace = 0, !.metaspace = 0]
    OBVIOUS
  <2>2. d \in Descriptors(Width) /\ d.encoding = "normal" /\ d.dataspace = 0 /\ d.metaspace = 0
    <3>1. "normal" \in EncodingNames /\ 0 \in Nat
      BY DEF EncodingNames
    <3> QED BY <2>1, <3>1 DEF Descriptors
  <2>3. Len(ints) * ValueSize = 0
    BY <1>1, <1>3, ValueSizeFacts
  <2>4. Candidate(d, ints, 0) /\ Small(d, ints, 0)
    <3>1. 0 \in Nat
      OBVIOUS
    <3> QED BY <2>2, <2>3, <3>1, NormalCandidate
  <2>5. m = [meta EXCEPT !.value_desc = d]
    <3>1. m = [meta EXCEPT !.value_desc.encoding = "normal",
                           !.value_desc.dataspace = 0, !.value_desc.metaspace = 0]
      BY <1>2, <1>3 DEF Select
    <3> QED BY <1>1, <2>1, <3>1 DEF MetaRecords
  <2>6. Fits(m, ints, 0) /\ m.value_desc = d
    BY <2>4, <2>5, CandidateFits
  <2> QED BY <2>4, <2>6 DEF Selected
<1>4. CASE n # 0
  <2>1. Spans(min, max, ints)
    BY <1>1, <1>2, <1>4, StatsFacts
  <2>2. CASE min = max
    <3>1. PICK d : d = [desc EXCEPT !.encoding = "naught", !.dataspace = 0,
                                    !.metaspace = ValueSpace(ZigzagIfSigned(min)),
                                    !.origin = min]
      OBVIOUS
    <3>2. /\ d \in Descriptors(Width) /\ d.encoding = "naught" /\ d.dataspace = 0
          /\ d.metaspace = ValueSpace(ZigzagIfSigned(min)) /\ d.origin = min
      <4>1. "naught" \in EncodingNames /\ 0 \in Nat /\ min \in Original
        BY <2>1 DEF EncodingNames, Spans
      <4>2. ValueSpace(ZigzagIfSigned(min)) \in Nat
        <5>1. ZigzagIfSigned(min) \in Nat
          BY <4>1, ValueCodecsInvert, UnsignedNumbers
        <5> QED BY <5>1, ValueBytesAreBytes
      <4> QED BY <3>1, <4>1, <4>2 DEF Descriptors
    <3>3. Candidate(d, ints, old)
      BY <2>1, <2>2, <3>2, NaughtCandidate
    <3>4. m = [meta EXCEPT !.value_desc = d]
      <4>1. m = [meta EXCEPT !.value_desc.encoding = "naught",
                             !.value_desc.dataspace = 0,
                             !.value_desc.metaspace = ValueSpace(ZigzagIfSigned(min)),
                             !.value_desc.origin = min]
        BY <1>2, <1>4, <2>2 DEF Select
      <4> QED BY <1>1, <3>1, <4>1 DEF MetaRecords
    <3>5. Fits(m, ints, old)
      BY <3>3, <3>4, CandidateFits
    <3>6. Constant(ints)
      <4>1. \A i \in 1..n : ints[i] = min
        BY <1>1, <2>1, <2>2, OriginalBounds DEF Spans
      <4>2. 1 \in 1..n
        BY <1>4
      <4> QED BY <1>1, <1>4, <4>1, <4>2 DEF Constant
    <3> QED BY <1>1, <3>5, <3>6 DEF Selected
  <2>3. CASE min # max
    <3>1. PICK basic : basic = [meta EXCEPT !.value_desc = SelectBasic(desc, stats, ints)]
      OBVIOUS
    <3>2. Fits(basic, ints, old) /\ Small(basic.value_desc, ints, old)
      <4>1. PICK d : d = SelectBasic(desc, stats, ints)
        OBVIOUS
      <4>2. Candidate(d, ints, old) /\ Small(d, ints, old)
        BY <1>1, <1>2, <2>1, <2>3, <4>1, BasicChosen
      <4> QED BY <3>1, <4>1, <4>2, CandidateFits
    <3>3. PICK us, most : us = Deltas(stats, ints) /\ most = UsedCount(ToUnsigned(max - min))
      OBVIOUS
    <3>4. most \in 1..Width
      <4>1. PICK ds : ds = [i \in 1..Len(ints) |-> OriginEncode(min, ints[i])]
        OBVIOUS
      <4> QED BY <2>1, <2>3, <3>3, <4>1, DeltasFacts
    <3>5. PICK k \in Nat : k = most - 1 /\ k \in 0..(most - 1)
      BY <3>4, BitsFacts
    <3> DEFINE f == CHOOSE g : PassesUpTo(g, k, basic, stats, us)
    <3>6. PassesUpTo(f, k, basic, stats, us)
      BY PassesExist
    <3>7. m = basic \/ m = f[k]
      BY <1>1, <1>2, <1>4, <2>3, <3>1, <3>3, <3>5 DEF Select, PassesUpTo
    <3> HIDE DEF f
    <3> DEFINE Right == {j \in Nat : j \in 0..k =>
                           Fits(f[j], ints, old) /\ Small(f[j].value_desc, ints, old)}
    <3>8. 0 \in Right
      <4>1. f[0] = basic
        BY <3>6 DEF PassesUpTo
      <4>2. 0 \in Nat
        OBVIOUS
      <4> QED BY <3>2, <4>1, <4>2
    <3>9. ASSUME NEW j \in Nat, j \in Right PROVE j + 1 \in Right
      <4> SUFFICES ASSUME j + 1 \in 0..k
                   PROVE  Fits(f[j + 1], ints, old) /\ Small(f[j + 1].value_desc, ints, old)
        OBVIOUS
      <4>1. PICK nbits \in 1..k : nbits = j + 1 /\ nbits - 1 = j /\ nbits # 0
        OBVIOUS
      <4>2. PICK before, after : before = f[j] /\ after = f[nbits]
        OBVIOUS
      <4>3. after = SelectPatched(before, stats, us, Histogram(us), nbits)
        BY <3>6, <4>1, <4>2 DEF PassesUpTo
      <4>4. Fits(before, ints, old) /\ Small(before.value_desc, ints, old)
        BY <3>9, <4>1, <4>2
      <4>5. nbits \in 1..(UsedCount(ToUnsigned(max - min)) - 1)
        BY <3>3, <3>5
      <4> HIDE DEF Right
      <4>6. Fits(after, ints, old) /\ Small(after.value_desc, ints, old)
        BY <1>1, <1>2, <2>1, <2>3, <3>3, <4>3, <4>4, <4>5, PatchedStep
      <4> QED BY <4>1, <4>2, <4>6
    <3> HIDE DEF Right
    <3>10. Nat \subseteq Right
      BY <3>8, <3>9, EveryNumber
    <3>11. Fits(f[k], ints, old) /\ Small(f[k].value_desc, ints, old)
      BY <3>10 DEF Right
    <3> QED BY <1>1, <3>2, <3>7, <3>11 DEF Selected
  <2> QED BY <2>2, <2>3
<1> QED BY <1>3, <1>4

-------------------------------------------------------------------------------
(* What is written of a sequence, and what is read of it.                   *)

\* Metadata take what select() has said, but for the byte of the encoding; those of
\* plain integers take that byte alone, and keep the metaspace they had.
LEMMA WrittenMeta ==
  ASSUME NEW m, NEW ints, NEW old \in Nat, Fits(m, ints, old)
  PROVE  /\ MetaFits(m) /\ MetaBytes(m) \in Seq(ByteValues)
         /\ m.value_desc.metaspace \in Nat
         /\ Len(MetaBytes(m)) =
              1 + (IF m.value_desc.encoding = "normal" THEN 0 ELSE m.value_desc.metaspace)
         /\ m.value_desc.encoding = "normal" => m.value_desc.metaspace = old
<1>1. m \in MetaRecords /\ m.value_desc \in Descriptors(Width)
  BY DEF Fits, MetaRecords
<1>2. MetaFits(m)
  BY <1>1 DEF Fits, OutliersFit, MetaFits
<1>3. PICK e \in Seq(ByteValues), o \in Seq(ByteValues), b \in Seq(ByteValues), x \in Seq(ByteValues) :
        /\ e = <<EncodingByte(m)>> /\ o = MetaOrigin(m)
        /\ b = MetaNbits(m) /\ x = MetaOutliers(m)
  BY <1>2, MetaPartsFacts
<1>4. PICK lo \in Nat, lb \in Nat, lx \in Nat : lo = Len(o) /\ lb = Len(b) /\ lx = Len(x) /\ Len(e) = 1
  <2>1. Len(o) \in Nat /\ Len(b) \in Nat /\ Len(x) \in Nat
    BY LenProperties
  <2>2. Len(e) = 1
    BY <1>3
  <2> QED BY <2>1, <2>2
<1>5. MetaBytes(m) \in Seq(ByteValues) /\ Len(MetaBytes(m)) = 1 + lo + lb + lx
  <2>1. PICK eo \in Seq(ByteValues) : eo = e \o o /\ Len(eo) = 1 + lo
    <3>1. e \o o \in Seq(ByteValues) /\ Len(e \o o) = Len(e) + Len(o)
      BY ConcatProperties
    <3> QED BY <1>4, <3>1
  <2>2. PICK eob \in Seq(ByteValues) : eob = eo \o b /\ Len(eob) = 1 + lo + lb
    <3>1. eo \o b \in Seq(ByteValues) /\ Len(eo \o b) = Len(eo) + Len(b)
      BY ConcatProperties
    <3> QED BY <1>4, <2>1, <3>1
  <2>3. eob \o x \in Seq(ByteValues) /\ Len(eob \o x) = Len(eob) + Len(x)
    BY ConcatProperties
  <2>4. MetaBytes(m) = eob \o x
    BY <1>3, <2>1, <2>2, MetaParts
  <2> QED BY <1>4, <2>2, <2>3, <2>4
<1>6. PICK enc \in EncodingNames, space \in Nat : enc = m.value_desc.encoding /\ space = m.value_desc.metaspace
  BY <1>1 DEF Descriptors
<1>7. PICK so \in Nat, sn \in Nat :
        so = ValueSpace(ZigzagIfSigned(m.value_desc.origin)) /\ sn = ValueSpace(m.noutliers)
  BY <1>2, MetaPartsFacts, ValueBytesAreBytes
<1>8. /\ lo = IF enc \in WithOrigin THEN so ELSE 0
      /\ lb = IF enc \in WithNbits THEN 1 ELSE 0
      /\ lx = IF enc = "bitpfr" THEN sn + 2 ELSE 0
  BY <1>2, <1>3, <1>4, <1>6, <1>7, MetaPartsFacts
<1>9. OwnSpace(m.value_desc) = lo + lb
  BY <1>6, <1>7, <1>8 DEF OwnSpace
<1>10. CASE enc = "normal"
  <2>1. enc \notin WithOrigin /\ enc \notin WithNbits
    BY <1>10, EncodingsFacts
  <2>2. space = old
    BY <1>6, <1>10 DEF Fits, Candidate
  <2>3. lo = 0 /\ lb = 0 /\ lx = 0
    BY <1>8, <1>10, <2>1
  <2> QED BY <1>2, <1>5, <1>6, <1>10, <2>2, <2>3
<1>11. CASE enc # "normal" /\ enc # "bitpfr"
  <2>1. space = lo + lb
    BY <1>6, <1>9, <1>11 DEF Fits, Candidate
  <2>2. lx = 0
    BY <1>8, <1>11
  <2>3. 1 + lo + lb + lx = 1 + space
    BY <2>1, <2>2
  <2> QED BY <1>2, <1>5, <1>6, <1>11, <2>3
<1>12. CASE enc = "bitpfr"
  <2>1. space = (lo + lb) + sn + 2
    BY <1>6, <1>7, <1>9, <1>12 DEF Fits
  <2>2. lx = sn + 2
    BY <1>8, <1>12
  <2>3. 1 + lo + lb + lx = 1 + space
    BY <2>1, <2>2
  <2> QED BY <1>2, <1>5, <1>6, <1>12, <2>3
<1> QED BY <1>10, <1>11, <1>12

\* The list that encode() makes of the integers.
LEMMA CodedIsData ==
  ASSUME NEW ints \in Seq(Original), NEW desc
  PROVE  [i \in DOMAIN ints |-> ValueCode(desc, ints[i])] = Coded(ints, desc)
<1>1. DOMAIN ints = 1..Len(ints)
  OBVIOUS
<1> QED BY <1>1 DEF Coded

\* The data of a sequence take exactly the space that select() has said.
LEMMA WrittenData ==
  ASSUME NEW m, NEW ints \in Seq(Original), NEW old \in Nat, Fits(m, ints, old)
  PROVE  /\ DataBytes(m, ints) \in Seq(ByteValues)
         /\ Len(DataBytes(m, ints)) = m.value_desc.dataspace
<1>1. PICK us : us = Coded(ints, m.value_desc) /\ Writable(us, m.value_desc)
  BY DEF Fits, Candidate
<1>2. [i \in DOMAIN ints |-> ValueCode(m.value_desc, ints[i])] = us
  BY <1>1, CodedIsData
<1>3. WriteBasic(us, m.value_desc) \in Seq(ByteValues)
      /\ Len(WriteBasic(us, m.value_desc)) = BasicSpace(us, m.value_desc)
  BY <1>1, BasicBytes
<1>4. CASE m.value_desc.encoding # "bitpfr"
  <2>1. DataBytes(m, ints) = WriteBasic(us, m.value_desc)
    BY <1>2, <1>4 DEF DataBytes
  <2>2. m.value_desc.dataspace = BasicSpace(us, m.value_desc)
    BY <1>1, <1>4 DEF Fits, Candidate
  <2> QED BY <1>3, <2>1, <2>2
<1>5. CASE m.value_desc.encoding = "bitpfr"
  <2>1. PICK e : e = Exceptions(us, m.value_desc.nbits) /\ OutliersFit(m, e)
                 /\ m.value_desc.dataspace = BasicSpace(us, m.value_desc) + OutlierSpace(m, e)
    BY <1>1, <1>5 DEF Fits, CodedExceptions
  <2>2. Writable(e.indices, m.outlier_index_desc) /\ Writable(e.values, m.outlier_value_desc)
    BY <2>1 DEF OutliersFit
  <2>3. PICK a \in Seq(ByteValues), b \in Seq(ByteValues), c \in Seq(ByteValues) :
          /\ a = WriteBasic(us, m.value_desc) /\ b = WriteBasic(e.indices, m.outlier_index_desc)
          /\ c = WriteBasic(e.values, m.outlier_value_desc)
          /\ Len(a) = BasicSpace(us, m.value_desc)
          /\ Len(b) = BasicSpace(e.indices, m.outlier_index_desc)
          /\ Len(c) = BasicSpace(e.values, m.outlier_value_desc)
    BY <1>3, <2>2, BasicBytes
  <2>4. DataBytes(m, ints) = (a \o b) \o c
    BY <1>2, <1>5, <2>1, <2>3 DEF DataBytes
  <2>5. a \o b \in Seq(ByteValues) /\ Len(a \o b) = Len(a) + Len(b)
    BY ConcatProperties
  <2>6. (a \o b) \o c \in Seq(ByteValues) /\ Len((a \o b) \o c) = Len(a \o b) + Len(c)
    BY <2>5, ConcatProperties
  <2>7. PICK la \in Nat, lb \in Nat, lc \in Nat : la = Len(a) /\ lb = Len(b) /\ lc = Len(c)
    BY LenProperties
  <2>8. m.value_desc.dataspace = la + (lb + lc)
    BY <2>1, <2>3, <2>7 DEF OutlierSpace
  <2>9. Len(DataBytes(m, ints)) = (la + lb) + lc
    BY <2>4, <2>5, <2>6, <2>7
  <2> QED BY <2>4, <2>6, <2>8, <2>9
<1> QED BY <1>4, <1>5

\* What is written by a value codec of an encoding is the value for its reader.
LEMMA CodeInverts ==
  ASSUME NEW v \in Original, NEW desc, desc.encoding \in EncodingNames, desc.origin \in Original
  PROVE  ValueOf(desc, ToUnsigned(ValueCode(desc, v))) = v
<1>1. PICK mod \in Nat \ {0} : mod = Modulus /\ Unsigned = 0..(mod - 1)
  BY UnsignedNumbers DEF Unsigned
<1>2. ASSUME NEW u \in Unsigned PROVE ToUnsigned(u) = u
  BY <1>1 DEF ToUnsigned
<1>3. CASE desc.encoding = "normal"
  <2>1. ValueCode(desc, v) = ToUnsigned(v) /\ \A u : ValueOf(desc, u) = ToOriginal(u)
    BY <1>3, EncodingsFacts DEF ValueCode, ValueOf
  <2> QED BY <1>2, <2>1, ValueCodecsInvert
<1>4. CASE desc.encoding \in {"varint", "bitpck"}
  <2>1. ValueCode(desc, v) = ZigzagIfSigned(v) /\ \A u : ValueOf(desc, u) = UnzigzagIfSigned(u)
    BY <1>4, EncodingsFacts DEF ValueCode, ValueOf
  <2> QED BY <1>2, <2>1, ValueCodecsInvert
<1>5. CASE desc.encoding \in WithOrigin
  <2>1. /\ ValueCode(desc, v) = OriginEncode(desc.origin, v)
        /\ \A u : ValueOf(desc, u) = OriginDecode(desc.origin, u)
    BY <1>5, EncodingsFacts DEF ValueCode, ValueOf
  <2>2. PICK origin \in Original : origin = desc.origin
    OBVIOUS
  <2> QED BY <1>2, <2>1, <2>2, ValueCodecsInvert
<1> QED BY <1>3, <1>4, <1>5, EncodingsFacts DEF EncodingNames

\* A reader that knows the choice reads what the choice wrote.
LEMMA SameChoiceReads ==
  ASSUME NEW a, NEW b, SameBasic(a, b), b.encoding \in EncodingNames
  PROVE  /\ \A stream, at, count :
              ReadBasic(stream, at, count, a) = ReadBasic(stream, at, count, b)
         /\ (b.encoding \in WithOrigin => a.origin = b.origin) =>
              \A u : ValueOf(a, u) = ValueOf(b, u)
<1>1. a.encoding = b.encoding /\ (b.encoding \in WithNbits => a.nbits = b.nbits)
  BY DEF SameBasic
<1>2. ASSUME NEW stream, NEW at, NEW count
      PROVE  ReadBasic(stream, at, count, a) = ReadBasic(stream, at, count, b)
  <2>1. CASE b.encoding = "naught"
    BY <1>1, <2>1, EncodingsFacts DEF ReadBasic
  <2>2. CASE b.encoding = "normal"
    BY <1>1, <2>2, EncodingsFacts DEF ReadBasic
  <2>3. CASE b.encoding \in {"varint", "varfor"}
    BY <1>1, <2>3, EncodingsFacts DEF ReadBasic
  <2>4. CASE b.encoding \in WithNbits
    BY <1>1, <2>4, ByEncoding
  <2> QED BY <2>1, <2>2, <2>3, <2>4, EncodingsFacts DEF EncodingNames
<1>3. ASSUME b.encoding \in WithOrigin => a.origin = b.origin, NEW u
      PROVE  ValueOf(a, u) = ValueOf(b, u)
  <2>1. CASE b.encoding \in WithOrigin
    BY <1>1, <1>3, <2>1, EncodingsFacts DEF ValueOf
  <2>2. CASE b.encoding \notin WithOrigin
    BY <1>1, <2>2, EncodingsFacts DEF ValueOf, EncodingNames
  <2> QED BY <2>1, <2>2
<1> QED BY <1>2, <1>3

-------------------------------------------------------------------------------
(* The way back of a sequence.                                              *)

\* Data that stand anywhere in a stream are read back by metadata of the same choice.
LEMMA DataReadsBack ==
  ASSUME NEW m, NEW ints \in Seq(Original), NEW old \in Nat, Fits(m, ints, old),
         NEW read, SameChoice(read, m),
         NEW stream \in Seq(ByteValues), NEW at \in Nat,
         StandsAt(stream, at, DataBytes(m, ints))
  PROVE  ReadData(read, stream, at, Len(ints)) = ints
<1>1. PICK n \in Nat, desc \in Descriptors(Width) :
        n = Len(ints) /\ desc = m.value_desc /\ DOMAIN ints = 1..n
  <2>1. m.value_desc \in Descriptors(Width)
    BY DEF Fits, MetaRecords
  <2> QED BY <2>1, LenProperties
<1>2. PICK us : us = Coded(ints, desc) /\ Writable(us, desc)
  BY <1>1 DEF Fits, Candidate
<1>3. us = [i \in 1..n |-> ValueCode(desc, ints[i])]
  BY <1>1, <1>2 DEF Coded
<1>4. us \in Seq(Nat) /\ us \in Seq(WordValues) /\ Len(us) = n
  <2>1. us \in Seq(WordValues)
    BY <1>2 DEF Writable
  <2>2. us \in Seq(Nat)
    BY <2>1, WordNumbers, SeqMonotonic
  <2>3. Len(us) = n
    BY <1>3
  <2> QED BY <2>1, <2>2, <2>3
<1>5. desc.encoding \in EncodingNames /\ desc.origin \in Original
  BY DEF Descriptors
<1>6. /\ SameBasic(read.value_desc, desc)
      /\ desc.encoding \in WithOrigin => read.value_desc.origin = desc.origin
      /\ read.value_desc.encoding = desc.encoding
  BY <1>1 DEF SameChoice, SameBasic
<1>7. /\ \A str, p, count :
           ReadBasic(str, p, count, read.value_desc) = ReadBasic(str, p, count, desc)
      /\ \A u : ValueOf(read.value_desc, u) = ValueOf(desc, u)
  BY <1>5, <1>6, SameChoiceReads
<1>8. \A i \in 1..n : ValueOf(read.value_desc, ToUnsigned(us[i])) = ints[i]
  <2> TAKE i \in 1..n
  <2>1. PICK v \in Original : v = ints[i]
    BY <1>1
  <2>2. us[i] = ValueCode(desc, v)
    BY <1>3, <2>1
  <2>3. ValueOf(desc, ToUnsigned(ValueCode(desc, v))) = v
    BY <1>5, CodeInverts
  <2> QED BY <1>7, <2>1, <2>2, <2>3
<1>9. [i \in 1..n |-> ValueOf(read.value_desc, ToUnsigned(us[i]))] = ints
  <2>1. ints = [i \in 1..n |-> ints[i]]
    BY <1>1
  <2> QED BY <1>8, <2>1
<1>10. CASE desc.encoding # "bitpfr"
  <2>1. DataBytes(m, ints) = WriteBasic(us, desc)
    BY <1>1, <1>3, <1>10 DEF DataBytes
  <2>2. ReadBasic(stream, at, Len(us), desc) =
          [us |-> Regular(us, desc), next |-> at + Len(WriteBasic(us, desc))]
    BY <1>2, <2>1, BasicReadsBack
  <2>3. PICK r : r = ReadBasic(stream, at, n, read.value_desc) /\ r.us = us
    BY <1>4, <1>7, <1>10, <2>2 DEF Regular
  <2>4. ReadData(read, stream, at, n) =
          [i \in 1..n |-> ValueOf(read.value_desc, ToUnsigned(us[i]))]
    BY <1>6, <1>10, <2>3 DEF ReadData
  <2> QED BY <1>1, <1>9, <2>4
<1>11. CASE desc.encoding = "bitpfr"
  <2>1. PICK nbits : nbits = desc.nbits /\ read.value_desc.nbits = nbits /\ nbits \in Nat
    <3>1. desc.encoding \in WithNbits
      BY <1>11, EncodingsFacts
    <3>2. desc.nbits \in 0..Width
      BY DEF Descriptors
    <3> QED BY <1>6, <3>1, <3>2 DEF SameBasic
  <2>2. PICK e : e = Exceptions(us, nbits) /\ OutliersFit(m, e)
    BY <1>1, <1>2, <1>11, <2>1 DEF Fits, CodedExceptions
  <2>3. PICK no, idesc, vdesc :
          /\ no = m.noutliers /\ idesc = m.outlier_index_desc /\ vdesc = m.outlier_value_desc
          /\ no = Len(e.indices) /\ no = Len(e.values)
          /\ ExtraFits(idesc) /\ ExtraFits(vdesc)
          /\ Writable(e.indices, idesc) /\ Writable(e.values, vdesc)
    BY <2>2 DEF OutliersFit
  <2>4. /\ read.noutliers = no /\ SameBasic(read.outlier_index_desc, idesc)
        /\ SameBasic(read.outlier_value_desc, vdesc)
    BY <1>1, <1>6, <1>11, <2>3 DEF SameChoice
  <2>5. /\ idesc.encoding \in EncodingNames /\ idesc.encoding # "bitpfr"
        /\ vdesc.encoding \in EncodingNames /\ vdesc.encoding # "bitpfr"
    BY <2>3 DEF ExtraFits, EncodingNames
  <2>6. /\ \A str, p, count :
             ReadBasic(str, p, count, read.outlier_index_desc) = ReadBasic(str, p, count, idesc)
        /\ \A str, p, count :
             ReadBasic(str, p, count, read.outlier_value_desc) = ReadBasic(str, p, count, vdesc)
    BY <2>4, <2>5, SameChoiceReads
  <2>7. PICK a \in Seq(ByteValues), b \in Seq(ByteValues), c \in Seq(ByteValues) :
          /\ a = WriteBasic(us, desc) /\ b = WriteBasic(e.indices, idesc)
          /\ c = WriteBasic(e.values, vdesc)
    BY <1>2, <2>3, BasicBytes
  <2>8. DataBytes(m, ints) = (a \o b) \o c
    BY <1>1, <1>3, <1>11, <2>1, <2>2, <2>3, <2>7 DEF DataBytes
  <2>9. PICK ab \in Seq(ByteValues) : ab = a \o b /\ Len(ab) = Len(a) + Len(b)
    BY ConcatProperties
  <2>10. StandsAt(stream, at, ab) /\ StandsAt(stream, at + Len(ab), c)
    BY <2>8, <2>9, StandsBehind
  <2>11. StandsAt(stream, at, a) /\ StandsAt(stream, at + Len(a), b)
    BY <2>9, <2>10, StandsBehind
  <2>12. PICK la \in Nat, lb \in Nat : la = Len(a) /\ lb = Len(b)
    BY LenProperties
  <2>13. PICK p \in Nat, q \in Nat : p = at + la /\ q = p + lb /\ q = at + Len(ab)
    <3>1. at + la \in Nat /\ (at + la) + lb \in Nat /\ (at + la) + lb = at + (la + lb)
      OBVIOUS
    <3> QED BY <2>9, <2>12, <3>1
  <2>14. ReadBasic(stream, at, Len(us), desc) = [us |-> Regular(us, desc), next |-> at + Len(a)]
    BY <1>2, <2>7, <2>11, BasicReadsBack
  <2>15. ReadBasic(stream, p, Len(e.indices), idesc) =
           [us |-> Regular(e.indices, idesc), next |-> p + Len(b)]
    <3>1. StandsAt(stream, p, WriteBasic(e.indices, idesc))
      BY <2>7, <2>11, <2>12, <2>13
    <3>2. PICK list : list = e.indices
      OBVIOUS
    <3>3. ReadBasic(stream, p, Len(list), idesc) =
            [us |-> Regular(list, idesc), next |-> p + Len(WriteBasic(list, idesc))]
      BY <2>3, <3>1, <3>2, BasicReadsBack
    <3> QED BY <2>7, <3>2, <3>3
  <2>16. ReadBasic(stream, q, Len(e.values), vdesc) =
           [us |-> Regular(e.values, vdesc), next |-> q + Len(c)]
    <3>1. StandsAt(stream, q, WriteBasic(e.values, vdesc))
      BY <2>7, <2>10, <2>13
    <3>2. PICK list : list = e.values
      OBVIOUS
    <3>3. ReadBasic(stream, q, Len(list), vdesc) =
            [us |-> Regular(list, vdesc), next |-> q + Len(WriteBasic(list, vdesc))]
      BY <2>3, <3>1, <3>2, BasicReadsBack
    <3> QED BY <2>7, <3>2, <3>3
  <2>17. PICK regular, indices, values :
           /\ regular = ReadBasic(stream, at, n, read.value_desc)
           /\ indices = ReadBasic(stream, regular.next, read.noutliers, read.outlier_index_desc)
           /\ values = ReadBasic(stream, indices.next, read.noutliers, read.outlier_value_desc)
    OBVIOUS
  <2>18. regular.us = [i \in 1..Len(us) |-> us[i] % 2^nbits] /\ regular.next = p
    BY <1>4, <1>7, <1>11, <2>1, <2>12, <2>13, <2>14, <2>17 DEF Regular
  <2>19. indices.us = e.indices /\ indices.next = q
    BY <2>3, <2>4, <2>5, <2>6, <2>12, <2>13, <2>15, <2>17, <2>18 DEF Regular
  <2>20. values.us = e.values
    BY <2>3, <2>4, <2>5, <2>6, <2>16, <2>17, <2>19 DEF Regular
  <2>21. Patch(regular.us, [indices |-> indices.us, values |-> values.us], nbits) = us
    <3>1. PICK r : r = [i \in 1..Len(us) |-> us[i] % 2^nbits]
      OBVIOUS
    <3>2. Patch(r, [indices |-> Exceptions(us, nbits).indices,
                    values |-> Exceptions(us, nbits).values], nbits) = us
      BY <1>4, <2>1, <3>1, PatchRestores
    <3> QED BY <2>2, <2>18, <2>19, <2>20, <3>1, <3>2
  <2>22. ReadData(read, stream, at, n) =
           [i \in 1..n |-> ValueOf(read.value_desc, ToUnsigned(us[i]))]
    BY <1>6, <1>11, <2>1, <2>17, <2>21 DEF ReadData
  <2> QED BY <1>1, <1>9, <2>22
<1> QED BY <1>10, <1>11

\* A sequence stands at its own beginning.
LEMMA StandsAlone ==
  ASSUME NEW S, NEW s \in Seq(S)
  PROVE  StandsAt(s, 1, s)
<1>1. PICK n \in Nat : n = Len(s)
  BY LenProperties
<1>2. 1 \in Nat \ {0} /\ 1 + n - 1 <= n
  OBVIOUS
<1>3. \A k \in 1..n : 1 + k - 1 = k
  OBVIOUS
<1> QED BY <1>1, <1>2, <1>3 DEF StandsAt

\* Cleared metadata are metadata.
LEMMA ClearFacts ==
  ClearMetadata \in MetaRecords /\ ClearMetadata.value_desc.metaspace = 0
<1>1. 0 \in 0..Width /\ 0 \in 0..WordBits /\ 0 \in Original /\ 0 \in Nat
  BY BitsFacts, OriginalBounds
<1>2. "normal" \in EncodingNames
  BY DEF EncodingNames
<1>3. ClearDescriptor \in Descriptors(Width) /\ ClearDescriptor \in Descriptors(WordBits)
  BY <1>1, <1>2 DEF ClearDescriptor, Descriptors
<1> QED BY <1>1, <1>3 DEF ClearMetadata, MetaRecords, ClearDescriptor

=======================================================================================
