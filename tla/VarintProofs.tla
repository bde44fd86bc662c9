------------------------------ MODULE VarintProofs ------------------------------
(***************************************************************************)
(* The arithmetic of single integers: that the value codecs are inverted   *)
(* by their decoders for every width, and that varint_codec reads from any *)
(* place of a stream the number that it has written there, with as many    *)
(* bytes as it has predicted.                                              *)
(***************************************************************************)
EXTENDS Varint, BasicLemmas

-------------------------------------------------------------------------------
(* The value codecs.                                                        *)

\* The values of the unsigned type, half of which are of either sign.
LEMMA ModulusFacts ==
  \E half \in Nat \ {0} :
    /\ Modulus = 2 * half /\ Modulus \in Nat \ {0}
    /\ Modulus \div 2 = half
    /\ Unsigned = 0..(2 * half - 1)
    /\ IsSigned => Original = (0 - half)..(half - 1)
    /\ ~IsSigned => Original = Unsigned
<1> DEFINE half == 2^(Width - 1)
<1>1. Width - 1 \in Nat /\ (Width - 1) + 1 = Width
  BY TraitsAssumption
<1>2. half \in Nat \ {0} /\ Modulus = 2 * half
  BY <1>1, PowerNext DEF Modulus
<1> HIDE DEF half
<1>3. Modulus \div 2 = half
  BY <1>2
<1>4. -(Modulus \div 2) = 0 - half
  BY <1>2, <1>3
<1> QED BY <1>2, <1>3, <1>4 DEF Unsigned, Original

\* The remainder is the only number below the divisor that is as far from a multiple.
LEMMA Remainder ==
  ASSUME NEW n \in Nat \ {0}, NEW x \in Int, NEW q \in Int, NEW r \in 0..(n - 1),
         x = q * n + r
  PROVE  x % n = r
OBVIOUS

\* Conversion to the unsigned type and back.
LEMMA Converted ==
  ASSUME NEW v \in Original, NEW q \in Int
  PROVE  /\ ToOriginal(v + q * Modulus) = v
         /\ ToUnsigned(v) \in Unsigned
         /\ v \in Int
<1>1. PICK half \in Nat \ {0} :
        /\ Modulus = 2 * half /\ Modulus \in Nat \ {0}
        /\ Modulus \div 2 = half
        /\ Unsigned = 0..(2 * half - 1)
        /\ IsSigned => Original = (0 - half)..(half - 1)
        /\ ~IsSigned => Original = Unsigned
  BY ModulusFacts
<1>2. v \in Int /\ v < 2 * half /\ v >= 0 - half
  BY <1>1
<1>3. PICK n \in Nat \ {0} : n = Modulus
  BY <1>1
<1>4. CASE v >= 0
  <2>1. (v + q * n) % n = v
    <3>1. v \in 0..(n - 1) /\ v + q * n = q * n + v /\ v + q * n \in Int
      BY <1>1, <1>2, <1>3, <1>4
    <3> QED BY <3>1, Remainder
  <2>2. v % n = v
    <3>1. v \in 0..(n - 1) /\ v = 0 * n + v
      BY <1>1, <1>2, <1>3, <1>4
    <3> QED BY <1>2, <3>1, Remainder
  <2>3. IsSigned => v < half
    BY <1>1, <1>4
  <2> QED BY <1>1, <1>2, <1>3, <1>4, <2>1, <2>2, <2>3 DEF ToOriginal, ToUnsigned
<1>5. CASE v < 0
  <2>1. IsSigned /\ v + n \in half..(n - 1)
    BY <1>1, <1>2, <1>3, <1>5
  <2>2. (v + q * n) % n = v + n
    <3>1. v + q * n = (q - 1) * n + (v + n)
      BY <1>2, <1>3, ProductNext
    <3>2. PICK x \in Int, p \in Int, r \in 0..(n - 1) :
            x = v + q * n /\ p = q - 1 /\ r = v + n
      BY <1>1, <1>2, <1>3, <2>1
    <3>3. x = p * n + r
      BY <3>1, <3>2
    <3>4. x % n = r
      BY <3>3, Remainder
    <3> QED BY <3>2, <3>4
  <2>3. v % n = v + n
    <3>1. v = (0 - 1) * n + (v + n) /\ v + n \in 0..(n - 1)
      BY <1>1, <1>2, <2>1
    <3> QED BY <1>2, <3>1, Remainder
  <2> QED BY <1>1, <1>2, <1>3, <2>1, <2>2, <2>3 DEF ToOriginal, ToUnsigned
<1> QED BY <1>2, <1>4, <1>5

\* What normal_codec relies on.
LEMMA Unconverted ==
  ASSUME NEW v \in Original
  PROVE  ToOriginal(ToUnsigned(v)) = v
<1>1. PICK n \in Nat \ {0} : n = Modulus
  BY ModulusFacts
<1>2. v \in Int
  BY Converted
<1>3. PICK q \in Int : v % n = v + q * n
  <2>1. v % n = v + (0 - (v \div n)) * n /\ 0 - (v \div n) \in Int
    BY <1>2
  <2> QED BY <2>1
<1> QED BY <1>1, <1>3, Converted DEF ToUnsigned
\* What the codecs with an origin rely on, wherever the origin lies.
LEMMA OriginInverts ==
  ASSUME NEW origin \in Original, NEW v \in Original
  PROVE  /\ OriginEncode(origin, v) \in Unsigned
         /\ OriginDecode(origin, OriginEncode(origin, v)) = v
<1>1. PICK n \in Nat \ {0} : n = Modulus /\ Unsigned = 0..(n - 1)
  BY ModulusFacts
<1>2. v \in Int /\ origin \in Int
  BY Converted
<1>3. PICK q \in Int : (v - origin) % n = (v - origin) + q * n
  <2>1. /\ (v - origin) % n = (v - origin) + (0 - ((v - origin) \div n)) * n
        /\ 0 - ((v - origin) \div n) \in Int
    BY <1>2
  <2> QED BY <2>1
<1>4. ((v - origin) + q * n) + origin = v + q * n
  BY <1>2
<1>5. (v - origin) % n \in 0..(n - 1)
  BY <1>2
<1>6. OriginEncode(origin, v) = (v - origin) + q * n
  BY <1>1, <1>3 DEF OriginEncode, ToUnsigned
<1>7. OriginDecode(origin, OriginEncode(origin, v)) = ToOriginal(v + q * n)
  BY <1>4, <1>6 DEF OriginDecode
<1> QED BY <1>1, <1>3, <1>5, <1>6, <1>7, Converted

\* What a code of zigzag is: twice the number, or twice what it is below zero.
LEMMA ZigzagInverts ==
  ASSUME IsSigned, NEW v \in Original
  PROVE  /\ ZigzagEncode(v) = IF v < 0 THEN 0 - 2 * v - 1 ELSE 2 * v
         /\ ZigzagEncode(v) \in Unsigned
         /\ ZigzagDecode(ZigzagEncode(v)) = v
<1>1. PICK half \in Nat \ {0} :
        /\ Modulus = 2 * half /\ Modulus \in Nat \ {0}
        /\ Unsigned = 0..(2 * half - 1)
        /\ Original = (0 - half)..(half - 1)
  BY ModulusFacts
<1>2. v \in Int /\ v < half /\ v >= 0 - half
  BY <1>1
<1>3. CASE v >= 0
  <2>1. (2 * v) % (2 * half) = 2 * v
    <3>1. 2 * v \in 0..(2 * half - 1) /\ 2 * v = 0 * (2 * half) + 2 * v
      BY <1>2, <1>3
    <3> QED BY <3>1, Remainder
  <2>2. ZigzagEncode(v) = 2 * v
    BY <1>1, <1>2, <1>3, <2>1 DEF ZigzagEncode, ToUnsigned
  <2>3. (2 * v) \div 2 = v /\ (2 * v) % 2 # 1
    BY <1>2
  <2>4. ZigzagDecode(2 * v) = ToOriginal(v + 0 * Modulus)
    <3>1. v = v + 0 * Modulus
      BY <1>1, <1>2
    <3>2. ZigzagDecode(2 * v) = ToOriginal(v)
      BY <2>3 DEF ZigzagDecode
    <3> QED BY <3>1, <3>2
  <2>5. ToOriginal(v + 0 * Modulus) = v
    BY Converted, 0 \in Int, Zenon
  <2> QED BY <1>1, <1>2, <1>3, <2>2, <2>4, <2>5
<1>4. CASE v < 0
  <2>1. (2 * v) % (2 * half) = 2 * v + 2 * half
    <3>1. /\ 2 * v + 2 * half \in 0..(2 * half - 1)
          /\ 2 * v = (0 - 1) * (2 * half) + (2 * v + 2 * half)
      BY <1>2, <1>4
    <3> QED BY <1>2, <3>1, Remainder
  <2>2. ZigzagEncode(v) = 0 - 2 * v - 1
    BY <1>1, <1>2, <1>4, <2>1 DEF ZigzagEncode, ToUnsigned
  <2>3. (0 - 2 * v - 1) \div 2 = 0 - v - 1 /\ (0 - 2 * v - 1) % 2 = 1
    BY <1>2
  <2>4. ZigzagDecode(0 - 2 * v - 1) = ToOriginal(v + 1 * Modulus)
    <3>1. Modulus - 1 - (0 - v - 1) = v + 1 * Modulus
      BY <1>1, <1>2
    <3>2. ZigzagDecode(0 - 2 * v - 1) = ToOriginal(Modulus - 1 - (0 - v - 1))
      BY <2>3 DEF ZigzagDecode
    <3> QED BY <3>1, <3>2
  <2>5. ToOriginal(v + 1 * Modulus) = v
    BY Converted, 1 \in Int, Zenon
  <2> QED BY <1>1, <1>2, <1>4, <2>2, <2>4, <2>5
<1> QED BY <1>2, <1>3, <1>4

\* Each value codec gives back what it was given, and codes that the unsigned type
\* holds: the conversion of normal_codec, zigzag_codec for either kind of type, and
\* origin_codec for any frame of reference, although all of them wrap.
THEOREM ValueCodecsInvert ==
  \A v, origin \in Original :
    /\ ToUnsigned(v) \in Unsigned
    /\ ToOriginal(ToUnsigned(v)) = v
    /\ ZigzagIfSigned(v) \in Unsigned
    /\ UnzigzagIfSigned(ZigzagIfSigned(v)) = v
    /\ OriginEncode(origin, v) \in Unsigned
    /\ OriginDecode(origin, OriginEncode(origin, v)) = v
<1> SUFFICES ASSUME NEW v \in Original, NEW origin \in Original
             PROVE  /\ ZigzagIfSigned(v) \in Unsigned
                    /\ UnzigzagIfSigned(ZigzagIfSigned(v)) = v
  BY Converted, Unconverted, OriginInverts
<1>1. CASE IsSigned
  BY <1>1, ZigzagInverts DEF ZigzagIfSigned, UnzigzagIfSigned
<1>2. CASE ~IsSigned
  BY <1>2, ModulusFacts DEF ZigzagIfSigned, UnzigzagIfSigned
<1> QED BY <1>1, <1>2
-------------------------------------------------------------------------------
(* Functions of a number and of its quotient, as the loops that shift.      *)

\* A quotient is smaller than what was divided.
LEMMA QuotientSmaller ==
  ASSUME NEW c \in Nat \ {0, 1}, NEW v \in Nat, v # 0
  PROVE  v \div c \in Nat /\ v \div c < v
<1>1. PICK q \in Nat : q = v \div c
  OBVIOUS
<1>2. q * c <= v
  BY <1>1
<1>3. q * 2 <= q * c
  OBVIOUS
<1> QED BY <1>1, <1>2, <1>3

\* Every number is reached from those that no divisor is left of.
LEMMA EveryQuotient ==
  ASSUME NEW c \in Nat \ {0, 1}, NEW S,
         \A v \in 0..(c - 1) : v \in S,
         \A v \in Nat : v >= c /\ v \div c \in S => v \in S
  PROVE  Nat \subseteq S
<1> DEFINE Reached == {n \in Nat : 0..n \subseteq S}
<1>1. 0 \in Reached
  BY 0 \in 0..(c - 1)
<1>2. ASSUME NEW n \in Nat, n \in Reached PROVE n + 1 \in Reached
  <2>1. n + 1 \in S
    <3>1. CASE n + 1 < c
      BY <3>1
    <3>2. CASE n + 1 >= c
      <4>1. (n + 1) \div c \in 0..n
        BY QuotientSmaller
      <4> QED BY <1>2, <3>2, <4>1
    <3> QED BY <3>1, <3>2
  <2>2. 0..(n + 1) = 0..n \cup {n + 1}
    OBVIOUS
  <2> QED BY <1>2, <2>1, <2>2
<1> HIDE DEF Reached
<1>3. Nat \subseteq Reached
  BY <1>1, <1>2, EveryNumber
<1>4. \A n \in Nat : n \in 0..n
  OBVIOUS
<1> QED BY <1>3, <1>4 DEF Reached

\* f is defined by what it is below c and by a step from the quotient.
ByQuotient(f, c, base, next) ==
  f = [v \in Nat |-> IF v < c THEN base[v] ELSE next[<<v, f[v \div c]>>]]

\* There is such a function.
LEMMA QuotientRecursion ==
  ASSUME NEW c \in Nat \ {0, 1}, NEW S, NEW base \in [Nat -> S], NEW next \in [Nat \X S -> S]
  PROVE  \E f \in [Nat -> S] : ByQuotient(f, c, base, next)
<1> DEFINE Step(f, v) == IF v < c THEN base[v] ELSE next[<<v, f[v \div c]>>]
           Partial(n) == {f \in [0..n -> S] : \A v \in 0..n : f[v] = Step(f, v)}
           Defined == {n \in Nat : Partial(n) # {}}
           Unique == {v \in Nat : \A m, n \in Nat : v <= m /\ v <= n =>
                        \A f \in Partial(m), g \in Partial(n) : f[v] = g[v]}
           whole == [v \in Nat |-> (CHOOSE f \in Partial(v) : TRUE)[v]]
<1>1. 0 \in Defined
  <2>1. [v \in 0..0 |-> base[v]] \in Partial(0)
    OBVIOUS
  <2> HIDE DEF Partial
  <2> QED BY <2>1
<1>2. ASSUME NEW n \in Nat, n \in Defined PROVE n + 1 \in Defined
  <2>1. PICK f \in Partial(n) : TRUE
    BY <1>2
  <2> DEFINE g == [v \in 0..(n + 1) |-> IF v <= n THEN f[v] ELSE Step(f, v)]
  <2>2. f \in [0..n -> S] /\ \A v \in 0..n : f[v] = Step(f, v)
    BY <2>1
  <2>3. ASSUME NEW v \in 0..(n + 1), v >= c
        PROVE  \E q \in 0..n : q = v \div c
    <3>1. v \in Nat /\ v # 0
      BY <2>3
    <3>2. v \div c \in Nat /\ v \div c < v
      BY <3>1, QuotientSmaller
    <3>3. PICK q : q = v \div c
      OBVIOUS
    <3>4. q \in 0..n
      BY <3>1, <3>2, <3>3
    <3> QED BY <3>3, <3>4
  <2>4. ASSUME NEW v \in 0..(n + 1) PROVE Step(f, v) \in S
    <3>1. CASE v < c
      BY <3>1
    <3>2. CASE v >= c
      <4>1. f[v \div c] \in S
        BY <2>2, <2>3, <3>2
      <4>2. <<v, f[v \div c]>> \in Nat \X S
        <5>1. v \in Nat
          OBVIOUS
        <5> QED BY <4>1, <5>1
      <4> QED BY <3>2, <4>2
    <3> QED BY <3>1, <3>2
  <2>5. g \in [0..(n + 1) -> S]
    <3> HIDE DEF Step
    <3> QED BY <2>2, <2>4
  <2>6. ASSUME NEW v \in 0..(n + 1) PROVE g[v] = Step(g, v)
    <3>1. ASSUME v >= c PROVE g[v \div c] = f[v \div c]
      <4>1. PICK q \in 0..n : q = v \div c
        BY <2>3, <3>1
      <4>2. q \in 0..(n + 1) /\ q <= n
        OBVIOUS
      <4>3. g[q] = f[q]
        <5> HIDE DEF Step
        <5> QED BY <4>2
      <4> HIDE DEF g
      <4> QED BY <4>1, <4>3
    <3>2. Step(g, v) = Step(f, v)
      <4>1. v \in Nat
        OBVIOUS
      <4> HIDE DEF g
      <4>2. CASE v < c
        BY <4>2
      <4>3. CASE v >= c
        BY <3>1, <4>3
      <4> QED BY <4>1, <4>2, <4>3
    <3>3. g[v] = Step(f, v)
      <4> HIDE DEF Step
      <4> QED BY <2>2
    <3> QED BY <3>2, <3>3
  <2>7. g \in Partial(n + 1)
    <3> HIDE DEF g, Step
    <3> QED BY <2>5, <2>6
  <2> HIDE DEF g, Partial
  <2> QED BY <2>7
<1> HIDE DEF Defined
<1>3. \A n \in Nat : Partial(n) # {}
  <2>1. Nat \subseteq Defined
    BY <1>1, <1>2, EveryNumber
  <2> QED BY <2>1 DEF Defined
<1>4. ASSUME NEW v \in 0..(c - 1) PROVE v \in Unique
  <2>1. v \in Nat /\ v < c
    OBVIOUS
  <2>2. ASSUME NEW m \in Nat, NEW n \in Nat, v <= m, v <= n,
               NEW f \in Partial(m), NEW g \in Partial(n)
        PROVE  f[v] = g[v]
    <3>1. v \in 0..m /\ v \in 0..n
      BY <2>2
    <3>2. f[v] = Step(f, v) /\ g[v] = Step(g, v)
      <4> HIDE DEF Step
      <4> QED BY <3>1
    <3> QED BY <2>1, <3>2
  <2> HIDE DEF Partial
  <2> QED BY <2>1, <2>2
<1>5. ASSUME NEW v \in Nat, v >= c, v \div c \in Unique PROVE v \in Unique
  <2> SUFFICES ASSUME NEW m \in Nat, NEW n \in Nat, v <= m, v <= n,
                      NEW f \in Partial(m), NEW g \in Partial(n)
               PROVE  f[v] = g[v]
    OBVIOUS
  <2>1. v \div c \in Nat /\ v \div c < v
    <3>1. v # 0
      BY <1>5
    <3> QED BY <3>1, QuotientSmaller
  <2>2. f[v \div c] = g[v \div c]
    <3> HIDE DEF Partial
    <3> QED BY <1>5, <2>1
  <2>3. v \in 0..m /\ v \in 0..n
    OBVIOUS
  <2>4. f[v] = Step(f, v) /\ g[v] = Step(g, v)
    <3> HIDE DEF Step
    <3> QED BY <2>3
  <2> QED BY <2>2, <2>4
<1> HIDE DEF Unique
<1>6. \A v \in Nat : v \in Unique
  BY <1>4, <1>5, EveryQuotient
<1>7. ASSUME NEW v \in Nat
      PROVE  \A f \in Partial(v) : whole[v] = f[v] /\ f[v] \in S /\ f[v] = Step(f, v)
  <2> TAKE f \in Partial(v)
  <2>1. (CHOOSE g \in Partial(v) : TRUE) \in Partial(v)
    <3> HIDE DEF Partial
    <3> QED BY <1>3
  <2>2. whole[v] = f[v]
    <3> HIDE DEF Partial
    <3> QED BY <1>6, <2>1 DEF Unique
  <2>3. v \in 0..v
    OBVIOUS
  <2>4. f[v] \in S /\ f[v] = Step(f, v)
    <3> HIDE DEF Step
    <3> QED BY <2>3
  <2> QED BY <2>2, <2>4
<1>8. ASSUME NEW v \in Nat PROVE whole[v] \in S /\ whole[v] = Step(whole, v)
  <2>1. PICK f \in Partial(v) : TRUE
    BY <1>3
  <2>2. whole[v] = f[v] /\ f[v] \in S /\ f[v] = Step(f, v)
    <3> HIDE DEF Partial, whole, Step
    <3> QED BY <1>7
  <2>3. v >= c => whole[v \div c] = f[v \div c]
    <3> SUFFICES ASSUME v >= c PROVE whole[v \div c] = f[v \div c]
      OBVIOUS
    <3>1. v \div c \in Nat /\ v \div c < v
      <4>1. v # 0
        OBVIOUS
      <4> QED BY <4>1, QuotientSmaller
    <3>2. PICK q \in Nat : q = v \div c /\ q < v
      BY <3>1
    <3>3. PICK g \in Partial(q) : TRUE
      BY <1>3
    <3>4. whole[q] = g[q]
      <4> HIDE DEF Partial, whole, Step
      <4> QED BY <1>7
    <3>5. g[q] = f[q]
      <4>1. q <= q /\ q <= v /\ q \in Unique
        BY <1>6, <3>2
      <4> HIDE DEF Partial
      <4> QED BY <3>2, <4>1 DEF Unique
    <3> HIDE DEF whole, Partial
    <3> QED BY <3>2, <3>4, <3>5
  <2>4. Step(whole, v) = Step(f, v)
    <3> HIDE DEF whole, Partial
    <3> QED BY <2>3
  <2> HIDE DEF whole, Step
  <2> QED BY <2>2, <2>4
<1>9. whole \in [Nat -> S]
  <2>1. whole = [v \in Nat |-> whole[v]]
    OBVIOUS
  <2> HIDE DEF whole
  <2> QED BY <1>8, <2>1
<1>10. whole = [v \in Nat |-> Step(whole, v)]
  <2>1. whole = [v \in Nat |-> whole[v]]
    OBVIOUS
  <2> HIDE DEF whole, Step
  <2> QED BY <1>8, <2>1
<1>11. ByQuotient(whole, c, base, next)
  <2> HIDE DEF whole
  <2> QED BY <1>10 DEF ByQuotient
<1> HIDE DEF whole
<1> QED BY <1>9, <1>11
-------------------------------------------------------------------------------
(* The number of significant bits.                                          *)

\* Counting, one bit less.
LEMMA UsedCountNext ==
  ASSUME NEW u \in Nat
  PROVE  UsedCount(u) = IF u = 0 THEN 0 ELSE 1 + UsedCount(u \div 2)
<1> DEFINE IsUsed(f) == f = [v \in Nat |-> IF v = 0 THEN 0 ELSE 1 + f[v \div 2]]
           used == CHOOSE f : IsUsed(f)
           base == [v \in Nat |-> IF v = 0 THEN 0 ELSE 1]
           next == [p \in Nat \X Nat |-> 1 + p[2]]
<1>1. PICK f \in [Nat -> Nat] : ByQuotient(f, 2, base, next)
  <2>1. base \in [Nat -> Nat] /\ next \in [Nat \X Nat -> Nat] /\ 2 \in Nat \ {0, 1}
    OBVIOUS
  <2> HIDE DEF base, next
  <2> QED BY <2>1, QuotientRecursion
<1>2. ASSUME NEW v \in Nat PROVE f[v] = IF v = 0 THEN 0 ELSE 1 + f[v \div 2]
  <2>1. f[v] = IF v < 2 THEN base[v] ELSE next[<<v, f[v \div 2]>>]
    <3> HIDE DEF base, next
    <3> QED BY <1>1 DEF ByQuotient
  <2>2. f[0] = 0
    <3>1. f[0] = IF 0 < 2 THEN base[0] ELSE next[<<0, f[0 \div 2]>>]
      <4> HIDE DEF base, next
      <4> QED BY <1>1 DEF ByQuotient
    <3> QED BY <3>1
  <2>3. CASE v < 2
    <3>1. v = 0 \/ v = 1
      BY <2>3
    <3>2. 1 \div 2 = 0
      OBVIOUS
    <3> QED BY <2>1, <2>2, <2>3, <3>1, <3>2
  <2>4. CASE v >= 2
    <3>1. v \div 2 \in Nat /\ f[v \div 2] \in Nat
      OBVIOUS
    <3>2. <<v, f[v \div 2]>> \in Nat \X Nat
      BY <3>1
    <3>3. next[<<v, f[v \div 2]>>] = 1 + f[v \div 2]
      BY <3>2
    <3> HIDE DEF next, base
    <3> QED BY <2>1, <2>4, <3>3
  <2> QED BY <2>3, <2>4
<1>3. IsUsed(f)
  <2>1. f = [v \in Nat |-> f[v]]
    OBVIOUS
  <2> QED BY <1>2, <2>1
<1>4. IsUsed(used)
  <2> HIDE DEF IsUsed
  <2> QED BY <1>3
<1>5. UsedCount(u) = used[u] /\ UsedCount(u \div 2) = used[u \div 2]
  BY DEF UsedCount
<1>6. used[u] = IF u = 0 THEN 0 ELSE 1 + used[u \div 2]
  <2> HIDE DEF used
  <2> QED BY <1>4
<1> HIDE DEF used
<1> QED BY <1>5, <1>6

\* All values of as many bits are below the next power of two, and none that needs
\* a bit more is.
LEMMA UsedCountFacts ==
  ASSUME NEW u \in Nat
  PROVE  /\ UsedCount(u) \in Nat
         /\ u < 2^UsedCount(u)
         /\ u # 0 => UsedCount(u) - 1 \in Nat /\ 2^(UsedCount(u) - 1) <= u
<1> DEFINE Counted(v) == /\ UsedCount(v) \in Nat
                         /\ v < 2^UsedCount(v)
                         /\ v # 0 => UsedCount(v) - 1 \in Nat /\ 2^(UsedCount(v) - 1) <= v
           Right == {v \in Nat : Counted(v)}
<1>1. Counted(0)
  <2>1. UsedCount(0) = 0
    BY UsedCountNext
  <2>2. 2^UsedCount(0) = 1
    BY <2>1, PowerZero
  <2> QED BY <2>1, <2>2
<1>2. ASSUME NEW v \in Nat, v # 0, Counted(v \div 2) PROVE Counted(v)
  <2>1. PICK q \in Nat : q = v \div 2 /\ (v = 2 * q \/ v = 2 * q + 1)
    <3>1. v \div 2 \in Nat /\ (v = 2 * (v \div 2) \/ v = 2 * (v \div 2) + 1)
      OBVIOUS
    <3> QED BY <3>1
  <2>2. PICK k \in Nat : k = UsedCount(q)
    BY <1>2, <2>1
  <2>3. UsedCount(v) = k + 1
    BY <1>2, <2>1, <2>2, UsedCountNext
  <2>4. PICK a \in Nat \ {0} : a = 2^k /\ 2^(k + 1) = 2 * a
    BY PowerNext
  <2>5. q < a
    BY <1>2, <2>1, <2>2, <2>4
  <2>6. v < 2 * a
    BY <2>1, <2>5
  <2>7. a <= v
    <3>1. CASE q = 0
      <4>1. k = 0
        BY <2>2, <3>1, UsedCountNext
      <4> QED BY <1>2, <2>4, <4>1, PowerZero
    <3>2. CASE q # 0
      <4>1. k - 1 \in Nat /\ 2^(k - 1) <= q
        BY <1>2, <2>1, <2>2, <3>2
      <4>2. PICK b \in Nat : b = 2^(k - 1) /\ 2^((k - 1) + 1) = 2 * b
        BY <4>1, PowerNext
      <4>3. (k - 1) + 1 = k
        OBVIOUS
      <4>4. a = 2 * b /\ b <= q
        BY <2>4, <4>1, <4>2, <4>3
      <4> QED BY <2>1, <4>4
    <3> QED BY <3>1, <3>2
  <2>8. UsedCount(v) - 1 = k /\ UsedCount(v) \in Nat
    BY <2>3
  <2> QED BY <2>3, <2>4, <2>6, <2>7, <2>8
<1>3. ASSUME NEW v \in 0..(2 - 1) PROVE v \in Right
  <2>1. v = 0 \/ v = 1
    OBVIOUS
  <2>2. 1 \div 2 = 0
    OBVIOUS
  <2> HIDE DEF Counted
  <2>3. Counted(1)
    BY <1>1, <1>2, <2>2
  <2> QED BY <1>1, <2>1, <2>3
<1>4. ASSUME NEW v \in Nat, v >= 2, v \div 2 \in Right PROVE v \in Right
  <2>1. Counted(v \div 2)
    <3> HIDE DEF Counted
    <3> QED BY <1>4
  <2> HIDE DEF Counted
  <2> QED BY <1>2, <1>4, <2>1
<1> HIDE DEF Right
<1>5. Nat \subseteq Right
  <2>1. 2 \in Nat \ {0, 1}
    OBVIOUS
  <2> QED BY <1>3, <1>4, <2>1, EveryQuotient, Zenon
<1>6. Counted(u)
  <2> HIDE DEF Counted
  <2> QED BY <1>5 DEF Right
<1> QED BY <1>6

\* No other number of bits does.
LEMMA UsedCountUnique ==
  ASSUME NEW u \in Nat, NEW k \in Nat, u < 2^(k + 1), 2^k <= u
  PROVE  UsedCount(u) = k + 1
<1>1. u # 0
  BY PowerType
<1>2. PICK n \in Nat : n = UsedCount(u) /\ n - 1 \in Nat
  BY <1>1, UsedCountFacts
<1>3. u < 2^n /\ 2^(n - 1) <= u
  BY <1>1, <1>2, UsedCountFacts
<1>4. /\ 2^n \in Nat /\ 2^(n - 1) \in Nat
      /\ 2^k \in Nat /\ 2^(k + 1) \in Nat
  BY <1>2, PowerType
<1>5. ~(n <= k)
  <2> SUFFICES ASSUME n <= k PROVE FALSE
    OBVIOUS
  <2>1. 2^n <= 2^k
    BY PowerOrder
  <2> QED BY <1>3, <1>4, <2>1
<1>6. ~(k + 1 <= n - 1)
  <2> SUFFICES ASSUME k + 1 <= n - 1 PROVE FALSE
    OBVIOUS
  <2>1. 2^(k + 1) <= 2^(n - 1)
    BY <1>2, PowerOrder
  <2> QED BY <1>3, <1>4, <2>1
<1> QED BY <1>2, <1>5, <1>6
-------------------------------------------------------------------------------
(* The bytes of a number.                                                   *)

\* A byte has a mark and at least one bit beside it.
LEMMA ContinueFacts ==
  /\ GroupBits \in Nat \ {0}
  /\ Continue \in Nat \ {0, 1} /\ Continue = 2^GroupBits
  /\ 2^ByteBits = 2 * Continue
<1>1. GroupBits \in Nat \ {0} /\ GroupBits + 1 = ByteBits
  BY ByteAssumption DEF GroupBits
<1>2. 2 * 2^0 <= 2^GroupBits
  <2>1. 0 \in Nat /\ GroupBits \in Nat /\ 0 < GroupBits
    BY <1>1
  <2> QED BY <2>1, PowerStrict, Zenon
<1>3. 2^GroupBits \in Nat /\ 2^(GroupBits + 1) = 2 * 2^GroupBits
  BY <1>1, PowerNext
<1>4. 2^GroupBits >= 2
  BY <1>2, <1>3, PowerZero
<1> QED BY <1>1, <1>3, <1>4 DEF Continue

\* The bytes, one group of bits less.
LEMMA ValueBytesNext ==
  ASSUME NEW u \in Nat
  PROVE  /\ ValueBytes(u) = IF u < Continue THEN <<u>>
                            ELSE <<Continue + (u % Continue)>> \o ValueBytes(u \div Continue)
         /\ ValueBytes(u) \in Seq(Nat)
<1> DEFINE IsBytes(f) ==
             f = [v \in Nat |->
                    IF v < Continue THEN <<v>>
                    ELSE <<Continue + (v % Continue)>> \o f[v \div Continue]]
           bytes == CHOOSE f : IsBytes(f)
           base == [v \in Nat |-> <<v>>]
           next == [p \in Nat \X Seq(Nat) |-> <<Continue + (p[1] % Continue)>> \o p[2]]
<1>1. Continue \in Nat \ {0, 1}
  BY ContinueFacts
<1>2. base \in [Nat -> Seq(Nat)] /\ next \in [Nat \X Seq(Nat) -> Seq(Nat)]
  <2>1. \A p \in Nat \X Seq(Nat) : Continue + (p[1] % Continue) \in Nat
    BY <1>1
  <2> QED BY <2>1
<1>3. PICK f \in [Nat -> Seq(Nat)] : ByQuotient(f, Continue, base, next)
  <2> HIDE DEF base, next
  <2> QED BY <1>1, <1>2, QuotientRecursion
<1>4. ASSUME NEW v \in Nat
      PROVE  f[v] = IF v < Continue THEN <<v>>
                    ELSE <<Continue + (v % Continue)>> \o f[v \div Continue]
  <2>1. f[v] = IF v < Continue THEN base[v] ELSE next[<<v, f[v \div Continue]>>]
    <3> HIDE DEF base, next
    <3> QED BY <1>3 DEF ByQuotient
  <2>2. v \div Continue \in Nat
    BY <1>1
  <2>3. <<v, f[v \div Continue]>> \in Nat \X Seq(Nat)
    BY <2>2
  <2>4. next[<<v, f[v \div Continue]>>] = <<Continue + (v % Continue)>> \o f[v \div Continue]
    BY <2>3
  <2>5. base[v] = <<v>>
    OBVIOUS
  <2> HIDE DEF next, base
  <2> QED BY <2>1, <2>4, <2>5
<1>5. IsBytes(f)
  <2>1. f = [v \in Nat |-> f[v]]
    OBVIOUS
  <2> QED BY <1>4, <2>1
<1>6. IsBytes(bytes)
  <2> HIDE DEF IsBytes
  <2> QED BY <1>5
<1>7. \A v : ValueBytes(v) = bytes[v]
  BY DEF ValueBytes
<1>8. ASSUME NEW v \in Nat
      PROVE  bytes[v] = IF v < Continue THEN <<v>>
                        ELSE <<Continue + (v % Continue)>> \o bytes[v \div Continue]
  <2> HIDE DEF bytes
  <2> QED BY <1>6
<1> HIDE DEF bytes
<1> DEFINE Typed == {v \in Nat : bytes[v] \in Seq(Nat)}
<1>9. ASSUME NEW v \in 0..(Continue - 1) PROVE v \in Typed
  <2>1. v \in Nat /\ v < Continue
    BY <1>1
  <2>2. bytes[v] = <<v>>
    BY <1>8, <2>1
  <2>3. <<v>> \in Seq(Nat)
    BY <2>1
  <2>4. bytes[v] \in Seq(Nat)
    BY <2>2, <2>3
  <2> QED BY <2>1, <2>4
<1>10. ASSUME NEW v \in Nat, v >= Continue, v \div Continue \in Typed PROVE v \in Typed
  <2>1. bytes[v] = <<Continue + (v % Continue)>> \o bytes[v \div Continue]
    <3>1. ~(v < Continue)
      BY <1>1, <1>10
    <3> QED BY <1>8, <3>1
  <2>2. Continue + (v % Continue) \in Nat
    BY <1>1
  <2>3. bytes[v \div Continue] \in Seq(Nat)
    BY <1>10
  <2>4. bytes[v] \in Seq(Nat)
    BY <2>1, <2>2, <2>3
  <2> QED BY <2>4
<1> HIDE DEF Typed
<1>11. Nat \subseteq Typed
  BY <1>1, <1>9, <1>10, EveryQuotient
<1>12. bytes[u] \in Seq(Nat)
  BY <1>11 DEF Typed
<1> QED BY <1>7, <1>8, <1>12

\* A number takes as many bytes as value_space() says; all but the last are marked.
LEMMA ValueBytesShape ==
  ASSUME NEW u \in Nat
  PROVE  /\ Len(ValueBytes(u)) \in Nat \ {0}
         /\ \A k \in 1..(Len(ValueBytes(u)) - 1) :
              ValueBytes(u)[k] \in Continue..(2 * Continue - 1)
         /\ ValueBytes(u)[Len(ValueBytes(u))] \in 0..(Continue - 1)
<1> DEFINE Shaped(v) ==
             /\ Len(ValueBytes(v)) \in Nat \ {0}
             /\ \A k \in 1..(Len(ValueBytes(v)) - 1) :
                  ValueBytes(v)[k] \in Continue..(2 * Continue - 1)
             /\ ValueBytes(v)[Len(ValueBytes(v))] \in 0..(Continue - 1)
           Right == {v \in Nat : Shaped(v)}
<1>1. Continue \in Nat \ {0, 1}
  BY ContinueFacts
<1>2. ASSUME NEW v \in 0..(Continue - 1) PROVE v \in Right
  <2>1. v \in Nat /\ v < Continue
    BY <1>1
  <2>2. ValueBytes(v) = <<v>>
    BY <2>1, ValueBytesNext
  <2>3. Len(ValueBytes(v)) = 1 /\ ValueBytes(v)[1] = v
    BY <2>2
  <2>4. 1..(1 - 1) = {} /\ v \in 0..(Continue - 1)
    OBVIOUS
  <2> HIDE DEF Right
  <2>5. Shaped(v)
    BY <2>3, <2>4
  <2> HIDE DEF Shaped
  <2> QED BY <2>1, <2>5 DEF Right
<1>3. ASSUME NEW v \in Nat, v >= Continue, v \div Continue \in Right PROVE v \in Right
  <2> DEFINE tail == ValueBytes(v \div Continue)
             byte == Continue + (v % Continue)
  <2>1. ValueBytes(v) = <<byte>> \o tail
    <3>1. ~(v < Continue)
      BY <1>1, <1>3
    <3> QED BY <3>1, ValueBytesNext
  <2>2. v \div Continue \in Nat /\ Shaped(v \div Continue)
    BY <1>3
  <2>3. tail \in Seq(Nat)
    BY <2>2, ValueBytesNext
  <2>4. byte \in Nat /\ byte \in Continue..(2 * Continue - 1)
    BY <1>1
  <2>5. PICK n \in Nat \ {0} : n = Len(tail)
    BY <2>2
  <2>6. /\ \A k \in 1..(n - 1) : tail[k] \in Continue..(2 * Continue - 1)
        /\ tail[n] \in 0..(Continue - 1)
    BY <2>2, <2>5
  <2> HIDE DEF tail, byte
  <2>7. Len(ValueBytes(v)) = n + 1
    BY <2>1, <2>3, <2>4, <2>5
  <2>8. ValueBytes(v)[1] = byte /\ \A k \in 1..n : ValueBytes(v)[k + 1] = tail[k]
    BY <2>1, <2>3, <2>4, <2>5
  <2>9. ASSUME NEW k \in 1..n PROVE ValueBytes(v)[k] \in Continue..(2 * Continue - 1)
    <3>1. CASE k = 1
      BY <2>4, <2>8, <3>1
    <3>2. CASE k # 1
      <4>1. k - 1 \in 1..(n - 1) /\ k - 1 \in 1..n /\ (k - 1) + 1 = k
        BY <3>2
      <4> QED BY <2>6, <2>8, <4>1
    <3> QED BY <3>1, <3>2
  <2>10. ValueBytes(v)[n + 1] \in 0..(Continue - 1)
    BY <2>6, <2>8
  <2>11. (n + 1) - 1 = n
    OBVIOUS
  <2> QED BY <2>7, <2>9, <2>10, <2>11
<1> HIDE DEF Right
<1>4. Nat \subseteq Right
  BY <1>1, <1>2, <1>3, EveryQuotient
<1> QED BY <1>4 DEF Right
\* value_space() and nbits_space().
LEMMA ValueBytesSpace ==
  ASSUME NEW u \in Nat
  PROVE  Len(ValueBytes(u)) = ValueSpace(u)
<1> DEFINE Right == {v \in Nat : Len(ValueBytes(v)) = ValueSpace(v)}
<1>1. PICK g \in Nat \ {0}, c \in Nat \ {0, 1} :
        g = GroupBits /\ c = Continue /\ c = 2^g
  BY ContinueFacts
<1>2. \A n : NbitsSpace(n) = (n + g - 1) \div g
  BY <1>1 DEF NbitsSpace
<1>3. ASSUME NEW v \in 0..(c - 1) PROVE v \in Right
  <2>1. v \in Nat /\ v < c
    OBVIOUS
  <2>2. Len(ValueBytes(v)) = 1
    <3>1. ValueBytes(v) = <<v>>
      BY <1>1, <2>1, ValueBytesNext
    <3> QED BY <3>1
  <2>3. CASE v = 0
    BY <2>2, <2>3 DEF ValueSpace
  <2>4. CASE v # 0
    <3>1. PICK n \in Nat \ {0} : n = UsedCount(v) /\ n - 1 \in Nat /\ 2^(n - 1) <= v
      BY <2>1, <2>4, UsedCountFacts
    <3>2. n <= g
      <4> SUFFICES ASSUME g <= n - 1 PROVE FALSE
        OBVIOUS
      <4>1. 2^g <= 2^(n - 1)
        BY <3>1, PowerOrder
      <4> QED BY <1>1, <2>1, <3>1, <4>1, PowerType
    <3>3. (n + g - 1) \div g = 1
      <4>1. n - 1 \in 0..(g - 1) /\ n + g - 1 = 1 * g + (n - 1)
        BY <3>2
      <4> QED BY <4>1, DivisionUnique
    <3> QED BY <1>2, <2>1, <2>2, <2>4, <3>1, <3>3 DEF ValueSpace
  <2> QED BY <2>3, <2>4
<1>4. ASSUME NEW v \in Nat, v >= c, v \div c \in Right PROVE v \in Right
  <2>1. PICK q \in Nat, r \in 0..(c - 1) : q = v \div c /\ r = v % c /\ v = q * c + r
    BY Division
  <2>2. q # 0
    BY <1>4, <2>1
  <2>3. Len(ValueBytes(v)) = 1 + Len(ValueBytes(q))
    <3>1. ~(v < c)
      BY <1>4
    <3>2. ValueBytes(v) = <<c + r>> \o ValueBytes(q)
      BY <1>1, <2>1, <3>1, ValueBytesNext
    <3>3. ValueBytes(q) \in Seq(Nat)
      BY ValueBytesNext
    <3>4. c + r \in Nat
      OBVIOUS
    <3> QED BY <3>2, <3>3, <3>4
  <2>4. PICK n \in Nat : UsedCount(q) = n + 1 /\ 2^n <= q /\ q < 2^(n + 1)
    <3>1. UsedCount(q) \in Nat /\ UsedCount(q) - 1 \in Nat
      BY <2>2, UsedCountFacts
    <3>2. PICK n \in Nat : n = UsedCount(q) - 1
      BY <3>1
    <3>3. UsedCount(q) = n + 1
      BY <3>1, <3>2
    <3> QED BY <2>2, <3>2, <3>3, UsedCountFacts
  <2>5. UsedCount(v) = (n + g) + 1
    <3>1. 2^(n + g) = 2^n * c /\ 2^((n + 1) + g) = 2^(n + 1) * c
      BY <1>1, PowerSum
    <3>2. PICK a \in Nat, b \in Nat : a = 2^n /\ b = 2^(n + 1)
      BY PowerType
    <3>3. a * c <= v
      <4>1. a * c <= q * c
        BY <2>4, <3>2, ProductOrder
      <4> QED BY <2>1, <4>1
    <3>4. v < b * c
      <4>1. q * c + c <= b * c
        BY <2>4, <3>2, RowsApart
      <4> QED BY <2>1, <4>1
    <3>5. n + g \in Nat /\ (n + 1) + g = (n + g) + 1
      OBVIOUS
    <3> QED BY <3>1, <3>2, <3>3, <3>4, <3>5, UsedCountUnique
  <2>6. ((n + g) + 1 + g - 1) \div g = 1 + ((n + 1 + g - 1) \div g)
    <3>1. PICK k \in Nat, j \in 0..(g - 1) :
            k = (n + g) \div g /\ n + g = k * g + j
      BY Division
    <3>2. (n + g) + g = (k + 1) * g + j
      BY <3>1, ProductNext
    <3>3. ((k + 1) * g + j) \div g = k + 1
      BY DivisionUnique
    <3>4. (n + g) + 1 + g - 1 = (n + g) + g /\ n + 1 + g - 1 = n + g
      OBVIOUS
    <3> QED BY <3>1, <3>2, <3>3, <3>4
  <2>7. ValueSpace(v) = 1 + ValueSpace(q)
    <3>1. v # 0
      BY <1>4
    <3> QED BY <1>2, <2>2, <2>4, <2>5, <2>6, <3>1 DEF ValueSpace
  <2>8. Len(ValueBytes(q)) = ValueSpace(q)
    BY <1>4, <2>1
  <2> HIDE DEF Right
  <2>9. Len(ValueBytes(v)) = ValueSpace(v)
    BY <2>3, <2>7, <2>8
  <2> QED BY <2>9 DEF Right
<1> HIDE DEF Right
<1>5. Nat \subseteq Right
  BY <1>3, <1>4, EveryQuotient
<1> QED BY <1>5 DEF Right
-------------------------------------------------------------------------------
(* Reading.                                                                 *)

\* The bytes of u begin at position `at' of a stream.
HoldsAt(stream, at, u) ==
  \A k \in 1..Len(ValueBytes(u)) : stream[at + k - 1] = ValueBytes(u)[k]

\* f is what is read of the value that ends at `last'.
ReadsTo(f, stream, at, last) ==
  f = [p \in at..last |->
         IF p = last THEN stream[p]
         ELSE (stream[p] - Continue) + Continue * f[p + 1]]

\* Behind the first byte of a number are the bytes of its quotient.
LEMMA HoldsQuotient ==
  ASSUME NEW u \in Nat, u >= Continue, NEW stream, NEW at \in Nat, HoldsAt(stream, at, u)
  PROVE  /\ stream[at] = Continue + (u % Continue)
         /\ HoldsAt(stream, at + 1, u \div Continue)
         /\ Len(ValueBytes(u)) = 1 + Len(ValueBytes(u \div Continue))
<1>1. PICK c \in Nat \ {0, 1} : c = Continue
  BY ContinueFacts
<1>2. PICK q \in Nat, r \in 0..(c - 1) : q = u \div c /\ r = u % c
  BY Division
<1>3. PICK byte \in Nat : byte = c + r
  <2>1. c + r \in Nat
    OBVIOUS
  <2> QED BY <2>1
<1>4. ValueBytes(u) = <<byte>> \o ValueBytes(q)
  <2>1. ~(u < c)
    BY <1>1
  <2> QED BY <1>1, <1>2, <1>3, <2>1, ValueBytesNext
<1>5. PICK tail \in Seq(Nat), n \in Nat \ {0} : tail = ValueBytes(q) /\ n = Len(tail)
  BY ValueBytesNext, ValueBytesShape
<1>6. Len(<<byte>> \o tail) = n + 1 /\ (<<byte>> \o tail)[1] = byte
  BY <1>5
<1>7. \A k \in 1..n : (<<byte>> \o tail)[k + 1] = tail[k]
  BY <1>5
<1>8. stream[at] = byte
  <2>1. 1 \in 1..(n + 1) /\ at + 1 - 1 = at
    OBVIOUS
  <2> QED BY <1>4, <1>5, <1>6, <2>1 DEF HoldsAt
<1>9. ASSUME NEW k \in 1..n PROVE stream[(at + 1) + k - 1] = tail[k]
  <2>1. k + 1 \in 1..(n + 1) /\ at + (k + 1) - 1 = (at + 1) + k - 1
    OBVIOUS
  <2>2. stream[at + (k + 1) - 1] = (<<byte>> \o tail)[k + 1]
    BY <1>4, <1>5, <1>6, <2>1 DEF HoldsAt
  <2> QED BY <1>7, <2>1, <2>2
<1>10. HoldsAt(stream, at + 1, q)
  BY <1>5, <1>9 DEF HoldsAt
<1> QED BY <1>1, <1>2, <1>3, <1>4, <1>5, <1>6, <1>8, <1>10

\* The bytes of a number, read from the last one, are the number.
LEMMA ReadsBack ==
  ASSUME NEW u \in Nat
  PROVE  \A stream : \A at \in Nat :
           HoldsAt(stream, at, u) =>
             \E f : /\ ReadsTo(f, stream, at, at + Len(ValueBytes(u)) - 1)
                    /\ f[at] = u
<1> DEFINE Back(v) ==
             \A stream : \A at \in Nat :
               HoldsAt(stream, at, v) =>
                 \E f : /\ ReadsTo(f, stream, at, at + Len(ValueBytes(v)) - 1)
                        /\ f[at] = v
           Right == {v \in Nat : Back(v)}
<1>1. PICK c \in Nat \ {0, 1} : c = Continue
  BY ContinueFacts
<1>2. ASSUME NEW v \in 0..(c - 1) PROVE v \in Right
  <2>1. v \in Nat /\ v < c
    OBVIOUS
  <2>2. ValueBytes(v) = <<v>>
    BY <1>1, <2>1, ValueBytesNext
  <2>3. Len(ValueBytes(v)) = 1 /\ ValueBytes(v)[1] = v
    BY <2>2
  <2>4. ASSUME NEW stream, NEW at \in Nat, HoldsAt(stream, at, v)
        PROVE  \E f : /\ ReadsTo(f, stream, at, at + Len(ValueBytes(v)) - 1)
                      /\ f[at] = v
    <3>1. stream[at] = v
      <4>1. 1 \in 1..1 /\ at + 1 - 1 = at
        OBVIOUS
      <4> QED BY <2>3, <2>4, <4>1 DEF HoldsAt
    <3> DEFINE f == [p \in at..at |-> v]
    <3>2. f = [p \in at..at |->
                 IF p = at THEN stream[p] ELSE (stream[p] - Continue) + Continue * f[p + 1]]
      <4>1. \A p \in at..at : p = at
        OBVIOUS
      <4> QED BY <3>1, <4>1
    <3>3. at + Len(ValueBytes(v)) - 1 = at
      BY <2>3
    <3>4. f[at] = v
      OBVIOUS
    <3> HIDE DEF f
    <3>5. ReadsTo(f, stream, at, at)
      BY <3>2 DEF ReadsTo
    <3> QED BY <3>3, <3>4, <3>5
  <2>5. Back(v)
    BY <2>4
  <2> HIDE DEF Back
  <2> QED BY <2>1, <2>5
<1>3. ASSUME NEW v \in Nat, v >= c, v \div c \in Right PROVE v \in Right
  <2>1. PICK q \in Nat, r \in 0..(c - 1) : q = v \div c /\ r = v % c /\ v = q * c + r
    BY Division
  <2>2. ASSUME NEW stream, NEW at \in Nat, HoldsAt(stream, at, v)
        PROVE  \E f : /\ ReadsTo(f, stream, at, at + Len(ValueBytes(v)) - 1)
                      /\ f[at] = v
    <3>1. PICK n \in Nat \ {0} : n = Len(ValueBytes(q))
      BY ValueBytesShape
    <3>2. /\ stream[at] = c + r
          /\ HoldsAt(stream, at + 1, q)
          /\ Len(ValueBytes(v)) = 1 + n
      <4>1. v >= Continue /\ v \div Continue = q /\ v % Continue = r
        BY <1>1, <1>3, <2>1
      <4>2. /\ stream[at] = Continue + (v % Continue)
            /\ HoldsAt(stream, at + 1, v \div Continue)
            /\ Len(ValueBytes(v)) = 1 + Len(ValueBytes(v \div Continue))
        BY <2>2, <4>1, HoldsQuotient
      <4> QED BY <1>1, <3>1, <4>1, <4>2
    <3>3. Back(q)
      <4> HIDE DEF Back
      <4> QED BY <1>3, <2>1
    <3>4. PICK g : ReadsTo(g, stream, at + 1, (at + 1) + n - 1) /\ g[at + 1] = q
      <4>1. at + 1 \in Nat
        OBVIOUS
      <4> QED BY <3>1, <3>2, <3>3, <4>1
    <3>5. PICK last \in Nat : last = at + n /\ last = (at + 1) + n - 1 /\ last = at + (1 + n) - 1
      OBVIOUS
    <3> DEFINE f == [p \in at..last |-> IF p = at THEN v ELSE g[p]]
    <3>6. ASSUME NEW p \in at..last
          PROVE  f[p] = IF p = last THEN stream[p]
                        ELSE (stream[p] - Continue) + Continue * f[p + 1]
      <4>1. CASE p = at
        <5>1. p # last /\ at + 1 \in at..last /\ at + 1 # at
          BY <3>5, <4>1
        <5>2. f[at + 1] = q
          BY <3>4, <5>1
        <5>3. (stream[at] - c) + c * q = v
          <6>1. (c + r) - c = r /\ c * q = q * c
            OBVIOUS
          <6> QED BY <2>1, <3>2, <6>1
        <5>4. f[at] = v
          BY <3>5
        <5> HIDE DEF f
        <5> QED BY <1>1, <4>1, <5>1, <5>2, <5>3, <5>4
      <4>2. CASE p # at
        <5>1. p \in (at + 1)..last
          BY <4>2
        <5>2. g[p] = IF p = last THEN stream[p]
                     ELSE (stream[p] - Continue) + Continue * g[p + 1]
          BY <3>4, <3>5, <5>1 DEF ReadsTo
        <5>3. f[p] = g[p]
          BY <4>2
        <5>4. p # last => f[p + 1] = g[p + 1]
          <6>1. p # last => p + 1 \in at..last /\ p + 1 # at
            BY <3>5, <5>1
          <6> QED BY <6>1
        <5> HIDE DEF f
        <5> QED BY <5>2, <5>3, <5>4
      <4> QED BY <4>1, <4>2
    <3>7. f[at] = v
      BY <3>5
    <3>8. f = [p \in at..last |-> f[p]]
      OBVIOUS
    <3> HIDE DEF f
    <3>9. ReadsTo(f, stream, at, last)
      BY <3>6, <3>8 DEF ReadsTo
    <3> QED BY <3>2, <3>5, <3>7, <3>9
  <2>3. Back(v)
    BY <2>2
  <2> HIDE DEF Back
  <2> QED BY <2>3
<1> HIDE DEF Right
<1>4. Nat \subseteq Right
  BY <1>1, <1>2, <1>3, EveryQuotient
<1>5. Back(u)
  <2> HIDE DEF Back
  <2> QED BY <1>4 DEF Right
<1> QED BY <1>5

\* There is nothing else to read.
LEMMA ReadsOnce ==
  ASSUME NEW stream, NEW at \in Nat, NEW last \in Nat, at <= last,
         NEW f, NEW g, ReadsTo(f, stream, at, last), ReadsTo(g, stream, at, last)
  PROVE  f[at] = g[at]
<1> DEFINE Same == {n \in Nat : last - n >= at => f[last - n] = g[last - n]}
<1>1. 0 \in Same
  <2>1. last - 0 = last /\ last \in at..last
    OBVIOUS
  <2> QED BY <2>1 DEF ReadsTo
<1>2. ASSUME NEW n \in Nat, n \in Same PROVE n + 1 \in Same
  <2> SUFFICES ASSUME last - (n + 1) >= at PROVE f[last - (n + 1)] = g[last - (n + 1)]
    OBVIOUS
  <2>1. PICK p \in at..last : p = last - (n + 1) /\ p + 1 = last - n /\ p # last /\ last - n >= at
    OBVIOUS
  <2>2. f[p + 1] = g[p + 1]
    BY <1>2, <2>1
  <2>3. /\ f[p] = (stream[p] - Continue) + Continue * f[p + 1]
        /\ g[p] = (stream[p] - Continue) + Continue * g[p + 1]
    BY <2>1 DEF ReadsTo
  <2> QED BY <2>1, <2>2, <2>3
<1> HIDE DEF Same
<1>3. last - at \in Same
  <2>1. last - at \in Nat
    OBVIOUS
  <2> QED BY <1>1, <1>2, <2>1, EveryNumber
<1>4. last - (last - at) = at
  OBVIOUS
<1> QED BY <1>3, <1>4 DEF Same

\* value_decode() reads what value_encode() has written, wherever it lies in a stream
\* and whatever follows: the number, and the position behind its bytes.
THEOREM VarintReadsBack ==
  ASSUME NEW u \in Nat, NEW stream \in Seq(Nat), NEW at \in Nat,
         at + Len(ValueBytes(u)) - 1 <= Len(stream),
         \A k \in 1..Len(ValueBytes(u)) : stream[at + k - 1] = ValueBytes(u)[k]
  PROVE  ReadValue(stream, at) = [value |-> u, next |-> at + ValueSpace(u)]
<1> DEFINE IsLast(p) == /\ stream[p] < Continue
                        /\ \A q \in at..(p - 1) : stream[q] >= Continue
           last == CHOOSE p \in at..Len(stream) : IsLast(p)
           value == CHOOSE f : ReadsTo(f, stream, at, last)
<1>1. PICK c \in Nat \ {0, 1}, n \in Nat \ {0} : c = Continue /\ n = Len(ValueBytes(u))
  BY ContinueFacts, ValueBytesShape
<1>2. PICK end \in Nat : end = at + n - 1 /\ end >= at /\ end <= Len(stream)
  <2>1. at + n - 1 \in Nat /\ at + n - 1 >= at
    OBVIOUS
  <2> QED BY <1>1, <2>1
<1>3. ASSUME NEW p \in at..end
      PROVE  stream[p] \in Nat /\ (p = end <=> stream[p] < c)
  <2>1. PICK k \in 1..n : p = at + k - 1 /\ (p = end <=> k = n)
    <3>1. /\ p - at + 1 \in 1..n /\ p = at + (p - at + 1) - 1
          /\ (p = end <=> p - at + 1 = n)
      BY <1>2
    <3> QED BY <3>1
  <2>2. stream[p] = ValueBytes(u)[k]
    BY <1>1, <2>1
  <2>3. CASE k = n
    <3>1. ValueBytes(u)[n] \in 0..(c - 1)
      BY <1>1, ValueBytesShape
    <3> QED BY <2>1, <2>2, <2>3, <3>1
  <2>4. CASE k # n
    <3>1. k \in 1..(n - 1)
      BY <2>4
    <3>2. ValueBytes(u)[k] \in c..(2 * c - 1)
      BY <1>1, <3>1, ValueBytesShape
    <3> QED BY <2>1, <2>2, <2>4, <3>2
  <2> QED BY <2>3, <2>4
<1>4. end \in at..Len(stream) /\ IsLast(end)
  <2>1. end \in at..end /\ \A q \in at..(end - 1) : q \in at..end /\ q # end
    BY <1>2
  <2>2. \A q \in at..(end - 1) : stream[q] >= c
    BY <1>3, <2>1
  <2>3. end \in at..Len(stream)
    BY <1>2
  <2> QED BY <1>1, <1>3, <2>1, <2>2, <2>3
<1>5. last = end
  <2>1. last \in at..Len(stream) /\ IsLast(last)
    <3> HIDE DEF IsLast
    <3> QED BY <1>4
  <2>2. PICK p \in Nat : p = last /\ p >= at
    <3>1. last \in Nat /\ last >= at
      <4>1. last \in at..Len(stream)
        BY <2>1
      <4> HIDE DEF last
      <4> QED BY <4>1
    <3> HIDE DEF last
    <3> QED BY <3>1
  <2>3. IsLast(p)
    BY <2>1, <2>2
  <2> HIDE DEF last
  <2>4. ~(p > end)
    <3> SUFFICES ASSUME p > end PROVE FALSE
      OBVIOUS
    <3>1. end \in at..(p - 1) /\ end \in at..end
      BY <1>2
    <3>2. stream[end] >= c /\ stream[end] < c /\ stream[end] \in Nat
      BY <1>1, <1>3, <2>3, <3>1
    <3> QED BY <3>2
  <2>5. ~(p < end)
    <3> SUFFICES ASSUME p < end PROVE FALSE
      OBVIOUS
    <3>1. p \in at..end
      BY <2>2
    <3> QED BY <1>1, <1>3, <2>3, <3>1
  <2> QED BY <2>2, <2>4, <2>5
<1>6. ReadValue(stream, at) = [value |-> value[at], next |-> last + 1]
  BY DEF ReadValue, ReadsTo
<1> HIDE DEF last
<1>7. PICK f : ReadsTo(f, stream, at, end) /\ f[at] = u
  <2>1. HoldsAt(stream, at, u)
    BY DEF HoldsAt
  <2>2. at + Len(ValueBytes(u)) - 1 = end
    BY <1>1, <1>2
  <2> QED BY <2>1, <2>2, ReadsBack
<1>8. ReadsTo(value, stream, at, end)
  BY <1>5, <1>7
<1> HIDE DEF value
<1>9. value[at] = u
  BY <1>2, <1>7, <1>8, ReadsOnce
<1>10. end + 1 = at + ValueSpace(u)
  <2>1. n = ValueSpace(u)
    BY <1>1, ValueBytesSpace
  <2>2. end + 1 = at + n
    BY <1>2
  <2> QED BY <2>1, <2>2
<1> QED BY <1>5, <1>6, <1>9, <1>10

================================================================================
