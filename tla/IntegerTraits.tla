----------------------------- MODULE IntegerTraits -----------------------------
(***************************************************************************)
(* The machine integers of the library: the type T of the values, its      *)
(* unsigned counterpart, and the stateless value codecs that map one to    *)
(* the other (integer_traits.h, zigzag.h, origin.h).  Signed subtraction   *)
(* and shifts that leave the range of T wrap, which is what every compiler *)
(* the build accepts makes of them.  size_t is never near its limit: its   *)
(* values are natural numbers.                                             *)
(***************************************************************************)
EXTENDS Integers

CONSTANTS
  Width,     \* integer_traits<T>::nbits
  IsSigned   \* std::is_signed<T>

ASSUME TraitsAssumption == Width \in Nat \ {0} /\ IsSigned \in BOOLEAN

Modulus == 2^Width

Unsigned == 0..(Modulus - 1)

Original ==
  IF IsSigned THEN -(Modulus \div 2)..(Modulus \div 2 - 1) ELSE Unsigned

\* The conversions between T and make_unsigned<T>, from any intermediate value.
ToUnsigned(x) == x % Modulus

ToOriginal(x) ==
  LET u == ToUnsigned(x)
  IN IF IsSigned /\ u >= Modulus \div 2 THEN u - Modulus ELSE u

\* The number of significant bits: promoted_nbits - clz(value), or 0.
UsedCount(u) ==
  LET used[v \in Nat] == IF v = 0 THEN 0 ELSE 1 + used[v \div 2]
  IN used[u]

-------------------------------------------------------------------------------
(* zigzag_codec<T>.  Exclusive or with the sign, which is all zeros or all  *)
(* ones, is the identity or the complement.                                 *)

ZigzagEncode(s) ==
  LET doubled == ToUnsigned(2 * s)
  IN IF s < 0 THEN Modulus - 1 - doubled ELSE doubled

ZigzagDecode(u) ==
  LET half == u \div 2
  IN ToOriginal(IF u % 2 = 1 THEN Modulus - 1 - half ELSE half)

\* value_encode and value_decode: zigzag for the signed types only.
ZigzagIfSigned(v) == IF IsSigned THEN ZigzagEncode(v) ELSE v

\* (mutant of UnzigzagIfSigned) the unsigned types are taken for signed.
UnzigzagAll(u) == ZigzagDecode(u)

UnzigzagIfSigned(u) == IF IsSigned THEN ZigzagDecode(u) ELSE u

-------------------------------------------------------------------------------
(* origin_codec<T>: the difference to a frame of reference.                 *)

OriginEncode(origin, v) == ToUnsigned(v - origin)

OriginDecode(origin, u) == ToOriginal(u + origin)

================================================================================
