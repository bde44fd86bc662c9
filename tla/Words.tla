--------------------------------- MODULE Words ---------------------------------
(***************************************************************************)
(* Machine words as sets: a word, or an integer that goes into one, is the *)
(* set of the positions of its 1 bits.  `|' is \cup, `&' with a mask is    *)
(* \cap, and a shift moves the positions, those that leave the word being  *)
(* lost.                                                                   *)
(***************************************************************************)
EXTENDS Integers, Sequences

CONSTANT WordBits   \* the bits of a uint64_t (64)

ASSUME WordAssumption == WordBits \in Nat \ {0}

Word == 0..(WordBits - 1)

Mask(nbits) == 0..(nbits - 1)

ShiftLeft(w, k) == {b + k : b \in w} \cap Word

ShiftRight(w, k) == {b \in Word : b + k \in w}

================================================================================
