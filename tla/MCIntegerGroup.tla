----------------------------- MODULE MCIntegerGroup -----------------------------
(***************************************************************************)
(* Sequences of integers for TLC to encode.  A group of any length is      *)
(* either short, over the values where something changes width or sign, or *)
(* a pattern: n integers that count up modulo `low' from a base, some of   *)
(* them replaced by an outlier.                                            *)
(***************************************************************************)
EXTENDS IntegerGroup

LeastValue == -(2^(Width - 1))

Pattern(n, base, low, outlier, at) ==
  [i \in 1..n |-> ToOriginal(IF i - 1 \in at THEN outlier ELSE base + (i % low))]

Patterns(lengths, bases, lows, outliers, places) ==
  {Pattern(n, base, low, outlier, at) :
     n \in lengths, base \in bases, low \in lows,
     outlier \in outliers, at \in places}

\* Where signs, the widths of varints and the widths of packed integers change.
Corners ==
  {ToOriginal(v) : v \in {LeastValue, -LeastValue - 1, -9, -1, 0, 3, 4, 8}}

SomeOfThem == {ToOriginal(v) : v \in {LeastValue, -1, 4}}

Short == UNION {[1..n -> Corners] : n \in 0..3}

\* A byte of 4 bits and a word of 8: blocks of 16 bits.
SmallInputs ==
  Short
    \cup Patterns({5, 12, 16, 17}, {LeastValue, -3, 0, 100}, {1, 2, 5, 20},
                  {-LeastValue - 1, 20}, {{}, {0}, {2, 3}, {4, 15}})
    \cup Patterns({24, 33}, {LeastValue, 0}, {2, 4}, {-LeastValue - 1},
                  {{}, {0, 23}, 4..9, {p \in 0..23 : p % 3 = 0}})

\* Bytes of 8 bits and words of 64: as many integers as a group of the array has.
WholeGroups ==
  Patterns({255, 256}, {LeastValue, 0, 1000}, {1, 2, 100, 256},
           {-LeastValue - 1}, {{}, {0}, {7, 8, 200}, 100..120})

LargeInputs == Short \cup WholeGroups

SomeJunk == {0, 2^ByteBits - 1}

================================================================================
