----------------------------- MODULE MCStreamClient -----------------------------
(***************************************************************************)
(* Lists of words for every number of bits from 1 to a whole word, and     *)
(* arrays of words for every type.  What the loops of bit-packing do       *)
(* depends on the length of a list, up to a block and into the next one,   *)
(* and hardly on the words: stripes show integers in a wrong place and all *)
(* are outliers, whole words show bits that are not cut off.               *)
(***************************************************************************)
EXTENDS StreamClient

\* Where the loops of a block end: in u, in the middle, in v, past the block.
Lengths(w) ==
  LET c == Capacity(w)
      low == LowCount(w)
  IN {0, 1, low, low + 1, low + 2, c - 1, c, c + 1, 2 * c}

Striped(i) == {b \in Word : (b + i) % 3 = 0 \/ b % (i + 2) = 1}

\* Outliers at the first place, or the last one, or a few places apart.
SomeWhole(w, i) == IF i \in {2, 3} \/ i % 5 = 1 THEN Word ELSE Striped(i) \cap Mask(w)

\* Lists that have no outlier and may be continued.
Fitting(w) == {[i \in 1..len |-> Striped(i) \cap Mask(w)] : len \in 1..2}

MCLists(w) ==
  Fitting(w) \cup
  {[i \in 1..len |-> Striped(i)] : len \in Lengths(w)}
    \cup {[i \in 1..len |-> SomeWhole(w, i)] : len \in Lengths(w)}

AllWidths == 1..WordBits

\* The words of a type where the number of bytes changes, and the widest.
WordsOf(bits) ==
  {Mask(k) : k \in {0, 1, 6, 7, 8, 13, 14, 15, 21, 22, 28, 29} \cap (0..bits)}
    \cup {{k - 1} : k \in {7, 8, 14, 15, 21, 22, 28, 29, 35, 36, 63, 64} \cap (1..bits)}
    \cup {Mask(bits)}

Types == {8, 16, 32, 64}

\* One array of one integer, and two arrays of different types; empty ones, too.
MCMessages ==
  {<<[bits |-> t, ints |-> <<w>>]>> : <<t, w>> \in
     UNION {{t} \X WordsOf(t) : t \in Types}}
    \cup UNION {{<<[bits |-> t, ints |-> <<Mask(t), {}, {t - 1}>>],
                   [bits |-> s, ints |-> <<{0}, Mask(8), {}, Mask(s)>>]>> :
                   t \in Types} : s \in Types}
    \cup {<<>>, <<[bits |-> 8, ints |-> <<>>], [bits |-> 64, ints |-> <<Mask(9)>>]>>}

================================================================================
