----------------------------- MODULE IntegerStats -----------------------------
(***************************************************************************)
(* integer_stats<T> (integer_stats.h): what select() of integer_codec      *)
(* wants to know of a sequence before it compares the encodings.           *)
(***************************************************************************)
EXTENDS IntegerTraits, SequencesExt

\* std::numeric_limits<T>::min() and max()
LeastOriginal == IF IsSigned THEN -(Modulus \div 2) ELSE 0

GreatestOriginal == LeastOriginal + Modulus - 1

\* What add() leaves of all the values in members that start at the limits.
MinValue(ints) == Min({GreatestOriginal} \cup Range(ints))

MaxValue(ints) == Max({LeastOriginal} \cup Range(ints))

\* The object after its construction.
Stats(ints) ==
  [nvalues |-> Len(ints), min |-> MinValue(ints), max |-> MaxValue(ints)]

\* stat(): the delta of a value to the minimum, as an unsigned_t.
Deltas(stats, ints) == [i \in DOMAIN ints |-> ToUnsigned(ints[i] - stats.min)]

\* build_histogram(): how many deltas have k significant bits.
Histogram(deltas) ==
  LET used == [i \in DOMAIN deltas |-> UsedCount(deltas[i])]
  IN [k \in 0..Width |-> Cardinality({i \in DOMAIN used : used[i] = k})]

================================================================================
