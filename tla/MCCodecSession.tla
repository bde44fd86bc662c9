----------------------------- MODULE MCCodecSession -----------------------------
(***************************************************************************)
(* Sequences for a session: with bytes of 4 bits and words of 8, one or    *)
(* more for every encoding, so that each follows each on used metadata.    *)
(***************************************************************************)
EXTENDS CodecSession

\* n integers that count up modulo `low' from a base, but for the outliers.
Pattern(n, base, low, outlier, at) ==
  [i \in 1..n |-> IF i - 1 \in at THEN outlier ELSE base + (i % low)]

MCSent ==
  { <<>>,
    <<-128>>, <<7, 7, 7>>,                \* naught
    <<-128, 127, 5>>,                     \* normal
    <<3, 0, 2>>,                          \* varint
    Pattern(6, 40, 8, 0, {}),             \* varfor
    Pattern(16, -7, 15, 0, {}),           \* bitpck
    Pattern(17, 100, 8, 0, {}),           \* bitfor
    Pattern(16, -128, 2, 127, {3}),       \* bitpfr
    Pattern(17, -128, 2, 127, {0, 10}),
    Pattern(33, -128, 2, 127, 4..11),
    Pattern(24, 0, 2, 20, {p \in 0..23 : p % 3 = 0}) }

================================================================================
