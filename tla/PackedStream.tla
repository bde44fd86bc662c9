------------------------------ MODULE PackedStream ------------------------------
(***************************************************************************)
(* encode() and decode() of bitpck_codec (bitpck.h), loop by loop: each    *)
(* step takes or gives one integer, as the bodies of the loops of          *)
(* block_encode and block_decode do.  Module Bitpck says in one expression *)
(* what a whole block is; here it comes out of the variables u, v, shift,  *)
(* m and n of the code.                                                    *)
(*                                                                         *)
(* The client encodes a list of words and decodes as many again.  A word   *)
(* may have more bits than are packed: bitpfr leaves it to the codec to    *)
(* cut them off.                                                           *)
(***************************************************************************)
EXTENDS Bitpck

CONSTANTS
  Widths,      \* the numbers of bits that integers are packed with
  Lists(_)     \* the lists of words to pack with so many bits

ASSUME WidthsAssumption == Widths \subseteq 1..WordBits
ASSUME ListsAssumption == \A w \in Widths : Lists(w) \subseteq Seq(SUBSET Word)

VARIABLES
  pc,          \* "idle", or the loop that runs
  width,       \* nbits
  source,      \* the integers that encode() is given
  taken,       \* how many of them `src' has passed
  u, v,        \* the words of the block under way
  m, n,        \* how many integers are left for u, and for both v and the middle
  shift,       \* where in the word the next integer goes
  stream,      \* the blocks that `dst' of encode() has passed
  loaded,      \* how many of them `src' of decode() has passed
  result       \* the integers that decode() has stored

packing == <<taken, shift, stream>>     \* what only encode() changes
unpacking == <<loaded, result>>         \* what only decode() changes
call == <<width, source>>
vars == <<pc, call, packing, unpacking, u, v, m, n>>

Init ==
  /\ pc = "idle"
  /\ width = 0 /\ source = <<>>
  /\ taken = 0 /\ shift = 0 /\ stream = <<>>
  /\ loaded = 0 /\ result = <<>>
  /\ u = {} /\ v = {} /\ m = 0 /\ n = 0

Begin(w, list) ==
  /\ pc = "idle"
  /\ pc' = "encode"
  /\ width' = w /\ source' = list
  /\ UNCHANGED <<packing, unpacking, u, v, m, n>>

-------------------------------------------------------------------------------
(* encode() and block_encode().                                             *)

AtEnd == taken = Len(source)

\* vcodec.value_encode(*src++)
NextValue == source[taken + 1]

StartBlock ==
  /\ pc = "encode" /\ ~AtEnd
  /\ pc' = "put_low"
  /\ u' = {} /\ v' = {} /\ shift' = 0
  /\ m' = LowCount(width)
  /\ n' = Capacity(width) - LowCount(width)
  /\ UNCHANGED <<call, taken, stream, unpacking>>

PutLow ==
  /\ pc = "put_low" /\ m > 0 /\ ~AtEnd
  /\ u' = u \cup ShiftLeft(NextValue \cap Mask(width), shift)
  /\ shift' = shift + width
  /\ m' = m - 1
  /\ taken' = taken + 1
  /\ UNCHANGED <<pc, call, stream, unpacking, v, n>>

\* The words meet between two integers.
SkipMiddle ==
  /\ pc = "put_low" /\ m = 0 /\ shift = WordBits
  /\ pc' = "put_high"
  /\ shift' = 0
  /\ UNCHANGED <<call, taken, stream, unpacking, u, v, m, n>>

\* (mutant of PutMiddle) the shift of v starts where that of u has ended.
PutMiddleSameShift ==
  /\ pc = "put_low" /\ m = 0 /\ shift # WordBits /\ ~AtEnd
  /\ LET nbits1 == WordBits - shift
         nbits2 == width - nbits1
     IN /\ u' = u \cup ShiftLeft(NextValue \cap Mask(nbits1), shift)
        /\ v' = ShiftRight(NextValue, nbits1) \cap Mask(nbits2)
  /\ n' = n - 1
  /\ taken' = taken + 1
  /\ pc' = "put_high"
  /\ UNCHANGED <<call, shift, stream, unpacking, m>>

PutMiddle ==
  /\ pc = "put_low" /\ m = 0 /\ shift # WordBits /\ ~AtEnd
  /\ LET nbits1 == WordBits - shift
         nbits2 == width - nbits1
     IN /\ u' = u \cup ShiftLeft(NextValue \cap Mask(nbits1), shift)
        /\ v' = v \cup (ShiftRight(NextValue, nbits1) \cap Mask(nbits2))
        /\ shift' = nbits2
  /\ n' = n - 1
  /\ taken' = taken + 1
  /\ pc' = "put_high"
  /\ UNCHANGED <<call, stream, unpacking, m>>

PutHigh ==
  /\ pc = "put_high" /\ n > 0 /\ ~AtEnd
  /\ v' = v \cup ShiftLeft(NextValue \cap Mask(width), shift)
  /\ shift' = shift + width
  /\ n' = n - 1
  /\ taken' = taken + 1
  /\ UNCHANGED <<pc, call, stream, unpacking, u, m>>

\* done: the block is full, or there is nothing left to put into it.
StoreBlock ==
  /\ \/ pc = "put_low" /\ AtEnd /\ (m > 0 \/ shift # WordBits)
     \/ pc = "put_high" /\ (n = 0 \/ AtEnd)
  /\ stream' = Append(stream, [u |-> u, v |-> v])
  /\ pc' = "encode"
  /\ UNCHANGED <<call, taken, shift, unpacking, u, v, m, n>>

-------------------------------------------------------------------------------
(* decode() and block_decode().                                             *)

EncodeReturns ==
  /\ pc = "encode" /\ AtEnd
  /\ pc' = "decode"
  /\ UNCHANGED <<call, packing, unpacking, u, v, m, n>>

Left == Len(source) - Len(result)

\* (mutant of TakenLow) a part of a block is read as if it were whole.
TakenLowAll(left) == LowCount(width)

\* How many of the integers left to decode come from u.
TakenLow(left) == IF LowCount(width) > left THEN left ELSE LowCount(width)

LoadBlock ==
  /\ pc = "decode" /\ Left > 0
  /\ u' = stream[loaded + 1].u /\ v' = stream[loaded + 1].v
  /\ loaded' = loaded + 1
  /\ m' = TakenLow(Left)
  /\ n' = (IF Capacity(width) > Left THEN Left ELSE Capacity(width)) - m'
  /\ pc' = "take_low"
  /\ UNCHANGED <<call, packing, result>>

\* w >> k, for which C++ has no answer when k is the width of the word: the
\* processor may shift not at all or shift everything out.
Shifted(w, k) == IF k = WordBits THEN {w, {}} ELSE {ShiftRight(w, k)}

Store(value) == result' = Append(result, value \cap Mask(width))

TakeLow ==
  /\ pc = "take_low" /\ m > 0
  /\ Store(u)
  /\ u' \in Shifted(u, width)
  /\ m' = m - 1
  /\ UNCHANGED <<pc, call, packing, loaded, v, n>>

\* The integer in the middle has bits in both words.
MiddleInBoth == LowCount(width) * width # WordBits

TakeMiddle ==
  /\ pc = "take_low" /\ m = 0 /\ n > 0 /\ MiddleInBoth
  /\ LET r == WordBits - LowCount(width) * width
     IN /\ Store(u \cup ShiftLeft(v, r))
        /\ v' \in Shifted(v, width - r)
  /\ n' = n - 1
  /\ pc' = "take_high"
  /\ UNCHANGED <<call, packing, loaded, u, m>>

TakeNoMiddle ==
  /\ pc = "take_low" /\ m = 0 /\ (n = 0 \/ ~MiddleInBoth)
  /\ pc' = "take_high"
  /\ UNCHANGED <<call, packing, unpacking, u, v, m, n>>

TakeHigh ==
  /\ pc = "take_high" /\ n > 0
  /\ Store(v)
  /\ v' \in Shifted(v, width)
  /\ n' = n - 1
  /\ UNCHANGED <<pc, call, packing, loaded, u, m>>

EndOfBlock ==
  /\ pc = "take_high" /\ n = 0
  /\ pc' = "decode"
  /\ UNCHANGED <<call, packing, unpacking, u, v, m, n>>

\* Both calls are over and their variables gone.
DecodeReturns ==
  /\ pc = "decode" /\ Left = 0
  /\ pc' = "idle"
  /\ width' = 0 /\ source' = <<>>
  /\ taken' = 0 /\ shift' = 0 /\ stream' = <<>>
  /\ loaded' = 0 /\ result' = <<>>
  /\ u' = {} /\ v' = {} /\ m' = 0 /\ n' = 0

-------------------------------------------------------------------------------

Encoding ==
  StartBlock \/ PutLow \/ SkipMiddle \/ PutMiddle \/ PutHigh \/ StoreBlock
  \/ EncodeReturns

Decoding ==
  LoadBlock \/ TakeLow \/ TakeMiddle \/ TakeNoMiddle \/ TakeHigh \/ EndOfBlock
  \/ DecodeReturns

Next ==
  \/ \E w \in Widths : \E list \in Lists(w) : Begin(w, list)
  \/ Encoding
  \/ Decoding

Spec == Init /\ [][Next]_vars

-------------------------------------------------------------------------------
(* Properties.                                                              *)

\* The variables have their types; m and n never go below zero, where a size_t
\* would become huge and the loop would not end.
TypeOK ==
  /\ width \in Widths \cup {0}
  /\ source \in Seq(SUBSET Word)
  /\ taken \in 0..Len(source)
  /\ u \in SUBSET Word /\ v \in SUBSET Word
  /\ m \in 0..WordBits /\ n \in 0..(2 * WordBits)
  /\ shift \in 0..WordBits
  /\ stream \in Seq([u : SUBSET Word, v : SUBSET Word])
  /\ loaded \in 0..Len(stream)
  /\ result \in Seq(SUBSET Word)

\* A whole integer, or the part of it for this word, fits above the shift: no bit
\* of it is shifted out, and no shift is as wide as the word (block_encode).
FitsInWord ==
  /\ pc = "put_low" /\ m > 0 => shift + width <= WordBits
  /\ pc = "put_low" /\ m = 0 => shift + width > WordBits
  /\ pc = "put_high" /\ n > 0 => shift + width <= WordBits

\* decode() gives the integers back, cut to the packed bits, one after another,
\* whatever the shift of a whole word leaves behind (block_decode).
DecodesInOrder ==
  /\ Len(result) <= Len(source)
  /\ \A i \in DOMAIN result : result[i] = source[i] \cap Mask(width)

\* decode() reads no block that encode() has not written, and as many as space()
\* predicts (bitpck_codec::space).
ReadsWhatWasWritten ==
  /\ loaded <= Len(stream)
  /\ pc = "decode" => Len(stream) = BlockNumber(Len(source), width)
  /\ pc = "decode" /\ Left = 0 => loaded = Len(stream)

\* The integers of a block, the last of which may be short.
Chunk(b) ==
  LET first == (b - 1) * Capacity(width)
  IN SubSeq(source, first + 1,
            IF first + Capacity(width) < Len(source)
            THEN first + Capacity(width) ELSE Len(source))

\* The loops compute the blocks that module Bitpck describes and the rest of the
\* model uses, and its block_decode and fetch read them like the loops do.
BlocksAreAsDescribed ==
  pc = "decode" =>
    /\ \A b \in DOMAIN stream :
         LET chunk == Chunk(b)
         IN /\ stream[b] = BlockEncode(chunk, width)
            /\ BlockDecode(stream[b], Len(chunk), width) =
                 [i \in DOMAIN chunk |-> chunk[i] \cap Mask(width)]
    /\ \A i \in DOMAIN source :
         Fetch(stream, i - 1, width) = source[i] \cap Mask(width)

================================================================================
