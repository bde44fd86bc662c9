----------------------------- MODULE PatchedStream -----------------------------
(***************************************************************************)
(* bitpfr_codec (bitpfr.h) on top of the loops of module PackedStream.     *)
(* Each integer that block_encode takes passes through                     *)
(* parameters::value_encode, which sets aside the high bits of an outlier; *)
(* decode_patch puts them back, one outlier after another.  The origin of  *)
(* offset_codec (offset.h) moves in both loops.                            *)
(*                                                                         *)
(* encode() is given the parameters by reference and hands them to         *)
(* bitpck_codec by value: the offset codec that moves is that of a copy,   *)
(* while the `exceptions' object, to which the parameters refer, is the    *)
(* client's own.                                                           *)
(*                                                                         *)
(* The client keeps one `exceptions' object for all its lists and is held  *)
(* to what makes the object usable, which nothing in the codec enforces:   *)
(* it calls reset() before another list, it encodes more of a list only as *)
(* MayContinue says, and it patches a list when all of it is decoded.      *)
(***************************************************************************)
EXTENDS PackedStream, Bitpfr

CONSTANT MaxSent   \* bound: a list this long is not continued by another call

ASSUME MaxSentAssumption == MaxSent \in Nat

VARIABLES
  kind,      \* the list under way: "none", "plain" when there are no outliers
             \* to collect, "patched", "patching", or "used" when it is done
  nbits,     \* parameters::nbits
  excpts,    \* the exceptions: index, indices, values
  origin,    \* origin_ of the index_codec: that of the parameters which
             \* encode() works on, then that of decode_patch()
  patched,   \* `i' of decode_patch
  sent,      \* the integers encoded with these parameters
  decoded    \* what they were decoded to

client == <<kind, nbits, sent>>
outliers == <<excpts, origin>>
patchVars == <<client, outliers, patched, decoded>>
patchedVars == <<vars, patchVars>>

NoExceptions == [index |-> 0, indices |-> <<>>, values |-> <<>>]

PatchedInit ==
  /\ Init
  /\ kind = "none" /\ nbits = 0
  /\ excpts = NoExceptions /\ origin = 0
  /\ patched = 0
  /\ sent = <<>> /\ decoded = <<>>

-------------------------------------------------------------------------------
(* Encoding.                                                                *)

\* A list for bitpck_codec or bitfor_codec.
BeginPlain(w, list) ==
  /\ kind = "none"
  /\ Begin(w, list)
  /\ kind' = "plain"
  /\ UNCHANGED <<nbits, sent, outliers, patched, decoded>>

\* New parameters, and encode().  A mask as wide as the word cannot be shifted
\* together, and select() chooses none.
BeginPatched(w, list) ==
  /\ kind = "none"
  /\ w < WordBits
  /\ Begin(w, list)
  /\ kind' = "patched" /\ nbits' = w
  /\ origin' = 0
  /\ sent' = list
  /\ UNCHANGED <<excpts, patched, decoded>>

\* encode() of more integers.  The copy of the parameters that the last call has
\* worked on is gone, and with it the origin; the exceptions go on counting.
Continue(list) ==
  /\ Begin(nbits, list)
  /\ sent' = sent \o list
  /\ origin' = 0
  /\ UNCHANGED <<kind, nbits, excpts, patched, decoded>>

\* The contract of the client: it does not call encode() again behind an outlier,
\* when the origin of the new call and that of decode_patch() would not agree.
MayContinue ==
  /\ kind = "patched" /\ pc = "idle"
  /\ Len(sent) < MaxSent
  /\ excpts.indices = <<>>

High(word) == ShiftRight(word, nbits)

\* (mutant of Collect) the index counts the outliers only.
CollectCountOutliers(word) ==
  IF word \ Mask(nbits) # {}
  THEN /\ excpts' = [index   |-> excpts.index + 1,
                     indices |-> Append(excpts.indices, excpts.index - origin),
                     values  |-> Append(excpts.values, High(word))]
       /\ origin' = excpts.index + 1
  ELSE UNCHANGED outliers

\* (mutant of Collect) the origin of the index codec does not move.
CollectSameOrigin(word) ==
  IF word \ Mask(nbits) # {}
  THEN /\ excpts' = [index   |-> excpts.index + 1,
                     indices |-> Append(excpts.indices, excpts.index - origin),
                     values  |-> Append(excpts.values, High(word))]
       /\ UNCHANGED origin
  ELSE /\ excpts' = [excpts EXCEPT !.index = @ + 1]
       /\ UNCHANGED origin

\* (mutant of Collect) the origin is left two positions behind the outlier.
CollectOffsetTwo(word) ==
  IF word \ Mask(nbits) # {}
  THEN /\ excpts' = [index   |-> excpts.index + 1,
                     indices |-> Append(excpts.indices, excpts.index - origin),
                     values  |-> Append(excpts.values, High(word))]
       /\ origin' = excpts.index + 2
  ELSE /\ excpts' = [excpts EXCEPT !.index = @ + 1]
       /\ UNCHANGED origin

\* parameters::value_encode, beside the value it returns.
Collect(word) ==
  IF word \ Mask(nbits) # {}
  THEN /\ excpts' = [index   |-> excpts.index + 1,
                     indices |-> Append(excpts.indices, excpts.index - origin),
                     values  |-> Append(excpts.values, High(word))]
       /\ origin' = excpts.index + 1
  ELSE /\ excpts' = [excpts EXCEPT !.index = @ + 1]
       /\ UNCHANGED origin

Put == PutLow \/ PutMiddle \/ PutHigh

PutPlain == kind = "plain" /\ Put /\ UNCHANGED patchVars

PutPatched ==
  /\ kind = "patched"
  /\ Put
  /\ Collect(NextValue)
  /\ UNCHANGED <<client, patched, decoded>>

\* The steps of the loops that take no integer.
Loop ==
  /\ \/ StartBlock \/ SkipMiddle \/ StoreBlock \/ EncodeReturns
     \/ LoadBlock \/ TakeLow \/ TakeMiddle \/ TakeNoMiddle \/ TakeHigh \/ EndOfBlock
  /\ UNCHANGED patchVars

-------------------------------------------------------------------------------
(* Decoding.                                                                *)

PlainDecoded ==
  /\ kind = "plain"
  /\ DecodeReturns
  /\ kind' = "none"
  /\ UNCHANGED <<nbits, sent, outliers, patched, decoded>>

\* decode_basic() has appended to what dst already held.
BasicDecoded ==
  /\ kind = "patched"
  /\ DecodeReturns
  /\ decoded' = decoded \o result
  /\ UNCHANGED <<client, outliers, patched>>

\* decode_patch() begins with an index_codec of its own.
BeginPatch ==
  /\ kind = "patched" /\ pc = "idle"
  /\ kind' = "patching"
  /\ origin' = 0
  /\ UNCHANGED <<vars, nbits, sent, excpts, patched, decoded>>

\* index_codec.value_decode(params.excpts.indices[i])
PatchIndex == origin + excpts.indices[patched + 1]

\* (mutant of PatchNext) the next index counts from the outlier itself.
PatchNextNoOffset ==
  /\ kind = "patching" /\ patched < Len(excpts.indices)
  /\ decoded' = [decoded EXCEPT ![PatchIndex + 1] =
                   @ \cup ShiftLeft(excpts.values[patched + 1], nbits)]
  /\ origin' = PatchIndex
  /\ patched' = patched + 1
  /\ UNCHANGED <<vars, client, excpts>>

PatchNext ==
  /\ kind = "patching" /\ patched < Len(excpts.indices)
  /\ decoded' = [decoded EXCEPT ![PatchIndex + 1] =
                   @ \cup ShiftLeft(excpts.values[patched + 1], nbits)]
  /\ origin' = PatchIndex + 1
  /\ patched' = patched + 1
  /\ UNCHANGED <<vars, client, excpts>>

PatchReturns ==
  /\ kind = "patching" /\ patched = Len(excpts.indices)
  /\ kind' = "used"
  /\ UNCHANGED <<vars, nbits, sent, outliers, patched, decoded>>

\* (mutant of Reset) the vectors are cleared and the index is not.
ResetVectors ==
  /\ kind = "used"
  /\ kind' = "none" /\ nbits' = 0 /\ sent' = <<>> /\ decoded' = <<>>
  /\ excpts' = [NoExceptions EXCEPT !.index = excpts.index]
  /\ origin' = 0 /\ patched' = 0
  /\ UNCHANGED vars

\* exceptions::reset(), for another list.
Reset ==
  /\ kind = "used"
  /\ kind' = "none" /\ nbits' = 0 /\ sent' = <<>> /\ decoded' = <<>>
  /\ excpts' = NoExceptions
  /\ origin' = 0 /\ patched' = 0
  /\ UNCHANGED vars

PatchedNext ==
  \/ /\ kind = "none"
     /\ \E w \in Widths : \E list \in Lists(w) :
          BeginPlain(w, list) \/ BeginPatched(w, list)
  \/ MayContinue /\ \E list \in Lists(nbits) : Continue(list)
  \/ PutPlain \/ PutPatched \/ Loop
  \/ PlainDecoded \/ BasicDecoded
  \/ BeginPatch \/ PatchNext \/ PatchReturns \/ Reset

PatchedSpec == PatchedInit /\ [][PatchedNext]_patchedVars

-------------------------------------------------------------------------------
(* Properties.                                                              *)

\* The variables have their types: no index, which is a size_t, comes from a
\* subtraction below zero.
PatchedTypeOK ==
  /\ kind \in {"none", "plain", "patched", "patching", "used"}
  /\ nbits \in 0..WordBits
  /\ excpts \in [index : Nat, indices : Seq(Nat), values : Seq(SUBSET Word)]
  /\ Len(excpts.indices) = Len(excpts.values)
  /\ origin \in Nat
  /\ patched \in 0..Len(excpts.indices)
  /\ sent \in Seq(SUBSET Word) /\ decoded \in Seq(SUBSET Word)

\* decode_patch(), which checks no bound, writes only where decode_basic() has
\* written before it, whatever lists the exceptions object has served: as long as
\* the client keeps to MayContinue and resets the object between two lists.
PatchesInside ==
  kind = "patching" /\ patched < Len(excpts.indices) =>
    PatchIndex < Len(decoded)

\* In front of the origin of decode_patch() the integers are whole again, behind
\* it they are cut to the packed bits; in the end they all are what was sent, in one
\* call or in as many as MayContinue allows.
PatchRestores ==
  /\ kind \in {"patched", "patching"} /\ pc = "idle" =>
       /\ Len(decoded) = Len(sent)
       /\ \A i \in DOMAIN sent :
            decoded[i] = IF kind = "patching" /\ i <= origin THEN sent[i]
                         ELSE sent[i] \cap Mask(nbits)
  /\ kind = "used" => decoded = sent

\* The exceptions that the calls of encode() have filled, one integer at a time,
\* are those of the whole list as module Bitpfr describes them: decoded, the indices
\* are the positions of all the outliers, in order, and the values their high bits.
ExceptionsAreAsDescribed ==
  kind \in {"patched", "patching", "used"} /\ pc = "idle" =>
    LET high == [i \in DOMAIN sent |-> High(sent[i])]
        positions == OffsetDecode(excpts.indices)
    IN /\ excpts.index = Len(sent)
       /\ {positions[k] + 1 : k \in DOMAIN positions}
            = {i \in DOMAIN sent : high[i] # {}}
       /\ \A k \in DOMAIN positions : k > 1 => positions[k - 1] < positions[k]
       /\ excpts.indices = OffsetEncode(positions)
       /\ excpts.values = [k \in DOMAIN positions |-> high[positions[k] + 1]]

================================================================================
