# Oroch in TLA+

Oroch is a header-only C++17 library that keeps integers in compressed form.
This directory holds TLA+ models of it, TLC runs that check them on small
instances, and TLAPS proofs. `src/oroch` in what follows is the library's source
directory; a line is cited as `file:line`.

## 1. Inventory

Everything runs on the caller's thread: the library starts no thread, takes no
lock, opens no file. What is hard in it is arithmetic at the limits of words and
types, memory whose size is predicted by one function and filled by another,
objects that are used again without being cleared, and an operation (`insert`)
that an exception may leave half done.

| part | source | state | operations | interacts with |
|---|---|---|---|---|
| `integer_array<T>` | `integer_array.h:150-259` | `groups_`, a vector of packed groups; `tail_`, a vector of plain integers | `size`, `at`, `find`, `insert`, `clear` | owns groups; decodes, changes and encodes them again |
| `array_integer_group<T>` | `integer_array.h:46-145` | that of `integer_group` | `encode`, `decode`, `[]`, `find` of exactly 256 integers | reads metadata on its own in `find` |
| `integer_group<T>` | `integer_group.h` | `data_`, one allocation: metadata, padding, data | `encode`, `decode` | `integer_codec`, `encoding_metadata` |
| `integer_codec<T>` | `integer_codec.h:226-610` | none | `select`, `encode`, `decode` | statistics, metadata, all sequence codecs |
| `encoding_metadata<T>` | `integer_codec.h:58-215` | encoding, predicted sizes, origin, widths, number of outliers | `encode`, `decode`, `clear`, `metaspace`, `dataspace` | `varint_codec` |
| `integer_stats<T>` | `integer_stats.h` | count, minimum, maximum, histogram of bit lengths | constructor, `build_histogram` | read by `select` |
| `bitpck_codec` | `bitpck.h` | two 64-bit words during a call | `block_encode/decode/fetch`, `encode`, `decode`, `fetch`, `space` | a value codec |
| `bitfor_codec` | `bitfor.h` | none | the same behind an origin | `bitpck_codec`, `origin_codec` |
| `bitpfr_codec`, `offset_codec` | `bitpfr.h`, `offset.h` | outliers found so far, how many integers have passed, running origin of their positions | `encode`, `decode_basic`, `decode_patch`, `reset` of the exceptions | `bitpck_codec`, which calls it back for each integer; `origin_codec` |
| `varint_codec` | `varint.h` | the value, its place and the two pointers during a call | sizes, `value_encode`, `value_decode`, sequences | a value codec |
| `zigzag_codec`, `origin_codec` | `zigzag.h`, `origin.h` | none | one integer to an unsigned one and back | everything above |
| `normal_codec`, `naught_codec` | `normal.h`, `naught.h` | none | integers as they are; a repeated integer | `integer_codec` |
| `integer_traits<T>` | `integer_traits.h` | none | widths, promotion, `usedcount` | everything above |
| output, tests, benchmarks, build | `info`, `group_info`, `operator<<`, `tests/`, `m4/`, `configure.ac` | none of interest | | |

What makes each part correct:

* the array is a sequence: `insert` makes it one longer, `at` and `find` read it,
  however it is spread over groups and tail and whichever allocation fails;
* a group gives back the integers it was given, from its bytes alone;
* `select` predicts the size of what `encode` writes to the byte, and what it
  chooses is no larger than the plain integers;
* metadata that have been used before do no harm;
* the loops of bit-packing neither lose, mix nor leave over a bit for any width
  from 1 to 64 and wherever a block ends;
* an outlier is put back where it was found, although the object that remembers
  it lives longer than the call that finds it;
* the loops of varint end, with the bytes `space` has predicted, whatever the
  type; packed, patched or byte by byte, what a client encodes is what it decodes.

The hazards, each at its line and with the properties that watch it, are listed
in `PROJECT.json`.

## 2. Modules

```
SequenceOps        operations on sequences by 0-based index
IntegerSequence    abstract: what an integer_array promises
IntegerArray       integer_array; implements IntegerSequence
IntegerTraits      types, usedcount, zigzag, origin
IntegerStats       integer_stats
Words              machine words as sets of bit positions
Varint             varint_codec on one integer
VarintStream       varint_codec: encode() and decode() byte by byte
Bitpck             bitpck_codec: a block as a pure function
PackedStream       bitpck_codec: encode() and decode() loop by loop
Bitpfr             outliers of patched bit-packing, as functions
PatchedStream      bitpfr_codec: exceptions, reset() and decode_patch()
IntegerChannel     abstract: what a sequence codec promises
StreamClient       a client of the codecs; implements IntegerChannel
IntegerCodec       select, metadata, bytes of all encodings, fetch
GroupLayout        the memory of a group, and find() in it
IntegerGroup       the life of an integer_group
CodecSession       a client that uses its metadata objects again
MCIntegerArray, MCCompressedArray, MCIntegerGroup, MCCodecSession,
MCStreamClient     instances for TLC

BasicLemmas          products, divisions, powers of two, sums, induction,
                     sequences that follow one another
IntegerArrayProofs   IntegerArray: types, groups without data, what a failure
                     may lose; it implements IntegerSequence; at(), find()
BitpckProofs         shifts, masks and the places of integers in a block
PatchedStreamProofs  PackedStream: the loops of bit-packing;
                     PatchedStream: exceptions and their patch
VarintProofs         IntegerTraits and Varint: one integer there and back
StreamClientProofs   VarintStream: bytes and the integers they hold;
                     StreamClient implements IntegerChannel
IntegerCodecProofs   IntegerCodec: every way of writing a list, metadata,
                     what select() chooses
CodecClientProofs    CodecSession; IntegerGroup; IntegerArray over the
                     real codec
```

`IntegerArray` EXTENDS `SequenceOps` and takes the codec of its groups as
operator constants, with their contract as assumptions (`RoundTrip`,
`FindContract`, `DataAssumption`). `MCIntegerArray` gives it a codec that is
nothing but this contract; `MCCompressedArray` gives it the real one, by way of
`GroupLayout`, which EXTENDS `IntegerCodec`, which EXTENDS `Varint`,
`IntegerStats`, `Bitpck` and `Bitpfr`. That the real codec keeps the contract is
what `IntegerGroup` checks on an instance and `CodecKeepsContract` proves.

`StreamClient` composes the loops: it EXTENDS `PatchedStream`, which EXTENDS
`PackedStream`, and `VarintStream`. `Bitpck`, `Bitpfr` and `Varint` say in closed
form what these loops do, and `IntegerCodec` uses the closed forms; that the two
are the same is what `BlocksAreAsDescribed`, `ExceptionsAreAsDescribed` and
`BytesAreAsDescribed` state; runs check it, and section 4 says what is proved.

### IntegerArray

| model | code |
|---|---|
| `groups`, `tail` | `groups_`, `tail_` |
| `pc`, `array_index`, `group`, `index`, `value` | a running `insert()` and its locals |
| `outcome` | how the last `insert()` ended |
| `InsertRejected`, `InsertAccepted` | `integer_array.h:216-222`, the bounds check |
| `ShiftGroup` | one iteration of the loop, 224-237 |
| `ShiftFails`, `ShiftTears` | the same iteration when an allocation in it throws: before `data_` is replaced, or after (the vectors of outliers of the patched encoding) |
| `ReadUndefined` | an iteration that decodes a group without readable data; the model follows the program no further |
| `InsertTail`, `TailFails` | 239 |
| `Seal`, `SealFails` | 240-244, where `push_back`, the new group's `data_`, or its outliers may fail |
| `Clear` | `clear()` |
| `Size`, `At`, `Find`, `OutOfRange` | the const members, as functions of the state |

`insert` is cut into steps where the code can be left by an exception, not
because anybody could look in between. The constant `Faults` says which
allocations may fail: `shift`, `outliers`, `tail`, `push`, `seal`.

`IntegerSequence` is what a user sees: `seq`, an insertion in progress, and the
outcome. A failing call may lose one element, none of them in front of the
insertion point: `LogicalContents`, the refinement mapping, puts the value that a
running call carries back where it goes, and when the call fails that value is
the one element that is lost.

### The codec

A value of type T is an integer, an `unsigned_t` a natural number below
`2^Width`, a byte a number below `2^ByteBits`, a buffer a sequence of bytes, and a
pointer into it a position. `Width`, `IsSigned`, `ByteBits` (8 in the code),
`WordBits` (64) and `Alignment` (8) are constants, so that blocks of 16 bits
show in a sequence of 17 integers what blocks of 128 show in 129. Words of a
block are sets of the positions of their 1 bits.

`Select` is `integer_codec::select` over metadata that may hold an earlier
result: each field that the code does not assign keeps its value. `MetaBytes`,
`ReadMeta`, `DataBytes`, `ReadData` are what `encode` and `decode` write and read.
`FoundIndex` is `array_integer_group::find` with its own offset of the data
(`SearchOffset`) and its own loops over plain integers and varints (`PlainIntegers`,
`VarintIntegers`), `integer_array.h:80-108`.
Signed overflow in `<<` and `-`, undefined or implementation-defined in the
standard's text, wraps, as it does in what the compilers emit here.

### PackedStream

`encode` and `decode` of `bitpck_codec`, one iteration per step: `PutLow`,
`PutMiddle`, `PutHigh` are the three parts of `block_encode`, `StoreBlock` is
`done:`, `TakeLow`, `TakeMiddle`, `TakeHigh` those of `block_decode`, whose two
overloads differ only in the number of integers they are told to take. With
64-bit integers `u >>= nbits` shifts by the width of the word, which is undefined
(`bitpck.h:156`, 188): `Shifted` leaves the result open between the two outcomes a
build can produce.

### PatchedStream

`bitpfr_codec` is not a loop of its own: `bitpck_codec` calls
`parameters::value_encode` for each integer it takes. So `PutPatched` is a step of
`PackedStream` that takes an integer, together with `Collect`, which is
`value_encode`. Words are deltas; the frame of reference does not show.

| model | code |
|---|---|
| `excpts` | the client's `exceptions` object: `index`, `indices`, `values` |
| `origin` | `origin_` of the `offset_codec` in the copy of the parameters that a running `encode` works on; later that of `decode_patch` |
| `nbits` | `parameters::nbits` |
| `sent`, `decoded` | what the client has encoded into `excpts`, and the memory it decodes to |
| `BeginPatched`, `Continue` | calls of `encode` (`bitpfr.h:96`), followed by `decode_basic` |
| `MayContinue` | not in the library: when the client of the model calls `encode` again |
| `BasicDecoded` | the end of `decode_basic`, 109-112 |
| `BeginPatch`, `PatchNext`, `PatchReturns` | `decode_patch`, 115-124, one outlier per step |
| `Reset` | `exceptions::reset`, 50-56, and the client's next list |

`encode` receives its parameters by reference and passes them on by value
(`bitpfr.h:98`, `bitpck.h:232`). Hence the origin starts from zero in every call,
while `exceptions::index` goes on. As long as no outlier has been found the two
agree. Behind an outlier the next position is counted from the wrong place, and
`decode_patch` then writes past the end. The library accepts such a call:
`Continue` is the handler without a condition, and `MayContinue` is a contract that
the client of the model keeps, marked external. What is checked and proved of
patched lists is about lists in one call, or in several of which all but the last
contain no outlier, and about no others. No caller in the repository encodes a list
in several calls, and no comment promises that it works. Within a call the origin
must move with every outlier: the mutant `CollectSameOrigin`, in which it does not,
makes `decode_patch` write outside in the same way.

### VarintStream

`varint_codec` one byte per step, for arrays of several types one behind the
other, as in the sample of the repository's `README.md`.

| model | code |
|---|---|
| `value`, `place` | `value` and `shift` of `value_encode` and `value_decode` |
| `bytes`, `at` | what `dst` has passed, and where `src` is |
| `PutMarked`, `PutLast` | `varint.h:78-82` |
| `TakeOnly`, `TakeFirst`, `TakeNext`, `TakeLast` | a byte in `value_decode`, 85-113: the unrolled iterations and the loop |
| `NextArray` | the end of the loop of `encode` or `decode`, 137 and 145 |
| `Space`, `SpaceOf`, `UsedCount` | `space`, `value_space`, and `usedcount` with the promotion of short types |

An integer is the word that the value codec has made of it. `Piece` keeps the
width of the arithmetic: a shift by the width of the promoted type or more has
no defined result, and then any of two may follow.

### StreamClient

One list or one message at a time (`UseBits`, `UseBytes`). `IntegerChannel` is
what the client relies on: integers that are sent are delivered in order, whole
and once, and all of them in the end. The refinement mapping `Delivered` counts
the integers that `decode` has stored, and for a patched list those in front of
the running origin of `decode_patch`: behind it an outlier may still be cut.

## 3. Runs

| run | question | instance |
|---|---|---|
| `ArrayImplements` | Is the array a sequence (`ImplementsSequence`), and do `find` and `at` read it (`FindsFirst`, `AtReadsContents`)? | groups of 3, two values; inserts begin on arrays of up to 8, or longer if the tail has outgrown a group; `shift`, `tail` and `push` fail |
| `ArrayFaults` | What holds whatever fails: what may a call that throws lose (`FailureIsContained`), do the groups in front of the insertion point stay, is a group without data the last one, does `insert` end? | the same, all five faults |
| `CompressedArray` | The same refinement when every group is the bytes of a real encoding | groups of 3, the values -64, 3 and 256 of 12 bits, bytes of 4 and words of 12 bits, inserts on arrays of up to 7; `shift` and `tail` fail |
| `GroupSigned` | Do `select`, `encode`, `decode`, `find` and `fetch` agree for signed integers? | 8-bit integers, 4-bit bytes, 8-bit words; all sequences up to 3 of 8 corner values, and patterns of 5 to 33 with outliers |
| `GroupUint16` | The same for unsigned integers in the sizes of the code | `uint16_t`, 8-bit bytes, 64-bit words; all sequences up to 3 of the corner values, and patterns of 255 and 256 |
| `CodecSession` | Does a client that keeps its metadata objects ever overflow a buffer or read wrong integers? | a sequence or more for each encoding, in any order, cleared or not |
| `StreamClient` | Are the loops right for every width and type, are the closed forms what they compute, and is the whole a channel of integers (`ImplementsChannel`)? | 64-bit words, all widths from 1 to 64, lists that end in `u`, in the middle, in `v`, and past a block, with few outliers or many, encoded in one call or more; messages of one and two arrays of 8 to 64 bits |
| `ArrayRejectsInRange` | violated: `at` and `insert` throw for positions in range | |
| `ArrayAcceptsSize` | violated: `at(size())` does not throw | |
| `ArrayNullGroup` | violated: a group without elements stays after an exception | |
| `ArrayLongTail` | violated: after `push_back` has thrown, the tail is as long as a group between calls | `push` fails |
| `GroupIndexMinimum` | violated: `select` drops a number of bits with which the group would be smaller than what it selects (`DropsOnlyTooLarge`) | `int16_t` in the sizes of the code, groups of 255 |

Why the bounds are enough. A group of 3 has a first, an inner and a last
position, and an array of 7 or 8 two groups and a tail, so that a value is
carried out of the first group, through the second and into the tail, and the
tail is sealed while there are groups; a third group would repeat the second.
With two groups and two integers in the tail the bounds check admits the indices
0, 1 and 2 of each group: an insert begins at the front, inside and at the end of
the first group, and of the second. `MaxSize` bounds only the start of an insert. In
`CompressedArray` the groups are in all encodings but `bitpfr`, which needs eleven
integers to be the smallest; the theorem `CompressedArrayIsSequence` has no such
limit, nor has the run `GroupSigned`, which chooses all seven for single groups. In
`IntegerGroup` one call of
`encode` is followed (`MaxEncodings = 1`): a call leaves nothing behind but
`data_`, which the next call replaces, so that a second would double the states
and show nothing new. The corner values are those where a sign, a varint's
length or a packed width changes. Patterns have outliers at the first and last
place, adjacent and far apart, and lengths on both sides of a block. All seven
encodings are chosen in the runs of groups and of sessions. In `StreamClient` the
words are those of the code; a list may be continued while it is shorter than
`MaxSent = 2`, which gives second and third calls that begin in `u`, and a list
that is continued may end anywhere. The first outlier is at the front, some are
adjacent and some apart, and every list is followed by any other with the same
`exceptions` object. The integers of the messages are those where the number of
bytes changes for some type, and the widest of each type.

`CHECK_DEADLOCK FALSE` is set in the runs of groups, which end with the last
call they follow, and in `ArrayFaults`, where undefined behaviour ends a run.

Fairness. `WF_vars(InsertStep)` in `IntegerArray` says that a call of `insert`
that has begun goes on: it runs on the caller's thread and waits for nothing. It
is needed for `InsertTerminates` only. In `StreamClient` it is the same for a list
under way (`WF` of a step while `Busy`), and a client that has encoded does decode
in the end (`SF_streamVars(TurnToPatch)`): it could otherwise encode empty lists
for ever, and TLC shows that it would then get nothing back. The part of
`ImplementsChannel` that needs fairness is `Arrives`; an endless loop in
`value_decode` or in `decode` would break it. The other specifications state
safety and have no fairness.

Before an abstraction was trusted, `IntegerCodec` was compared with the compiled
library: for random and patterned sequences of up to 256 `int8_t`, `uint8_t`,
`int16_t` and `uint16_t`, metadata and data were the same bytes.

### Findings

* `integer_array.h:171` and 221: one check serves `at` and `insert` and compares
  the index within a group with the size of the tail, also for groups in front of
  the tail. With an empty tail only the first element of each group can be read;
  and since the same test must let `insert` append, `at` accepts the position past
  the last element.
* `integer_array.h:241-242`: an exception from the first `encode` of a new group
  leaves a null group behind, which the next `find`, `at` or `insert` decodes
  (`ArrayNullGroup`), contrary to the comment on line 257.
* `integer_array.h:240-241`: if `push_back` itself throws, the tail keeps 256
  elements; as it is packed only when it has exactly 256, it is never packed again,
  contrary to the comment on line 255 (`ArrayLongTail`). `TailStaysShort` states when
  that cannot happen.
* `integer_codec.h:325-332`: the lower bound on the memory for outlier indices may
  exceed what they need, and `select` then skips a number of bits that would have
  been better. Of 255 integers of 16 bits, one is 32767 and the others vary in 7
  bits: `select` looks at 7 bits, the bound for the index of the one outlier is 16
  bytes where 1 is needed, and it chooses 258 bytes where patched 7 bits take 248
  (`GroupIndexMinimum`).

A constant sequence is encoded as `naught` without any comparison
(`integer_codec.h:256`), and one `int16_t` of -32768 then takes 4 bytes where the
normal encoding takes 3. No comment says otherwise; `NeverExpands` makes an
exception of constant sequences.

## 4. Proofs

The theorems hold for every value of the constants that the named assumptions
admit: for the array, every set of integers, every size of a group, every codec
that keeps `RoundTrip`, `FindContract` and `DataAssumption`, and the sets of failing
allocations a theorem names; for the codecs, every width of a word, a byte and an
`int`, and any lists and messages of integers that fit their types. The last is
`VarintAssumption`: an integer of an array is a word of the array's type. None
uses `MaxSize` or `MaxSent` but to know that positions are numbers.

Three assumptions bound what the codec's bytes can hold. `WordBits < 2^ByteBits`:
a number of bits is stored in one byte (`integer_codec.h:148`, 181), and is 64 at
most. `Len(Encodings) <= 2^ByteBits`: so is the encoding. `UsedCount(Len(s)) <= WordBits`
for every sequence: its length is a `size_t`, and the index of an outlier is
packed as one. An origin, an outlier count or an integer has no such bound; they
are varints or as wide as their type.

Every argument has the same shape: an inductive invariant (`IInv`, `GInv`, `RInv`,
`PInv`, `QInv`, `VInv`, `SessionInv`, `GroupInv`) holds initially, each action keeps
it, with one step per action, and the last step is propositional temporal logic.

### The array (`IntegerArrayProofs`)

* `TypeCorrect`: `Spec => []TypeOK`. `TypeOK` is not inductive: that `tail` grows
  by an integer at `index`, and that a tail is a buffer when it is sealed, needs
  `PlaceExists` (the place exists; a call at `seal` has a full tail). The bounds
  check that rejects too much is what gives `PlaceExists` in the accepted cases.
* `NullGroupStaysLast` and `GroupsBeforeAreKept`: from `GInv`, which adds that the
  loop has passed the groups in front of the insertion point, and that a tail
  that is about to become a group follows no group without data.
* `TailStaysShort`, for `Faults` without `outliers`, `push` and `seal`: the promise of
  the comment on `tail_` with the failures that break it excluded.
* `FailuresAreContained`, for any `Faults`: what a call may lose. `Remaining` is what
  is left of the contents, with `NoValue` in the places of a group that cannot be
  decoded, and with the value that a running call carries put where it goes next.
  No step changes it, but one that throws: it loses the value carried, and the
  elements of at most one group at or behind the insertion point, whose encoding was
  cut short (`TornIsBlank`); or it pushes a group of `NoValue` in front of a tail that is
  still there (`NullIsBlank`). The steps go through rows: `RowsIn` is what is left of
  each group, `RowsOf` the sequence that rows make with a tail. Products order the
  positions of rows (`RowOf`), so that a row that changes does so only in its own
  range (`RowReplaced`); from that follows that a shift of one row which carries its
  last element changes nothing (`ShiftKeepsRows`), and so on for the other steps. That
  the loss is not in front of the insertion point is `PointPassed`.
* `RefinesSequence`, for `Faults` without `outliers` and `seal`: the array
  implements `IntegerSequence`. `RInv` says that every group can be decoded and that
  the loop has reached or passed the insertion point. Nothing is then missing:
  the refinement mapping sees `Remaining` (`LogicalIsRemaining`), and the lemmas about
  it are used again.
* `AtReads`, for any `Faults`: from `IInv` alone, as the bounds check lets `at` read
  only what exists.
* `FindReads`, for `Faults` without `outliers` and `seal`: from `RInv`, `find` first for
  one group by `FindContract`, then for the first group that has the value.

### Bit-packing (`BitpckProofs`, `PatchedStreamProofs`)

`PInv` says that a block is a row of bits. The bit `b` of the `k`-th integer lies
at place `k * width + b` of the row, the words `u` and `v` are the two halves of it,
and at every point of a loop `u` and `v` hold the part of the row written so far, or
the part still to be read, shifted to where the loop has it. `LoopsTypeCorrect`,
`IntegersFit`, `DecodedInOrder` and `BlocksReadAsWritten` follow, and `BlocksDescribed`:
the closed expressions of `Bitpck`, which the groups use, are what the loops
compute. The lemmas are that shifts and masks of sets of bits compose, and that
two integers have no place in common because `k * width + b` with `b < width`
determines `k` and `b`. The undefined shift by the width of the word is in the
proof as it is in the model, as a choice: no later step depends on it.

### Patched lists (`PatchedStreamProofs`)

`QInv` ties the `exceptions` object to what was sent: there is a list of positions
(`Collected`), increasing and below `index`, that are those of all outliers among the
integers passed; `indices` are the gaps between them, `values` the high bits, and
`origin` is the place behind the last of them, while `decode_patch` runs the place
behind the last one patched. Without the part on `origin` in `kind = "patched"` the
invariant is not inductive, and that part is what breaks when `encode` goes on behind an
outlier: the proof uses `MayContinue` there, and the theorems hold of clients that keep
this contract. From the invariant follow `PatchedTypeCorrect`, `PatchesAreInside`,
`PatchingRestores` and `ExceptionsDescribed`: the indices decode to the positions of all
the outliers, in order, and encode to themselves again.

### One integer (`VarintProofs`)

`ValueCodecsInvert`: zigzag, the origin and the conversion between a type and its
unsigned counterpart give back what they were given, although each wraps. The
argument is that a number is determined by its remainder and the range of the type.
`VarintReadsBack`: `ReadValue` reads each number from the bytes `ValueBytes` makes of
it, at any place of any stream, and has then passed `ValueSpace` bytes. Both are
recursive in the quotient by `Continue`; `QuotientRecursion` shows that such functions
exist, `EveryQuotient` that what is true of a number below the divisor, and of a
number if it is of its quotient, is true of all. `UsedCount` is characterised by the
powers of two on both sides of a number (`UsedCountUnique`).

tlapm has no theory of `2^n`. `BasicLemmas` gets one from the library, where it is
the number of subsets of a set of `n` elements: `PowerNext` splits the subsets by
whether they have the last element, and sums, orders and products of powers follow.
The module also defines the number of a set of bits, as a sum that does not depend on
the order of its terms (`SumsAny`), and shows that its low bits are the remainder and
its high bits the quotient (`NumberSplit`).

### Bytes (`StreamClientProofs`)

`VInv` says where the bytes of each integer of each array begin, and that they are
the pieces of it, the last one without a mark; the reader stands between two of
them. `VarintTypeCorrect`, `BitsAreKept` and `DeliveredInOrder` follow. `SpaceIsMeasured`
compares the places with `space()`: `UsedIs` shows that `usedcount`, which goes
through the promoted type and counts leading zeros, is the number of the highest
bit and one, and the fold of `Space` is a running sum (`SumOfSteps`).
`BytesDescribed` joins the two views: the bytes in `bytes` as numbers are `ValueBytes`
of the number of the word (`WrittenNumbers`, by `NumberSplit`), whose facts are those
of `VarintProofs` with the words' width (`Facts`). `BytesInPlace` is the same without the
bound `small`, which the property has only because TLC's integers have 32 bits.

### The client (`StreamClientProofs`)

The client's specification implies those of the two parts, as one leaves the
other's variables alone (the lemma `CodecsApart`), so that each theorem above holds
for the client (`LoopsOfClient`, `CodecsOfClient`).
`ClientIsChannel` is the safety half of `ImplementsChannel`: `Delivered` grows along
`Message` and nothing else. For a patched list, that what is in front of the
running origin is final comes from `QInv`; for several arrays, what is delivered of
the one under way follows what was delivered of those before it by a lemma on
prefixes of a flattened sequence.

### The codec (`IntegerCodecProofs`)

`IntegerCodec` has no variables: its lemmas are about operators, for all lists and
all metadata. They come in three layers.

A way of writing a list is read back from any place of any stream of bytes, and
takes the space it is said to take: `PackedReadsBack` (on `BlockReadsBack`: the words of
a block as bytes are the row of its bits, and back), `VarintsReadBack` (the reader finds
the ends of integers by their bytes without a mark; they are as many as the
integers), `NormalReadsBack`, and for all basic encodings `BasicReadsBack`.
`VarintSpaceTotal` shows that `VarintSpace`, which counts integers of each size, is the sum
over the integers: the terms are summed in two ways (`TotalTwoWays`).

Metadata are read back by an object that held anything before (`MetaReadsBack`): not
all of it, as old fields stay, but all that data depend on (`SameChoice`).

`select` is proved by what it leaves: `Fits(m, ints, old)` says that the metadata `m`
describe a way in which the integers can be written (widths wide enough, no
integer below the origin, outlier lists that can be packed as the descriptors
have it), and that `dataspace` and `metaspace` are what the bytes take. `old` is the
`metaspace` that the object had before, which the normal encoding keeps: that is
why a used object may predict too much and never too little. Each candidate
(`NormalCandidate` to `VarforCandidate`) has this property, `Compared` keeps it, and so does
every pass over a number of bits (`PatchedStep`), whichever it accepts. What
`PatchedStep` needs is that a histogram counts outliers (`OutlierNumber`), that the bits of
the gaps suffice (`IndexBits`), and that the sum over the histogram is what the high
bits take as varints (`OutlierSpaces`). `Small` is carried along: no candidate replaces a
smaller one. `SelectFits` puts it together; `WrittenMeta`, `WrittenData` and `DataReadsBack` are
what clients use.

### The session, the group and the array (`CodecClientProofs`)

`SessionInv`: after a selection the writer's metadata fit the message; what is
written is their bytes; what is read is the message. The reader's metadata are
any metadata. The types of the metadata alone would not be inductive: that `received`
is the message needs `Fits`, and `ExactWhenCleared` needs that `old` is 0 in a clear
object.

`GroupInv`: the memory is `Laid`, that is, metadata at its beginning, data at the padded
place, both by metadata that fit the integers, and nothing behind. The six invariants of
`IntegerGroup` follow. `GroupFindsFirst` takes the ways of `find` one by one, each from
the offset that `find` works out for itself: the one integer of a `naught` group, its
own loops over plain integers and over varints, a width that cannot hold what is sought
(`TooWideIsAbsent`), the decoded integers. `GroupFetches` reads one integer of a packed
group in place.

`CodecKeepsContract` states the assumptions of `IntegerArray` for the real codec, and
`CompressedArrayIsSequence`, `CompressedArrayFinds` and `CompressedArrayReads` use it:
the proofs of `IntegerArrayProofs` are instantiated with the codec's operators, as the
run `CompressedArray` instantiates the model. Nothing is then assumed of the codec.
`ArrayOfGroups` is all that is asked: the values are integers of the type, a group's
size fits a word, and what stands for missing data is not a sequence of bytes. So from
`insert` down to the bits of a block there is one argument, for every type, width of a
word and size of a group.

### What is not proved

* Liveness: `InsertTerminates`, and `Arrives` in `ImplementsChannel`. Fairness and
  `ENABLED` are beyond the prover.
* The properties that runs find violated.

Theorems about operators as parameters, such as those on induction, cannot be used here.
Where a recursive function had to be computed (`FlattenSeq`, `Space`, `OffsetDecode`,
the passes of `select`, the halves of `VarintBytes`), the set of the numbers for which
it is right contains 0 and the successor of each member, and then is all of `Nat`
(`EveryNumber`), which is a statement about a set. Sums are `MapThenSumSet` over the
values of a function (`SumOf`), which `SumIsTotal` relates to sums that do not depend on
an order. `SelectSeq` has no definition that tlapm can expand; `Bitpfr` and
`IntegerCodec` list a finite set of positions in order instead (`Ordered`), and
`OrderedExists` says what that gives.

## 5. What is not modelled

* `integer_array::operator[]` calls `get`, which no class here has; it cannot be
  instantiated.
* `info`, `group_info` and `operator<<` print.
* `ffs`, `ctz`, `popcount` in `integer_traits.h`, which no codec uses, and the
  specialisations of `integer_builtins`, which differ in the compiler's builtin
  they call.
* A client that decodes with another `aligned` flag than it encoded with, uses an
  `exceptions` object twice without `reset`, or calls `encode` of `bitpfr_codec`
  behind an outlier into the same object (`MayContinue`): no code in the repository
  does.
* The alignment of words in memory. A packed list of outliers that follows a list
  of varints is stored as 64-bit words at any address (`bitpck.h:125`), whatever
  the alignment of the data; x86 does not mind.
* The direct use of a codec with parameters `select` would not choose, for
  example an origin above the minimum.
* Big-endian machines: `normal_codec` and the blocks store what the machine has.
* Tests, benchmarks, the vendored `catch.hpp`, the build files.

## 6. Plan

Done: `IntegerArray` and its abstraction, the codecs below it, their composition,
the loops of bit-packing, of the patch and of varint behind one abstract channel;
the safety of all of these proved, from `insert` to the bits, except where section 4
says otherwise.

1. Model: `select` as the loop it is, with the running number of outliers, if a
   property of its intermediate states turns out to be worth stating.
