--------------------------- MODULE MCCompressedArray ---------------------------
(***************************************************************************)
(* IntegerArray composed with the codec of its groups: the data of a group *)
(* are the bytes that module GroupLayout gives it.  They are worked out    *)
(* once for each buffer (as EncodedBytes has it, one step after the        *)
(* other), and what decode() and find() read in them is kept beside them.  *)
(***************************************************************************)
EXTENDS IntegerArray, GroupLayout

\* Groups of three of these are in every encoding but the patched one, which takes
\* eleven integers at the least.
Values == {-64, 3, 256}

Selected == [buffer \in Buffer |-> Select(ClearMetadata, buffer)]

Written ==
  [p \in {<<Selected[buffer], buffer>> : buffer \in Buffer} |->
     WrittenBytes(p[1], p[2], TRUE, 0)]

DataOf ==
  [bytes \in Range(Written) |->
     [bytes |-> bytes,
      decoded |-> DecodedInts(bytes, GroupSize, TRUE),
      found |-> [v \in Value |-> FoundIndex(bytes, GroupSize, v)],
      encoding |-> Description(bytes).value_desc.encoding]]

MCEncode(buffer) == DataOf[Written[<<Selected[buffer], buffer>>]]

MCDecode(data) == data.decoded

MCFindIn(data, v) == data.found[v]

MCPatched(data) == data.encoding = "bitpfr"

================================================================================
