----------------------------- MODULE MCIntegerArray -----------------------------
(***************************************************************************)
(* IntegerArray with a codec that is nothing but its contract: the data of *)
(* a group are its buffer.  A buffer with the integer Outlier in it is in  *)
(* the patched encoding.                                                   *)
(***************************************************************************)
EXTENDS IntegerArray

CONSTANT Outlier

MCEncode(buffer) == [buffer |-> buffer]

MCDecode(data) == data.buffer

MCFindIn(data, v) == FirstIndex(data.buffer, v)

MCPatched(data) == \E p \in DOMAIN data.buffer : data.buffer[p] = Outlier

\* Failures that leave every group with the data of an encoding.
BenignFaults == {"shift", "tail", "push"}

================================================================================
