------------------------------ MODULE SequenceOps ------------------------------
(***************************************************************************)
(* Operations on sequences by 0-based index, as the code counts.           *)
(***************************************************************************)
EXTENDS Integers, Sequences, FiniteSetsExt

NotFound == -1    \* oroch::not_found

\* The index of the first element of s equal to v.
FirstIndex(s, v) ==
  LET hits == {p \in DOMAIN s : s[p] = v}
  IN IF hits = {} THEN NotFound ELSE Min(hits) - 1

\* s with v inserted before its element of index i.
InsertedAt(s, i, v) ==
  [p \in 1..(Len(s) + 1) |->
     IF p <= i THEN s[p] ELSE IF p = i + 1 THEN v ELSE s[p - 1]]

\* s without its element of index i.
RemovedAt(s, i) ==
  [p \in 1..(Len(s) - 1) |-> IF p <= i THEN s[p] ELSE s[p + 1]]

================================================================================
