---------------------------- MODULE IntegerSequence ----------------------------
(***************************************************************************)
(* What an oroch::integer_array promises to its user, with no groups, no   *)
(* codecs and no memory: a sequence of integers into which a value can be  *)
(* inserted.  Module IntegerArray is shown to implement this module.       *)
(*                                                                         *)
(* A call of insert() is visible as two steps, because it may throw after  *)
(* it has begun to modify the array.  The value is in the sequence from    *)
(* the first step on; if the call fails for lack of memory, it may lose    *)
(* one element, which is never an element before the insertion point.      *)
(***************************************************************************)
EXTENDS SequenceOps

CONSTANT Value    \* the integers stored

NoInsert == -1    \* the value of inserting when no call of insert() is running

VARIABLES
  seq,        \* the contents of the array
  inserting,  \* the insertion point of the running call of insert(), 0-based
  outcome     \* how the last call of insert() ended

seqVars == <<seq, inserting, outcome>>

Outcomes == {"none", "ok", "out_of_range", "bad_alloc"}

-------------------------------------------------------------------------------

Init ==
  /\ seq = <<>>
  /\ inserting = NoInsert
  /\ outcome = "none"

\* insert(i, v) has accepted its position.
BeginInsert(i, v) ==
  /\ inserting = NoInsert
  /\ seq' = InsertedAt(seq, i, v)
  /\ inserting' = i
  /\ UNCHANGED outcome

\* insert() returns.
EndInsert ==
  /\ inserting # NoInsert
  /\ inserting' = NoInsert
  /\ outcome' = "ok"
  /\ UNCHANGED seq

\* insert() throws std::bad_alloc: at most one element is lost, and none
\* that precedes the insertion point.
FailInsert ==
  /\ inserting # NoInsert
  /\ \/ UNCHANGED seq
     \/ \E i \in inserting..(Len(seq) - 1) : seq' = RemovedAt(seq, i)
  /\ inserting' = NoInsert
  /\ outcome' = "bad_alloc"

\* insert() throws std::out_of_range and leaves the array alone.
RejectInsert ==
  /\ inserting = NoInsert
  /\ outcome' = "out_of_range"
  /\ UNCHANGED <<seq, inserting>>

Clear ==
  /\ inserting = NoInsert
  /\ seq' = <<>>
  /\ UNCHANGED <<inserting, outcome>>

Next ==
  \/ \E i \in 0..Len(seq), v \in Value : BeginInsert(i, v)
  \/ EndInsert
  \/ FailInsert
  \/ RejectInsert
  \/ Clear

Spec == Init /\ [][Next]_seqVars

================================================================================
