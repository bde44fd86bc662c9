------------------------------ MODULE IntegerArray ------------------------------
(***************************************************************************)
(* oroch::integer_array<T> (integer_array.h): a vector `groups` of packed  *)
(* groups of GroupSize integers each, followed by a vector `tail` of plain *)
(* integers.  insert() is modelled one loop iteration per step, because an *)
(* allocation may fail in any of them and the exception leaves the array   *)
(* as the iterations before it left it.                                    *)
(*                                                                         *)
(* The codec of a group is a parameter: Encode(b) is the data_ a group     *)
(* holds after encoding the buffer b, Decode and FindIn read it back, and  *)
(* Patched tells the data that are written in the patched encoding, the    *)
(* only one that allocates while it writes.  The assumptions on them are   *)
(* what module IntegerGroup checks of the real codecs.                     *)
(***************************************************************************)
EXTENDS SequenceOps

CONSTANTS
  Value,        \* the integers stored
  NoValue,      \* the argument of insert() when no call is running
  GroupSize,    \* detail::group_size (256)
  MaxSize,      \* bound: no call of insert() starts on an array this long
  Encode(_), Decode(_), FindIn(_, _), Patched(_),
  NoData,       \* a null data_: the group has never been encoded
  Torn,         \* a data_ whose encoding was cut short by an exception
  Faults        \* the allocations that may fail, a subset of FaultPoints

\* shift: decoding a group or allocating its new data_; outliers: the vectors
\* of outliers, when data_ is already replaced; tail: growing tail_;
\* push: growing groups_; seal: allocating the data_ of the new group.
FaultPoints == {"shift", "outliers", "tail", "push", "seal"}

Buffer == [1..GroupSize -> Value]

ASSUME SizeAssumption == GroupSize \in Nat \ {0} /\ MaxSize \in Nat
ASSUME NoValueAssumption == NoValue \notin Value
ASSUME FaultsAssumption == Faults \subseteq FaultPoints
ASSUME RoundTrip == \A b \in Buffer : Decode(Encode(b)) = b
ASSUME FindContract ==
  \A b \in Buffer, v \in Value : FindIn(Encode(b), v) = FirstIndex(b, v)
ASSUME DataAssumption ==
  /\ \A b \in Buffer : Encode(b) # NoData /\ Encode(b) # Torn
  /\ NoData # Torn

EncodedData == {Encode(b) : b \in Buffer}

VARIABLES
  groups,       \* groups_: the data_ of each packed group
  tail,         \* tail_
  pc,           \* where the running call of insert() is
  array_index,  \* its argument, and below its locals
  group,        \* the group to visit, 0-based
  index,        \* where in that group the value goes, 0-based
  value,        \* the value to put there
  outcome       \* how the last call of insert() ended

locals == <<array_index, group, index, value>>
vars == <<groups, tail, pc, locals, outcome>>

-------------------------------------------------------------------------------
(* Reading.                                                                 *)

Size == Len(groups) * GroupSize + Len(tail)

\* The bounds check that at() and insert() share.
OutOfRange(npos) ==
  npos \div GroupSize > Len(groups) \/ npos % GroupSize > Len(tail)

\* operator[] of a group.
GroupAt(data, i) == Decode(data)[i + 1]

\* (mutant of At) the last group is read for all.
AtInLastGroup(npos) ==
  LET i == npos % GroupSize
  IN IF npos \div GroupSize < Len(groups)
     THEN GroupAt(groups[Len(groups)], i) ELSE tail[i + 1]

\* at(npos), when it does not throw.
At(npos) ==
  LET g == npos \div GroupSize
      i == npos % GroupSize
  IN IF g < Len(groups) THEN GroupAt(groups[g + 1], i) ELSE tail[i + 1]

\* (mutant of Find) the tail, which is plain, is searched before the groups.
FindTailFirst(v) ==
  LET hits == {g \in DOMAIN groups : FindIn(groups[g], v) # NotFound}
      inTail == FirstIndex(tail, v)
  IN IF inTail # NotFound THEN Len(groups) * GroupSize + inTail
     ELSE IF hits # {}
     THEN (Min(hits) - 1) * GroupSize + FindIn(groups[Min(hits)], v)
     ELSE NotFound

Find(v) ==
  LET hits == {g \in DOMAIN groups : FindIn(groups[g], v) # NotFound}
      inTail == FirstIndex(tail, v)
  IN IF hits # {}
     THEN (Min(hits) - 1) * GroupSize + FindIn(groups[Min(hits)], v)
     ELSE IF inTail # NotFound THEN Len(groups) * GroupSize + inTail
     ELSE NotFound

-------------------------------------------------------------------------------
(* insert() and clear().                                                    *)

Init ==
  /\ groups = <<>> /\ tail = <<>>
  /\ pc = "idle"
  /\ array_index = 0 /\ group = 0 /\ index = 0 /\ value = NoValue
  /\ outcome = "none"

\* The call ends: its locals are gone.
Return(how) ==
  /\ pc' = "idle"
  /\ array_index' = 0 /\ group' = 0 /\ index' = 0 /\ value' = NoValue
  /\ outcome' = how

InsertRejected(i) ==
  /\ pc = "idle"
  /\ OutOfRange(i)
  /\ outcome' = "out_of_range"
  /\ UNCHANGED <<groups, tail, pc, locals>>

\* (mutant of InsertAccepted) the loop begins at the first group.
InsertAcceptedAtFirstGroup(i, v) ==
  /\ pc = "idle"
  /\ Size < MaxSize
  /\ ~OutOfRange(i)
  /\ pc' = "shift"
  /\ array_index' = i /\ group' = 0 /\ index' = i % GroupSize /\ value' = v
  /\ UNCHANGED <<groups, tail, outcome>>

InsertAccepted(i, v) ==
  /\ pc = "idle"
  /\ Size < MaxSize
  /\ ~OutOfRange(i)
  /\ pc' = "shift"
  /\ array_index' = i
  /\ group' = i \div GroupSize
  /\ index' = i % GroupSize
  /\ value' = v
  /\ UNCHANGED <<groups, tail, outcome>>

\* (mutant of ShiftedBuffer) copy_backward writes past the end of the buffer.
ShiftedBufferOverrun ==
  LET buffer == Decode(groups[group + 1])
  IN [p \in 1..(GroupSize + 1) |->
        IF p <= index THEN buffer[p]
        ELSE IF p = index + 1 THEN value ELSE buffer[p - 1]]

\* (mutant of ShiftedBuffer) the value is stored without making place for it.
ShiftedBufferNoCopy == [Decode(groups[group + 1]) EXCEPT ![index + 1] = value]

\* The buffer of the visited group after std::copy_backward and the store.
ShiftedBuffer ==
  LET buffer == Decode(groups[group + 1])
  IN [p \in 1..GroupSize |->
        IF p <= index THEN buffer[p]
        ELSE IF p = index + 1 THEN value ELSE buffer[p - 1]]

Visiting(g) == pc = "shift" /\ group = g /\ g < Len(groups)

Readable(data) == data # NoData /\ data # Torn

\* (mutant of ShiftGroup) the index is not reset for the next group.
ShiftGroupSameIndex ==
  /\ Visiting(group)
  /\ Readable(groups[group + 1])
  /\ groups' = [groups EXCEPT ![group + 1] = Encode(ShiftedBuffer)]
  /\ value' = Decode(groups[group + 1])[GroupSize]
  /\ group' = group + 1
  /\ UNCHANGED <<tail, pc, array_index, index, outcome>>

\* (mutant of ShiftGroup) the loop does not go on to the next group.
ShiftGroupAgain ==
  /\ Visiting(group)
  /\ Readable(groups[group + 1])
  /\ groups' = [groups EXCEPT ![group + 1] = Encode(ShiftedBuffer)]
  /\ value' = Decode(groups[group + 1])[GroupSize]
  /\ index' = 0
  /\ UNCHANGED <<group, tail, pc, array_index, outcome>>

\* (mutant of ShiftGroup) the last value is saved when it has been overwritten.
ShiftGroupSavedLate ==
  /\ Visiting(group)
  /\ Readable(groups[group + 1])
  /\ groups' = [groups EXCEPT ![group + 1] = Encode(ShiftedBuffer)]
  /\ value' = ShiftedBuffer[GroupSize]
  /\ group' = group + 1
  /\ index' = 0
  /\ UNCHANGED <<tail, pc, array_index, outcome>>

\* One iteration of the loop: the last value of the group moves on to the next.
ShiftGroup ==
  /\ Visiting(group)
  /\ Readable(groups[group + 1])
  /\ groups' = [groups EXCEPT ![group + 1] = Encode(ShiftedBuffer)]
  /\ value' = Decode(groups[group + 1])[GroupSize]
  /\ group' = group + 1
  /\ index' = 0
  /\ UNCHANGED <<tail, pc, array_index, outcome>>

\* An allocation fails before data_ is replaced.
ShiftFails ==
  /\ "shift" \in Faults
  /\ Visiting(group)
  /\ Readable(groups[group + 1])
  /\ Return("bad_alloc")
  /\ UNCHANGED <<groups, tail>>

\* The vectors of outliers cannot grow while the new data_ is being written.
ShiftTears ==
  /\ "outliers" \in Faults
  /\ Visiting(group)
  /\ Readable(groups[group + 1])
  /\ Patched(Encode(ShiftedBuffer))
  /\ groups' = [groups EXCEPT ![group + 1] = Torn]
  /\ Return("bad_alloc")
  /\ UNCHANGED tail

\* Decoding a null or half-written data_ is undefined behaviour: the program
\* is followed no further.
ReadUndefined ==
  /\ Visiting(group)
  /\ ~Readable(groups[group + 1])
  /\ pc' = "undefined"
  /\ UNCHANGED <<groups, tail, locals, outcome>>

AtTail == pc = "shift" /\ group = Len(groups)

\* (mutant of InsertTail) the tail is found full one integer too late.
InsertTailLate ==
  /\ AtTail
  /\ tail' = InsertedAt(tail, index, value)
  /\ IF Len(tail') > GroupSize
     THEN pc' = "seal" /\ UNCHANGED <<locals, outcome>>
     ELSE Return("ok")
  /\ UNCHANGED groups

InsertTail ==
  /\ AtTail
  /\ tail' = InsertedAt(tail, index, value)
  /\ IF Len(tail') = GroupSize
     THEN pc' = "seal" /\ UNCHANGED <<locals, outcome>>
     ELSE Return("ok")
  /\ UNCHANGED groups

TailFails ==
  /\ "tail" \in Faults
  /\ AtTail
  /\ Return("bad_alloc")
  /\ UNCHANGED <<groups, tail>>

\* The tail has become a group: push_back, encode, clear.
Seal ==
  /\ pc = "seal"
  /\ groups' = Append(groups, Encode(tail))
  /\ tail' = <<>>
  /\ Return("ok")

\* (mutant of SealFails) the tail is cleared before it is encoded.
SealFailsTailless ==
  /\ pc = "seal"
  /\ "seal" \in Faults
  /\ groups' = Append(groups, NoData)
  /\ tail' = <<>>
  /\ Return("bad_alloc")

\* push_back throws, or encode throws when the new group is already there.
SealFails ==
  /\ pc = "seal"
  /\ \/ "push" \in Faults /\ UNCHANGED groups
     \/ "seal" \in Faults /\ groups' = Append(groups, NoData)
     \/ /\ "outliers" \in Faults
        /\ Patched(Encode(tail))
        /\ groups' = Append(groups, Torn)
  /\ Return("bad_alloc")
  /\ UNCHANGED tail

Clear ==
  /\ pc = "idle"
  /\ groups' = <<>> /\ tail' = <<>>
  /\ UNCHANGED <<pc, locals, outcome>>

\* The arguments of insert() that the model tries, in range or not.
Positions == 0..(MaxSize + GroupSize)

InsertStep ==
  ShiftGroup \/ ShiftFails \/ ShiftTears \/ ReadUndefined \/ InsertTail
  \/ TailFails \/ Seal \/ SealFails

Next ==
  \/ \E i \in Positions : InsertRejected(i)
  \/ \E i \in Positions, v \in Value : InsertAccepted(i, v)
  \/ InsertStep
  \/ Clear

\* insert() runs on the caller's thread and never waits: it keeps stepping.
Spec == Init /\ [][Next]_vars /\ WF_vars(InsertStep)

-------------------------------------------------------------------------------
(* Properties.                                                              *)

\* The variables have their types; the group to visit is one that exists, or
\* the tail; nothing but a running call has locals.
TypeOK ==
  /\ groups \in Seq(EncodedData \cup {NoData, Torn})
  /\ tail \in Seq(Value)
  /\ pc \in {"idle", "shift", "seal", "undefined"}
  /\ array_index \in Nat
  /\ group \in 0..Len(groups)
  /\ index \in 0..(GroupSize - 1)
  /\ value \in Value \cup {NoValue}
  /\ IF pc = "idle" THEN group = 0 /\ value = NoValue ELSE value \in Value
  /\ outcome \in {"none", "ok", "out_of_range", "bad_alloc"}

\* What the groups and the tail stand for, when every group can be decoded.
Contents ==
  LET packed == Len(groups) * GroupSize
  IN [p \in 1..Size |->
        IF p <= packed
        THEN Decode(groups[(p - 1) \div GroupSize + 1])[((p - 1) % GroupSize) + 1]
        ELSE tail[p - packed]]

\* In the middle of the shift the value to put next is in no group.
LogicalContents ==
  IF pc = "shift"
  THEN InsertedAt(Contents, group * GroupSize + index, value)
  ELSE Contents

Sequence == INSTANCE IntegerSequence WITH
  seq       <- LogicalContents,
  inserting <- IF pc = "idle" THEN -1 ELSE array_index

\* The array is a sequence of integers and insert() inserts one of them, however
\* it is spread over groups and tail; a call that fails loses at most one element,
\* and none before the insertion point (integer_array.h, insert()).
ImplementsSequence == Sequence!Spec

\* Each group contains GroupSize elements (the comment on groups_, integer_array.h):
\* it can be decoded, also behind a call that has thrown.
EveryGroupIsFull == \A g \in DOMAIN groups : Readable(groups[g])

\* Between two calls the tail is shorter than a group (the comment on tail_,
\* integer_array.h).
TailIsShort == pc = "idle" => Len(tail) < GroupSize

\* find(), group by group and then the tail, is the first index in the contents.
FindsFirst ==
  pc = "idle" => \A v \in Value : Find(v) = FirstIndex(Contents, v)

\* at() returns the element of its position or throws, also for a tail that has
\* outgrown a group after a failure.
AtReadsContents ==
  pc = "idle" =>
    \A i \in 0..(Size - 1) : OutOfRange(i) \/ At(i) = Contents[i + 1]

\* A call of insert() that is accepted returns, throws, or has run into memory
\* that is no encoding.
InsertTerminates == (pc # "idle") ~> (pc \in {"idle", "undefined"})

\* Whatever fails, a group in front of the insertion point keeps its data.
GroupsBeforeStay ==
  [][pc # "idle" =>
       \A g \in 1..(array_index \div GroupSize) :
         g \in DOMAIN groups' /\ groups'[g] = groups[g]]_vars

\* What is left of the contents, with NoValue in the places of groups that cannot be
\* decoded, and the value that a running call carries where it goes next.
Remaining ==
  LET packed == Len(groups) * GroupSize
      data(p) == groups[(p - 1) \div GroupSize + 1]
      visible == [p \in 1..Size |->
                    IF p > packed THEN tail[p - packed]
                    ELSE IF Readable(data(p))
                    THEN Decode(data(p))[((p - 1) % GroupSize) + 1]
                    ELSE NoValue]
  IN IF pc \in {"shift", "undefined"}
     THEN InsertedAt(visible, group * GroupSize + index, value) ELSE visible

\* s without the elements of one group, whose places are still there.
Blank(s, g) == [p \in DOMAIN s |-> IF (p - 1) \div GroupSize = g THEN NoValue ELSE s[p]]

\* Whatever fails, and whatever has failed before, insert() moves elements and loses
\* none until it throws.  What is lost then is the value it carries, and with it no
\* more than the elements of one group at or behind the insertion point; or nothing,
\* when the new group cannot be made: it may take up GroupSize places without
\* elements, in front of a tail that is still there.
FailureIsContained ==
  [][pc # "idle" =>
       \/ Remaining' = Remaining
       \/ /\ pc = "shift" /\ outcome' = "bad_alloc"
          /\ \E i \in array_index..(Len(Remaining) - 1) :
               LET rest == RemovedAt(Remaining, i)
               IN \/ Remaining' = rest
                  \/ \E g \in (array_index \div GroupSize)..(Len(groups) - 1) :
                       Remaining' = Blank(rest, g)
       \/ /\ pc = "seal" /\ outcome' = "bad_alloc"
          /\ LET front == SubSeq(Remaining, 1, Len(groups) * GroupSize)
             IN Remaining' = front \o [k \in 1..GroupSize |-> NoValue] \o tail]_vars

\* A group without data is the last one: it was pushed when the tail was full,
\* its encoding failed, and the tail, which is not packed again, is still there.
NullGroupIsLast ==
  \A g \in DOMAIN groups :
    groups[g] = NoData => g = Len(groups) /\ Len(tail) >= GroupSize

\* at() and insert() throw "array index out of range" only for a position that
\* is out of range.
RejectsOnlyOutOfRange == pc = "idle" => \A i \in 0..(Size - 1) : ~OutOfRange(i)

\* at() throws "array index out of range" for every position without an element.
RejectsEveryOutOfRange ==
  pc = "idle" => \A i \in Positions : i >= Size => OutOfRange(i)

================================================================================
