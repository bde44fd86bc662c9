--------------------------- MODULE IntegerArrayProofs ---------------------------
(***************************************************************************)
(* What insert() and clear() keep true of an integer_array, whatever the   *)
(* integers, the size of a group, the codec and the failing allocations;   *)
(* and that an integer_array is a sequence of integers (IntegerSequence),  *)
(* which find() and at() read, as long as no group loses its data.         *)
(***************************************************************************)
EXTENDS IntegerArray, BasicLemmas

\* A call that works on the tail found a place in it, and a group is made of a
\* tail that has its size.
PlaceExists ==
  /\ pc = "shift" => index <= Len(tail)
  /\ pc = "seal" => Len(tail) = GroupSize

\* The loop has passed the groups in front of the insertion point.
PassedBefore == pc # "idle" => array_index \div GroupSize <= group

\* A tail that is to become a group follows no group without data.
SealAfterData == pc = "seal" => \A g \in DOMAIN groups : groups[g] # NoData

IInv == TypeOK /\ PlaceExists

-------------------------------------------------------------------------------
(* Lemmas about the operators.                                              *)

\* Inserting into a sequence makes it one longer.
LEMMA InsertedAtType ==
  ASSUME NEW S, NEW s \in Seq(S), NEW i \in 0..Len(s), NEW v \in S
  PROVE  /\ InsertedAt(s, i, v) \in Seq(S)
         /\ Len(InsertedAt(s, i, v)) = Len(s) + 1
<1> DEFINE t == InsertedAt(s, i, v)
<1>1. \A p \in 1..(Len(s) + 1) : t[p] \in S
  <2> TAKE p \in 1..(Len(s) + 1)
  <2>1. CASE p <= i
    BY <2>1 DEF InsertedAt
  <2>2. CASE p = i + 1
    BY <2>2 DEF InsertedAt
  <2>3. CASE p > i + 1
    BY <2>3 DEF InsertedAt
  <2> QED BY <2>1, <2>2, <2>3
<1>2. t \in [1..(Len(s) + 1) -> S]
  BY <1>1 DEF InsertedAt
<1> QED BY <1>2

\* Data that an encoding has written decode to a buffer.
LEMMA DecodedType == \A data \in EncodedData : Decode(data) \in Buffer
BY RoundTrip DEF EncodedData

\* The quotient and the remainder of a position.
LEMMA DivisionType ==
  ASSUME NEW i \in Nat
  PROVE  i \div GroupSize \in Nat /\ i % GroupSize \in 0..(GroupSize - 1)
BY SizeAssumption

\* A visited group shifts into a buffer again.
LEMMA ShiftedType ==
  ASSUME TypeOK, pc = "shift", group < Len(groups), Readable(groups[group + 1])
  PROVE  /\ groups[group + 1] \in EncodedData
         /\ ShiftedBuffer \in Buffer
         /\ Decode(groups[group + 1])[GroupSize] \in Value
<1> DEFINE data == groups[group + 1]
<1>1. data \in EncodedData
  <2>1. group + 1 \in 1..Len(groups)
    BY DEF TypeOK
  <2>2. data \in EncodedData \cup {NoData, Torn}
    BY <2>1 DEF TypeOK
  <2> QED BY <2>2 DEF Readable
<1>2. Decode(data) \in Buffer
  BY <1>1, DecodedType
<1>3. ShiftedBuffer \in Buffer
  <2>1. value \in Value /\ index \in 0..(GroupSize - 1)
    BY DEF TypeOK
  <2>2. ASSUME NEW p \in 1..GroupSize
        PROVE  (IF p <= index THEN Decode(data)[p]
                ELSE IF p = index + 1 THEN value ELSE Decode(data)[p - 1]) \in Value
    <3>1. CASE p <= index
      BY <3>1, <1>2 DEF Buffer
    <3>2. CASE p = index + 1
      BY <3>2, <2>1
    <3>3. CASE p > index + 1
      <4>1. p - 1 \in 1..GroupSize
        BY <3>3, <2>1, SizeAssumption
      <4>2. Decode(data)[p - 1] \in Value
        BY <4>1, <1>2 DEF Buffer
      <4> QED BY <4>2, <3>3, <2>1
    <3> QED BY <3>1, <3>2, <3>3, <2>1
  <2> QED BY <2>2 DEF ShiftedBuffer, Buffer
<1>4. Decode(data)[GroupSize] \in Value
  BY <1>2, SizeAssumption DEF Buffer
<1> QED BY <1>1, <1>3, <1>4

-------------------------------------------------------------------------------
(* Type correctness.                                                        *)

\* A new array has its types.
LEMMA InitIInv == Init => IInv
BY SizeAssumption DEF Init, IInv, TypeOK, PlaceExists

\* A call that has ended leaves its locals as before any call.
LEMMA ReturnType ==
  ASSUME NEW how \in {"ok", "bad_alloc"}, Return(how),
         groups' \in Seq(EncodedData \cup {NoData, Torn}), tail' \in Seq(Value)
  PROVE  IInv'
BY SizeAssumption DEF Return, IInv, TypeOK, PlaceExists

\* Every step keeps the type invariant.
LEMMA NextIInv == IInv /\ [Next]_vars => IInv'
<1> SUFFICES ASSUME IInv, [Next]_vars PROVE IInv'
  OBVIOUS
<1> USE DEF IInv
<1>1. ASSUME NEW i \in Positions, InsertRejected(i) PROVE IInv'
  BY <1>1 DEF InsertRejected, TypeOK, PlaceExists, locals
<1>2. ASSUME NEW i \in Positions, NEW v \in Value, InsertAccepted(i, v) PROVE IInv'
  <2>1. i \in Nat
    BY SizeAssumption DEF Positions
  <2>2. i \div GroupSize \in Nat /\ i % GroupSize \in 0..(GroupSize - 1)
    BY <2>1, DivisionType
  <2>3. i \div GroupSize <= Len(groups) /\ i % GroupSize <= Len(tail)
    BY <1>2, <2>2 DEF InsertAccepted, OutOfRange, TypeOK
  <2>4. TypeOK'
    BY <1>2, <2>1, <2>2, <2>3 DEF InsertAccepted, TypeOK
  <2>5. PlaceExists'
    BY <1>2, <2>3 DEF InsertAccepted, PlaceExists
  <2> QED BY <2>4, <2>5
<1>3. CASE ShiftGroup
  <2>1. /\ ShiftedBuffer \in Buffer
        /\ Decode(groups[group + 1])[GroupSize] \in Value
    BY <1>3, ShiftedType DEF ShiftGroup, Visiting
  <2>2. Encode(ShiftedBuffer) \in EncodedData
    BY <2>1 DEF EncodedData
  <2>3. TypeOK'
    BY <1>3, <2>1, <2>2, SizeAssumption DEF ShiftGroup, Visiting, TypeOK
  <2>4. PlaceExists'
    BY <1>3 DEF ShiftGroup, Visiting, TypeOK, PlaceExists
  <2> QED BY <2>3, <2>4
<1>4. CASE ShiftFails
  BY <1>4, ReturnType DEF ShiftFails, TypeOK
<1>5. CASE ShiftTears
  <2>1. groups' \in Seq(EncodedData \cup {NoData, Torn})
    BY <1>5 DEF ShiftTears, Visiting, TypeOK
  <2> QED BY <1>5, <2>1, ReturnType DEF ShiftTears, TypeOK
<1>6. CASE ReadUndefined
  BY <1>6 DEF ReadUndefined, Visiting, TypeOK, PlaceExists, locals
<1>7. CASE InsertTail
  <2>1. index \in 0..Len(tail) /\ value \in Value /\ tail \in Seq(Value)
    BY <1>7 DEF InsertTail, AtTail, TypeOK, PlaceExists
  <2>2. tail' \in Seq(Value)
    BY <1>7, <2>1, InsertedAtType DEF InsertTail
  <2>3. CASE Len(tail') = GroupSize
    BY <1>7, <2>2, <2>3 DEF InsertTail, AtTail, TypeOK, PlaceExists, locals
  <2>4. CASE Len(tail') # GroupSize
    BY <1>7, <2>2, <2>4, ReturnType DEF InsertTail, TypeOK
  <2> QED BY <2>3, <2>4
<1>8. CASE TailFails
  BY <1>8, ReturnType DEF TailFails, TypeOK
<1>9. CASE Seal
  <2>1. tail \in Buffer
    BY <1>9 DEF Seal, TypeOK, PlaceExists, Buffer
  <2>2. Encode(tail) \in EncodedData
    BY <2>1 DEF EncodedData
  <2>3. groups' \in Seq(EncodedData \cup {NoData, Torn}) /\ tail' \in Seq(Value)
    BY <1>9, <2>2 DEF Seal, TypeOK
  <2> QED BY <1>9, <2>3, ReturnType DEF Seal
<1>10. CASE SealFails
  <2>1. \/ UNCHANGED groups
        \/ \E data \in {NoData, Torn} : groups' = Append(groups, data)
    BY <1>10 DEF SealFails
  <2>2. groups' \in Seq(EncodedData \cup {NoData, Torn})
    <3> DEFINE Data == EncodedData \cup {NoData, Torn}
    <3>1. groups \in Seq(Data) /\ NoData \in Data /\ Torn \in Data
      BY DEF TypeOK
    <3> HIDE DEF Data
    <3>2. groups' \in Seq(Data)
      BY <2>1, <3>1
    <3> QED BY <3>2 DEF Data
  <2> QED BY <1>10, <2>2, ReturnType DEF SealFails, TypeOK
<1>11. CASE Clear
  BY <1>11 DEF Clear, TypeOK, PlaceExists, locals
<1>12. CASE UNCHANGED vars
  BY <1>12 DEF vars, locals, TypeOK, PlaceExists
<1> QED
  BY <1>1, <1>2, <1>3, <1>4, <1>5, <1>6, <1>7, <1>8, <1>9, <1>10, <1>11, <1>12
  DEF Next, InsertStep

\* The variables of an array always have their types.
THEOREM TypeCorrect == Spec => []TypeOK
<1>1. IInv => TypeOK
  BY DEF IInv
<1> QED BY InitIInv, NextIInv, <1>1, PTL DEF Spec

-------------------------------------------------------------------------------
(* Safety.                                                                  *)

\* The invariant that the properties about groups need.
GInv == IInv /\ PassedBefore /\ SealAfterData /\ NullGroupIsLast

\* A new array has no groups.
LEMMA InitGInv == Init => GInv
BY InitIInv DEF Init, GInv, PassedBefore, SealAfterData, NullGroupIsLast

\* Every step keeps the invariant about groups.
LEMMA NextGInv == GInv /\ [Next]_vars => GInv'
<1> SUFFICES ASSUME GInv, [Next]_vars
             PROVE  PassedBefore' /\ SealAfterData' /\ NullGroupIsLast'
  BY NextIInv DEF GInv
<1>t. TypeOK /\ PlaceExists
  BY DEF GInv, IInv
<1> USE <1>t DEF GInv, PassedBefore, SealAfterData, NullGroupIsLast
<1>1. ASSUME NEW i \in Positions, InsertRejected(i)
      PROVE  PassedBefore' /\ SealAfterData' /\ NullGroupIsLast'
  BY <1>1 DEF InsertRejected, locals
<1>2. ASSUME NEW i \in Positions, NEW v \in Value, InsertAccepted(i, v)
      PROVE  PassedBefore' /\ SealAfterData' /\ NullGroupIsLast'
  <2>1. i \div GroupSize \in Nat
    BY DivisionType, SizeAssumption DEF Positions
  <2> QED BY <1>2, <2>1 DEF InsertAccepted
<1>3. CASE ShiftGroup
  <2>1. Encode(ShiftedBuffer) # NoData
    BY <1>3, ShiftedType, DataAssumption DEF ShiftGroup, Visiting
  <2>2. /\ pc' = "shift" /\ array_index' = array_index /\ group' = group + 1
        /\ array_index \div GroupSize <= group
    BY <1>3 DEF ShiftGroup, Visiting
  <2>3. array_index \in Nat /\ group \in Nat
    BY DEF TypeOK
  <2>4. array_index \div GroupSize \in Nat
    BY <2>3, DivisionType
  <2>5. PassedBefore'
    BY <2>2, <2>3, <2>4
  <2>6. SealAfterData' /\ NullGroupIsLast'
    BY <1>3, <2>1 DEF ShiftGroup, Visiting, TypeOK
  <2> QED BY <2>5, <2>6
<1>4. CASE ShiftFails
  BY <1>4 DEF ShiftFails, Return
<1>5. CASE ShiftTears
  BY <1>5, DataAssumption DEF ShiftTears, Visiting, Return, TypeOK
<1>6. CASE ReadUndefined
  BY <1>6 DEF ReadUndefined, Visiting, locals
<1>7. CASE InsertTail
  <2>1. Len(tail') = Len(tail) + 1
    BY <1>7, InsertedAtType DEF InsertTail, AtTail, TypeOK, PlaceExists
  <2>2. PassedBefore'
    BY <1>7 DEF InsertTail, AtTail, Return, locals
  <2>3. NullGroupIsLast'
    BY <1>7, <2>1, SizeAssumption DEF InsertTail, TypeOK
  <2>4. SealAfterData'
    BY <1>7, <2>1, SizeAssumption DEF InsertTail, AtTail, Return, TypeOK
  <2> QED BY <2>2, <2>3, <2>4
<1>8. CASE TailFails
  BY <1>8 DEF TailFails, Return
<1>9. CASE Seal
  <2>1. Encode(tail) # NoData
    BY <1>9, DataAssumption DEF Seal, TypeOK, PlaceExists, Buffer
  <2> QED BY <1>9, <2>1 DEF Seal, Return, TypeOK
<1>10. CASE SealFails
  BY <1>10, DataAssumption, SizeAssumption, SMTT(30)
  DEF SealFails, Return, TypeOK, PlaceExists
<1>11. CASE Clear
  BY <1>11 DEF Clear, locals
<1>12. CASE UNCHANGED vars
  BY <1>12 DEF vars, locals
<1> QED
  BY <1>1, <1>2, <1>3, <1>4, <1>5, <1>6, <1>7, <1>8, <1>9, <1>10, <1>11, <1>12
  DEF Next, InsertStep

\* Whatever fails, a group without data is the last one, and the tail that it was
\* to take over is still there.
THEOREM NullGroupStaysLast == Spec => []NullGroupIsLast
<1>1. GInv => NullGroupIsLast
  BY DEF GInv
<1> QED BY InitGInv, NextGInv, <1>1, PTL DEF Spec

\* Whatever fails, insert() does not touch a group in front of its position.
THEOREM GroupsBeforeAreKept == Spec => GroupsBeforeStay
<1> DEFINE Kept ==
      pc # "idle" =>
        \A g \in 1..(array_index \div GroupSize) :
          g \in DOMAIN groups' /\ groups'[g] = groups[g]
<1>1. GInv /\ [Next]_vars => [Kept]_vars
  <2> SUFFICES ASSUME GInv, Next, pc # "idle",
                      NEW g \in 1..(array_index \div GroupSize)
               PROVE  g \in DOMAIN groups' /\ groups'[g] = groups[g]
    BY DEF Kept
  <2>1. /\ array_index \div GroupSize \in Nat /\ group \in 0..Len(groups)
        /\ array_index \div GroupSize <= group
    BY DivisionType DEF GInv, IInv, TypeOK, PassedBefore
  <2>2. g \in DOMAIN groups /\ g <= group
    BY <2>1 DEF GInv, IInv, TypeOK
  <2>3. InsertStep
    BY DEF Next, InsertRejected, InsertAccepted, Clear
  <2>4. CASE ShiftGroup
    BY <2>1, <2>2, <2>4 DEF ShiftGroup, GInv, IInv, TypeOK
  <2>5. CASE ShiftTears
    BY <2>1, <2>2, <2>5 DEF ShiftTears, GInv, IInv, TypeOK
  <2>6. CASE Seal
    BY <2>2, <2>6 DEF Seal, GInv, IInv, TypeOK
  <2>7. CASE SealFails
    BY <2>2, <2>7 DEF SealFails, GInv, IInv, TypeOK
  <2>8. CASE UNCHANGED groups
    BY <2>2, <2>8
  <2> QED
    BY <2>3, <2>4, <2>5, <2>6, <2>7, <2>8
    DEF InsertStep, ShiftFails, ReadUndefined, InsertTail, TailFails
<1> QED BY InitGInv, NextGInv, <1>1, PTL DEF Spec, GroupsBeforeStay, Kept

-------------------------------------------------------------------------------
(* Safety when only some allocations fail.                                  *)

\* As long as allocations fail only where no group has lost its data yet, a step
\* leaves groups that can be decoded.
LEMMA NextFull ==
  ASSUME Faults \cap {"outliers", "seal"} = {}
  PROVE  IInv /\ EveryGroupIsFull /\ [Next]_vars => EveryGroupIsFull'
<1> SUFFICES ASSUME TypeOK, PlaceExists, EveryGroupIsFull, [Next]_vars
             PROVE  EveryGroupIsFull'
  BY DEF IInv
<1> USE DEF EveryGroupIsFull, Readable
<1>1. CASE ShiftGroup
  <2>1. Encode(ShiftedBuffer) # NoData /\ Encode(ShiftedBuffer) # Torn
    BY <1>1, ShiftedType, DataAssumption DEF ShiftGroup, Visiting
  <2> QED BY <1>1, <2>1 DEF ShiftGroup, Visiting, TypeOK
<1>2. CASE Seal
  <2>1. Encode(tail) # NoData /\ Encode(tail) # Torn
    BY <1>2, DataAssumption DEF Seal, TypeOK, PlaceExists, Buffer
  <2> QED BY <1>2, <2>1 DEF Seal, TypeOK
<1>3. CASE SealFails
  BY <1>3 DEF SealFails
<1>4. CASE Clear
  BY <1>4 DEF Clear
<1>5. CASE UNCHANGED groups
  BY <1>5
<1>6. ~ShiftTears
  BY DEF ShiftTears
<1> QED
  BY <1>1, <1>2, <1>3, <1>4, <1>5, <1>6
  DEF Next, InsertStep, InsertRejected, InsertAccepted, ShiftFails,
      ReadUndefined, InsertTail, TailFails, vars

\* If no group fails to be made, the tail is shorter than a group between calls.
THEOREM TailStaysShort ==
  ASSUME Faults \cap {"outliers", "push", "seal"} = {}
  PROVE  Spec => []TailIsShort
<1> DEFINE Short == pc # "seal" => Len(tail) < GroupSize
<1>1. Init => Short
  BY SizeAssumption DEF Init
<1>2. IInv /\ Short /\ [Next]_vars => Short'
  <2> SUFFICES ASSUME TypeOK, PlaceExists, Short, [Next]_vars
               PROVE  Short'
    BY DEF IInv
  <2>1. CASE InsertTail
    <3>1. Len(tail') = Len(tail) + 1
      BY <2>1, InsertedAtType DEF InsertTail, AtTail, TypeOK, PlaceExists
    <3>2. Len(tail) < GroupSize
      BY <2>1 DEF InsertTail, AtTail
    <3> QED BY <2>1, <3>1, <3>2, SizeAssumption DEF InsertTail, TypeOK
  <2>2. CASE Seal \/ Clear
    BY <2>2, SizeAssumption DEF Seal, Clear
  <2>3. ~SealFails
    BY DEF SealFails
  <2>4. CASE UNCHANGED tail /\ pc # "seal"
    BY <2>4
  <2>5. CASE UNCHANGED vars
    BY <2>5 DEF vars
  <2> QED
    BY <2>1, <2>2, <2>3, <2>4, <2>5
    DEF Next, InsertStep, InsertRejected, InsertAccepted, ShiftGroup, ShiftFails,
        ShiftTears, ReadUndefined, TailFails, Visiting, AtTail, locals
<1>3. Short => TailIsShort
  BY DEF TailIsShort
<1> QED BY InitIInv, NextIInv, <1>1, <1>2, <1>3, PTL DEF Spec

-------------------------------------------------------------------------------
(* The array as a sequence.  The contents are defined from the positions:   *)
(* the proofs go from there to the rows and places that the code works      *)
(* with.                                                                    *)

\* The sequence that rows of GroupSize elements make with a tail.
RowsOf(rows, t) ==
  LET packed == Len(rows) * GroupSize
  IN [p \in 1..(packed + Len(t)) |->
        IF p <= packed
        THEN rows[(p - 1) \div GroupSize + 1][((p - 1) % GroupSize) + 1]
        ELSE t[p - packed]]

\* The contents of an array with these groups and this tail.
ContentsOf(gs, t) == RowsOf([g \in 1..Len(gs) |-> Decode(gs[g])], t)

\* The position of the place k of the group g, both 1-based.
Place(g, k) == (g - 1) * GroupSize + k

\* s has the elements of the groups, each in its place, and the tail behind them.
Packed(s, gs, t) ==
  /\ Len(gs) * GroupSize \in Nat
  /\ Len(s) = Len(gs) * GroupSize + Len(t)
  /\ \A g \in 1..Len(gs), k \in 1..GroupSize : s[Place(g, k)] = Decode(gs[g])[k]
  /\ \A k \in 1..Len(t) : s[Len(gs) * GroupSize + k] = t[k]

\* f is a sequence of n elements.
Spans(f, n) == f = [p \in 1..n |-> f[p]]

\* s has the rows, each in its place, and the tail behind them.
Laid(s, rows, t) ==
  /\ Len(rows) * GroupSize \in Nat
  /\ Spans(s, Len(rows) * GroupSize + Len(t))
  /\ Len(s) = Len(rows) * GroupSize + Len(t)
  /\ \A g \in 1..Len(rows), k \in 1..GroupSize : s[Place(g, k)] = rows[g][k]
  /\ \A k \in 1..Len(t) : s[Len(rows) * GroupSize + k] = t[k]

\* s and t are equal at every place of n rows and of a tail of m elements.
Agree(s, t, n, m) ==
  /\ Spans(s, n * GroupSize + m) /\ Spans(t, n * GroupSize + m)
  /\ \A g \in 1..n, k \in 1..GroupSize : s[Place(g, k)] = t[Place(g, k)]
  /\ \A k \in 1..m : s[n * GroupSize + k] = t[n * GroupSize + k]

AnyData == EncodedData \cup {NoData, Torn}

\* An element of the array, or the place of one that is gone.
Element == Value \cup {NoValue}

Row == [1..GroupSize -> Element]

Nothing == [k \in 1..GroupSize |-> NoValue]

\* A row with v at the index i, the elements behind it moved on by one place.
ShiftedRow(b, i, v) ==
  [k \in 1..GroupSize |-> IF k <= i THEN b[k] ELSE IF k = i + 1 THEN v ELSE b[k - 1]]

\* What is left of the elements of a group.
RowIn(data) == IF Readable(data) THEN Decode(data) ELSE Nothing

RowsIn(gs) == [g \in 1..Len(gs) |-> RowIn(gs[g])]

VisibleOf(gs, t) == RowsOf(RowsIn(gs), t)

-------------------------------------------------------------------------------
(* Lemmas about positions.                                                  *)

\* A place in a group is a position in front of the tail, of that group and no other.
LEMMA PlaceType ==
  ASSUME NEW n \in Nat, NEW g \in 1..n, NEW k \in 1..GroupSize
  PROVE  /\ Place(g, k) \in 1..(n * GroupSize)
         /\ Place(g, k) <= g * GroupSize
         /\ (Place(g, k) - 1) \div GroupSize + 1 = g
         /\ ((Place(g, k) - 1) % GroupSize) + 1 = k
<1> DEFINE q == g - 1
           r == k - 1
<1>1. q \in Nat /\ r \in 0..(GroupSize - 1) /\ GroupSize \in Nat \ {0} /\ q < n
  BY SizeAssumption
<1> HIDE DEF q, r
<1>2. Place(g, k) - 1 = q * GroupSize + r /\ q * GroupSize \in Nat
  BY <1>1, ProductType DEF Place, q, r
<1>3. (q * GroupSize + r) \div GroupSize = q /\ (q * GroupSize + r) % GroupSize = r
  BY <1>1, DivisionUnique
<1>4. q * GroupSize + GroupSize <= n * GroupSize
  BY <1>1, RowsApart
<1>5. g * GroupSize = q * GroupSize + GroupSize
  BY <1>1, ProductNext DEF q
<1>6. n * GroupSize \in Nat
  BY <1>1, ProductType
<1>7. /\ Place(g, k) \in 1..(n * GroupSize)
      /\ Place(g, k) <= q * GroupSize + GroupSize
  BY <1>1, <1>2, <1>4, <1>6 DEF Place, q, r
<1>8. (Place(g, k) - 1) \div GroupSize = q /\ (Place(g, k) - 1) % GroupSize = r
  BY <1>2, <1>3
<1> QED BY <1>5, <1>7, <1>8 DEF q, r

\* Every position in front of the tail is a place in a group.
LEMMA PlaceOf ==
  ASSUME NEW n \in Nat, NEW p \in 1..(n * GroupSize)
  PROVE  \E g \in 1..n : \E k \in 1..GroupSize : p = Place(g, k)
<1> DEFINE q == (p - 1) \div GroupSize
           r == (p - 1) % GroupSize
<1>1. GroupSize \in Nat \ {0} /\ n * GroupSize \in Nat
  BY SizeAssumption, ProductType
<1>2. q \in Nat /\ r \in 0..(GroupSize - 1) /\ p - 1 = q * GroupSize + r
  <2>1. p - 1 \in Nat
    BY <1>1
  <2> QED BY <1>1, <2>1, Division
<1> HIDE DEF q, r
<1>3. q < n
  <2> SUFFICES ASSUME n <= q PROVE FALSE
    BY <1>2
  <2>1. n * GroupSize <= q * GroupSize
    BY <1>1, <1>2, ProductOrder
  <2>2. q * GroupSize \in Nat
    BY <1>1, <1>2, ProductType
  <2> QED BY <1>1, <1>2, <2>1, <2>2
<1>4. q + 1 \in 1..n /\ r + 1 \in 1..GroupSize
  BY <1>1, <1>2, <1>3
<1>5. Place(q + 1, r + 1) = p
  BY <1>1, <1>2, ProductType DEF Place
<1> QED BY <1>4, <1>5

\* What rows and a tail make, at a place of a row and at one of the tail.
LEMMA RowsAt ==
  ASSUME NEW rows, Len(rows) \in Nat, NEW t, Len(t) \in Nat
  PROVE  Laid(RowsOf(rows, t), rows, t)
<1> DEFINE packed == Len(rows) * GroupSize
<1>1. packed \in Nat
  BY SizeAssumption, ProductType
<1>2. ASSUME NEW g \in 1..Len(rows), NEW k \in 1..GroupSize
      PROVE  RowsOf(rows, t)[Place(g, k)] = rows[g][k]
  <2>1. /\ Place(g, k) \in 1..packed
        /\ (Place(g, k) - 1) \div GroupSize + 1 = g
        /\ ((Place(g, k) - 1) % GroupSize) + 1 = k
    BY PlaceType
  <2> QED BY <1>1, <2>1 DEF RowsOf
<1>3. ASSUME NEW k \in 1..Len(t)
      PROVE  RowsOf(rows, t)[packed + k] = t[k]
  <2> HIDE DEF packed
  <2>1. PICK x : x = packed + k
    OBVIOUS
  <2>2. x \in 1..(packed + Len(t)) /\ ~(x <= packed) /\ x - packed = k
    BY <1>1, <2>1
  <2>3. RowsOf(rows, t)[x] = t[x - packed]
    BY <2>2 DEF RowsOf, packed
  <2> QED BY <2>1, <2>2, <2>3
<1>4. /\ Spans(RowsOf(rows, t), packed + Len(t))
      /\ Len(RowsOf(rows, t)) = packed + Len(t)
  <2> HIDE DEF packed
  <2>1. packed + Len(t) \in Nat
    BY <1>1
  <2>2. RowsOf(rows, t) =
          [p \in 1..(packed + Len(t)) |->
             IF p <= packed
             THEN rows[(p - 1) \div GroupSize + 1][((p - 1) % GroupSize) + 1]
             ELSE t[p - packed]]
    BY DEF RowsOf, packed
  <2>3. Spans(RowsOf(rows, t), packed + Len(t))
    BY <2>2 DEF Spans
  <2> QED BY <2>1, <2>2, <2>3
<1> QED BY <1>1, <1>2, <1>3, <1>4 DEF Laid

\* Two sequences are equal that are so at every place of a row and of the tail.
LEMMA SamePlaces ==
  ASSUME NEW n \in Nat, NEW m \in Nat, NEW f, NEW h, Agree(f, h, n, m)
  PROVE  f = h
<1> USE DEF Agree
<1> DEFINE packed == n * GroupSize
<1>1. packed \in Nat
  BY SizeAssumption, ProductType
<1>2. ASSUME NEW p \in 1..(packed + m) PROVE f[p] = h[p]
  <2>1. CASE p <= packed
    <3>1. p \in 1..packed
      BY <1>1, <2>1
    <3>2. PICK g \in 1..n, k \in 1..GroupSize : p = Place(g, k)
      BY <3>1, PlaceOf
    <3> QED BY <3>2
  <2>2. CASE p > packed
    <3>1. p - packed \in 1..m /\ p = packed + (p - packed)
      <4> HIDE DEF packed
      <4> QED BY <1>1, <2>2
    <3>2. f[packed + (p - packed)] = h[packed + (p - packed)]
      BY <3>1
    <3> QED BY <3>1, <3>2
  <2> HIDE DEF packed
  <2> QED BY <1>1, <2>1, <2>2
<1> QED BY <1>2 DEF Spans

\* Rows and a tail of elements make a sequence of them.
LEMMA RowsType ==
  ASSUME NEW rows \in Seq(Row), NEW t \in Seq(Element)
  PROVE  RowsOf(rows, t) \in Seq(Element)
<1> DEFINE packed == Len(rows) * GroupSize
           s == RowsOf(rows, t)
<1>1. /\ packed \in Nat /\ Spans(s, packed + Len(t))
      /\ \A g \in 1..Len(rows), k \in 1..GroupSize : s[Place(g, k)] = rows[g][k]
      /\ \A k \in 1..Len(t) : s[packed + k] = t[k]
      /\ Len(t) \in Nat /\ Len(rows) \in Nat
  <2>1. Len(t) \in Nat /\ Len(rows) \in Nat
    OBVIOUS
  <2>2. Laid(s, rows, t)
    BY <2>1, RowsAt
  <2> HIDE DEF s
  <2> QED BY <2>1, <2>2 DEF Laid
<1> HIDE DEF s
<1>2. ASSUME NEW p \in 1..(packed + Len(t)) PROVE s[p] \in Element
  <2>1. CASE p <= packed
    <3>1. p \in 1..packed
      BY <1>1, <2>1
    <3>2. PICK g \in 1..Len(rows), k \in 1..GroupSize : p = Place(g, k)
      BY <1>1, <3>1, PlaceOf
    <3>3. rows[g] \in Row
      OBVIOUS
    <3>4. rows[g][k] \in Element
      BY <3>3 DEF Row
    <3> QED BY <1>1, <3>2, <3>4
  <2> HIDE DEF packed
  <2>2. CASE p > packed
    <3>1. p - packed \in 1..Len(t) /\ p = packed + (p - packed)
      BY <1>1, <2>2
    <3>2. s[p] = t[p - packed]
      BY <1>1, <3>1
    <3> QED BY <3>1, <3>2
  <2> QED BY <1>1, <2>1, <2>2
<1> HIDE DEF packed
<1>3. packed + Len(t) \in Nat
  BY <1>1
<1>4. s \in [1..(packed + Len(t)) -> Element]
  BY <1>1, <1>2 DEF Spans
<1> QED BY <1>3, <1>4 DEF s

\* What the contents are at a place of a group, and at one of the tail.
LEMMA ContentsAt ==
  ASSUME NEW gs, Len(gs) \in Nat, NEW t, Len(t) \in Nat
  PROVE  Packed(ContentsOf(gs, t), gs, t)
<1> DEFINE rows == [g \in 1..Len(gs) |-> Decode(gs[g])]
<1>1. Len(rows) = Len(gs) /\ \A g \in 1..Len(gs) : rows[g] = Decode(gs[g])
  OBVIOUS
<1> HIDE DEF rows
<1>0. Laid(RowsOf(rows, t), rows, t)
  BY <1>1, RowsAt
<1>2. /\ Len(gs) * GroupSize \in Nat
      /\ Spans(RowsOf(rows, t), Len(gs) * GroupSize + Len(t))
      /\ Len(RowsOf(rows, t)) = Len(gs) * GroupSize + Len(t)
      /\ \A g \in 1..Len(gs), k \in 1..GroupSize :
           RowsOf(rows, t)[Place(g, k)] = rows[g][k]
      /\ \A k \in 1..Len(t) :
           RowsOf(rows, t)[Len(gs) * GroupSize + k] = t[k]
  BY <1>0, <1>1 DEF Laid
<1>3. ContentsOf(gs, t) = RowsOf(rows, t)
  BY DEF ContentsOf, rows
<1>4. DOMAIN RowsOf(rows, t) = 1..(Len(gs) * GroupSize + Len(t))
  BY <1>2 DEF Spans
<1> QED BY <1>1, <1>2, <1>3, <1>4 DEF Packed

\* The rows of groups, and what becomes of them when one group changes.
LEMMA RowsInType ==
  ASSUME NEW gs \in Seq(AnyData)
  PROVE  /\ RowsIn(gs) \in Seq(Row)
         /\ Len(RowsIn(gs)) = Len(gs)
         /\ \A g \in 1..Len(gs) : RowsIn(gs)[g] = RowIn(gs[g])
         /\ \A data \in AnyData :
              /\ RowIn(data) \in Row
              /\ RowsIn(Append(gs, data)) = Append(RowsIn(gs), RowIn(data))
              /\ \A g \in 1..Len(gs) :
                   RowsIn([gs EXCEPT ![g] = data])
                     = [RowsIn(gs) EXCEPT ![g] = RowIn(data)]
<1>1. ASSUME NEW data \in AnyData PROVE RowIn(data) \in Row
  <2>1. CASE Readable(data)
    <3>1. data \in EncodedData
      BY <2>1 DEF AnyData, Readable
    <3>2. Decode(data) \in Buffer
      BY <3>1, DecodedType
    <3>3. Buffer \subseteq Row
      BY DEF Buffer, Row, Element
    <3> QED BY <2>1, <3>2, <3>3 DEF RowIn
  <2>2. CASE ~Readable(data)
    BY <2>2 DEF RowIn, Nothing, Row, Element
  <2> QED BY <2>1, <2>2
<1>2. Len(RowsIn(gs)) = Len(gs) /\ \A g \in 1..Len(gs) : RowsIn(gs)[g] = RowIn(gs[g])
  BY DEF RowsIn
<1>3. RowsIn(gs) \in Seq(Row)
  <2>1. \A g \in 1..Len(gs) : RowIn(gs[g]) \in Row
    BY <1>1
  <2>2. RowsIn(gs) \in [1..Len(gs) -> Row]
    BY <2>1 DEF RowsIn
  <2> QED BY <2>2
<1>4. ASSUME NEW data \in AnyData
      PROVE  RowsIn(Append(gs, data)) = Append(RowsIn(gs), RowIn(data))
  <2>1. RowIn(data) \in Row
    BY <1>1
  <2>2. RowsIn(Append(gs, data)) = [g \in 1..(Len(gs) + 1) |-> RowIn(Append(gs, data)[g])]
    BY DEF RowsIn
  <2>3. \A g \in 1..(Len(gs) + 1) :
          RowIn(Append(gs, data)[g]) = Append(RowsIn(gs), RowIn(data))[g]
    <3> DEFINE rows == RowsIn(gs)
               r == RowIn(data)
    <3>1. rows \in Seq(Row) /\ Len(rows) = Len(gs) /\ r \in Row
      BY <1>2, <1>3, <2>1
    <3>2. \A g \in 1..Len(gs) : rows[g] = RowIn(gs[g])
      BY <1>2
    <3> HIDE DEF rows, r
    <3>3. ASSUME NEW g \in 1..(Len(gs) + 1)
          PROVE  RowIn(Append(gs, data)[g]) = Append(rows, r)[g]
      <4>1. CASE g \in 1..Len(gs)
        <5>1. Append(gs, data)[g] = gs[g] /\ Append(rows, r)[g] = rows[g]
          BY <3>1, <4>1
        <5> QED BY <3>2, <4>1, <5>1
      <4>2. CASE g = Len(gs) + 1
        <5>1. Append(gs, data)[g] = data /\ Append(rows, r)[g] = r
          BY <3>1, <4>2
        <5> QED BY <5>1 DEF r
      <4>3. g \in 1..Len(gs) \/ g = Len(gs) + 1
        OBVIOUS
      <4> QED BY <4>1, <4>2, <4>3
    <3> QED BY <3>3 DEF rows, r
  <2>4. Append(RowsIn(gs), RowIn(data))
          = [g \in 1..(Len(gs) + 1) |-> Append(RowsIn(gs), RowIn(data))[g]]
    <3>1. PICK rows \in Seq(Row), r \in Row : rows = RowsIn(gs) /\ r = RowIn(data)
      BY <1>3, <2>1
    <3>2. Append(rows, r) \in Seq(Row) /\ Len(Append(rows, r)) = Len(gs) + 1
      BY <1>2, <3>1
    <3> HIDE DEF RowsIn
    <3>3. PICK s \in Seq(Row) : s = Append(rows, r)
      BY <3>2
    <3>4. s = [g \in 1..(Len(gs) + 1) |-> s[g]]
      <4>1. Len(s) = Len(gs) + 1
        BY <3>2, <3>3
      <4>2. s = [g \in 1..Len(s) |-> s[g]]
        OBVIOUS
      <4> QED BY <4>1, <4>2
    <3> QED BY <3>1, <3>3, <3>4
  <2> QED BY <2>2, <2>3, <2>4
<1>5. ASSUME NEW data \in AnyData, NEW g \in 1..Len(gs)
      PROVE  RowsIn([gs EXCEPT ![g] = data]) = [RowsIn(gs) EXCEPT ![g] = RowIn(data)]
  <2> DEFINE changed == [gs EXCEPT ![g] = data]
             rows == RowsIn(gs)
             after == [rows EXCEPT ![g] = RowIn(data)]
  <2>1. Len(changed) = Len(gs) /\ changed[g] = data
        /\ \A h \in 1..Len(gs) : h # g => changed[h] = gs[h]
    OBVIOUS
  <2>2. rows \in Seq(Row) /\ Len(rows) = Len(gs)
        /\ \A h \in 1..Len(gs) : rows[h] = RowIn(gs[h])
    BY <1>2, <1>3
  <2>3. RowsIn(changed) = [h \in 1..Len(gs) |-> RowIn(changed[h])]
    <3> HIDE DEF changed
    <3> QED BY <2>1 DEF RowsIn
  <2> HIDE DEF changed, rows
  <2>4. after = [h \in 1..Len(gs) |-> IF h = g THEN RowIn(data) ELSE rows[h]]
    BY <2>2
  <2>5. \A h \in 1..Len(gs) :
          RowIn(changed[h]) = IF h = g THEN RowIn(data) ELSE rows[h]
    BY <2>1, <2>2
  <2>6. RowsIn(changed) = after
    BY <2>3, <2>4, <2>5
  <2> QED BY <2>6 DEF changed, rows
<1> QED BY <1>1, <1>2, <1>3, <1>4, <1>5

-------------------------------------------------------------------------------
(* Lemmas about the steps of insert().                                      *)

\* What is removed where it has been inserted leaves the sequence as it was.
LEMMA RemovedInserted ==
  ASSUME NEW S, NEW s \in Seq(S), NEW i \in 0..Len(s), NEW v \in S
  PROVE  RemovedAt(InsertedAt(s, i, v), i) = s
<1> DEFINE t == InsertedAt(s, i, v)
<1>1. t \in Seq(S) /\ Len(t) = Len(s) + 1
  BY InsertedAtType
<1>2. /\ \A p \in 1..Len(s) : p <= i => t[p] = s[p]
      /\ \A p \in 1..Len(s) : p > i => t[p + 1] = s[p]
  BY DEF InsertedAt
<1>3. RemovedAt(t, i) = [p \in 1..Len(s) |-> IF p <= i THEN t[p] ELSE t[p + 1]]
  BY <1>1 DEF RemovedAt
<1>4. \A p \in 1..Len(s) : RemovedAt(t, i)[p] = s[p]
  BY <1>2, <1>3
<1> HIDE DEF t
<1>5. RemovedAt(t, i) = s
  BY <1>3, <1>4
<1> QED BY <1>5 DEF t

\* The sequence r is s with v at the index j, the elements up to e moved on by one
\* place and the last of them dropped.
ShiftedUpTo(s, r, j, e, v) ==
  /\ s \in Seq(Element) /\ r \in Seq(Element) /\ Len(r) = Len(s)
  /\ j \in Nat /\ e \in 1..Len(s) /\ j < e
  /\ \A p \in 1..Len(s) : p <= j \/ p > e => r[p] = s[p]
  /\ r[j + 1] = v
  /\ \A p \in (j + 2)..e : r[p] = s[p - 1]

\* A part of a sequence is shifted by one place; what leaves it is inserted behind.
LEMMA ShiftedPart ==
  ASSUME NEW s, NEW r, NEW j, NEW e, NEW v, ShiftedUpTo(s, r, j, e, v)
  PROVE  InsertedAt(r, e, s[e]) = InsertedAt(s, j, v)
<1> USE DEF ShiftedUpTo
<1> DEFINE before == InsertedAt(s, j, v)
           after == InsertedAt(r, e, s[e])
<1>1. /\ before = [p \in 1..(Len(s) + 1) |->
                    IF p <= j THEN s[p] ELSE IF p = j + 1 THEN v ELSE s[p - 1]]
      /\ after = [p \in 1..(Len(s) + 1) |->
                   IF p <= e THEN r[p]
                   ELSE IF p = e + 1 THEN s[e] ELSE r[p - 1]]
  BY DEF InsertedAt
<1> HIDE DEF before, after
<1>2. ASSUME NEW p \in 1..(Len(s) + 1) PROVE after[p] = before[p]
  <2>1. CASE p <= e
    BY <1>1, <2>1
  <2>2. CASE p = e + 1
    BY <1>1, <2>2
  <2>3. CASE p > e + 1
    <3>1. p - 1 \in 1..Len(s) /\ p - 1 > e
      BY <2>3
    <3>2. r[p - 1] = s[p - 1]
      BY <3>1
    <3>3. after[p] = r[p - 1] /\ before[p] = s[p - 1]
      BY <1>1, <2>3
    <3> QED BY <3>2, <3>3
  <2> QED BY <2>1, <2>2, <2>3
<1>3. after = before
  BY <1>1, <1>2
<1> QED BY <1>3 DEF before, after

\* The rows of the groups: where the group g begins and ends.
LEMMA RowOf ==
  ASSUME NEW n \in Nat, NEW g \in 1..n
  PROVE  /\ (g - 1) * GroupSize \in Nat
         /\ g * GroupSize = (g - 1) * GroupSize + GroupSize
         /\ g * GroupSize <= n * GroupSize
         /\ n * GroupSize \in Nat
<1>1. GroupSize \in Nat /\ g - 1 \in Nat /\ g \in Nat /\ g <= n
  BY SizeAssumption
<1>2. g * GroupSize <= n * GroupSize
  BY <1>1, ProductOrder
<1>3. g * GroupSize = (g - 1) * GroupSize + GroupSize
  BY <1>1, ProductNext
<1> QED BY <1>1, <1>2, <1>3, ProductType

\* A row that is replaced leaves the rest of the sequence as it was.
LEMMA RowReplaced ==
  ASSUME NEW rows \in Seq(Row), NEW t \in Seq(Element),
         NEW g \in 1..Len(rows), NEW row \in Row
  PROVE  LET first == (g - 1) * GroupSize
             old == RowsOf(rows, t)
             new == RowsOf([rows EXCEPT ![g] = row], t)
         IN /\ old \in Seq(Element) /\ new \in Seq(Element)
            /\ Len(new) = Len(old)
            /\ g * GroupSize \in 1..Len(old)
            /\ \A p \in 1..Len(old) :
                 p \notin (first + 1)..(g * GroupSize) => new[p] = old[p]
            /\ \A k \in 1..GroupSize :
                 /\ old[first + k] = rows[g][k]
                 /\ new[first + k] = row[k]
<1> DEFINE changed == [rows EXCEPT ![g] = row]
           packed == Len(rows) * GroupSize
           first == (g - 1) * GroupSize
           last == g * GroupSize
           old == RowsOf(rows, t)
           new == RowsOf(changed, t)
<1>1. /\ changed \in Seq(Row) /\ Len(changed) = Len(rows) /\ changed[g] = row
      /\ \A h \in 1..Len(rows) : h # g => changed[h] = rows[h]
      /\ Len(rows) \in Nat /\ Len(t) \in Nat
  OBVIOUS
<1>2. /\ old \in Seq(Element)
      /\ Len(old) = packed + Len(t)
      /\ \A h \in 1..Len(rows), k \in 1..GroupSize : old[Place(h, k)] = rows[h][k]
      /\ \A k \in 1..Len(t) : old[packed + k] = t[k]
  <2>1. Laid(old, rows, t) /\ old \in Seq(Element)
    BY <1>1, RowsAt, RowsType
  <2> HIDE DEF old
  <2> QED BY <2>1 DEF Laid
<1> HIDE DEF changed
<1>3. /\ new \in Seq(Element)
      /\ Len(new) = Len(changed) * GroupSize + Len(t)
      /\ \A h \in 1..Len(changed), k \in 1..GroupSize : new[Place(h, k)] = changed[h][k]
      /\ \A k \in 1..Len(t) : new[Len(changed) * GroupSize + k] = t[k]
  <2>1. Laid(new, changed, t) /\ new \in Seq(Element)
    BY <1>1, RowsAt, RowsType
  <2> HIDE DEF new
  <2> QED BY <2>1 DEF Laid
<1> HIDE DEF old, new
<1>4. /\ Len(new) = packed + Len(t)
      /\ \A h \in 1..Len(rows), k \in 1..GroupSize : new[Place(h, k)] = changed[h][k]
      /\ \A k \in 1..Len(t) : new[packed + k] = t[k]
  BY <1>1, <1>3
<1>5. /\ first \in Nat /\ last = first + GroupSize /\ last <= packed /\ packed \in Nat
      /\ GroupSize \in Nat \ {0}
  BY <1>1, RowOf, SizeAssumption
<1>6. \A k \in 1..GroupSize : first + k = Place(g, k)
  BY DEF Place
<1>7. ASSUME NEW p \in 1..packed, p \notin (first + 1)..last PROVE new[p] = old[p]
  <2>1. PICK h \in 1..Len(rows), k \in 1..GroupSize : p = Place(h, k)
    BY <1>1, <1>7, PlaceOf
  <2>2. h # g
    <3> HIDE DEF first, last, packed
    <3>1. \A l \in 1..GroupSize : first + l \in (first + 1)..last
      BY <1>5
    <3> QED BY <1>6, <1>7, <2>1, <3>1
  <2> QED BY <1>1, <1>2, <1>4, <2>1, <2>2, SMTT(30)
<1> HIDE DEF packed, first, last
<1>8. ASSUME NEW p \in 1..Len(old), p \notin (first + 1)..last PROVE new[p] = old[p]
  <2>1. CASE p <= packed
    BY <1>5, <1>7, <1>8, <2>1
  <2>2. CASE p > packed
    <3>1. PICK k \in 1..Len(t) : p = packed + k
      BY <1>2, <1>5, <2>2
    <3> QED BY <1>2, <1>4, <3>1
  <2> QED BY <1>2, <1>5, <2>1, <2>2
<1>9. ASSUME NEW k \in 1..GroupSize
      PROVE  old[first + k] = rows[g][k] /\ new[first + k] = row[k]
  BY <1>1, <1>2, <1>4, <1>6
<1>10. last \in 1..Len(old) /\ Len(new) = Len(old)
  BY <1>1, <1>2, <1>4, <1>5
<1> QED BY <1>2, <1>3, <1>8, <1>9, <1>10 DEF changed, old, new, first, last

\* A value is inserted into a row: it is in the sequence, and the last one of the
\* row, which is in it no more, belongs behind the row.
LEMMA ShiftKeepsRows ==
  ASSUME NEW rows \in Seq(Row), NEW t \in Seq(Element),
         NEW g \in 1..Len(rows), NEW i \in 0..(GroupSize - 1), NEW v,
         NEW row \in Row, row = ShiftedRow(rows[g], i, v)
  PROVE  InsertedAt(RowsOf([rows EXCEPT ![g] = row], t),
                    g * GroupSize, rows[g][GroupSize])
           = InsertedAt(RowsOf(rows, t), (g - 1) * GroupSize + i, v)
<1> DEFINE first == (g - 1) * GroupSize
           last == g * GroupSize
           old == RowsOf(rows, t)
           new == RowsOf([rows EXCEPT ![g] = row], t)
           b == rows[g]
<1>1. /\ old \in Seq(Element) /\ new \in Seq(Element)
      /\ Len(new) = Len(old)
      /\ last \in 1..Len(old)
      /\ \A p \in 1..Len(old) : p \notin (first + 1)..last => new[p] = old[p]
      /\ \A k \in 1..GroupSize : old[first + k] = b[k] /\ new[first + k] = row[k]
  BY RowReplaced
<1>2. /\ first \in Nat /\ last = first + GroupSize
      /\ i \in Nat /\ first + i < last /\ GroupSize \in Nat \ {0}
  <2>1. Len(rows) \in Nat
    OBVIOUS
  <2>2. first \in Nat /\ last = first + GroupSize
    BY <2>1, RowOf
  <2> HIDE DEF first, last
  <2> QED BY <2>2, SizeAssumption
<1> HIDE DEF first, last, old, new, b
<1>3. ASSUME NEW p \in (first + 1)..last
      PROVE  /\ p <= first + i => new[p] = old[p]
             /\ p = first + i + 1 => new[p] = v
             /\ p > first + i + 1 => new[p] = old[p - 1]
  <2>1. PICK k \in 1..GroupSize : p = first + k
    <3>1. p - first \in 1..GroupSize /\ p = first + (p - first)
      BY <1>2
    <3> QED BY <3>1
  <2>2. old[p] = b[k] /\ new[p] = row[k]
    BY <1>1, <2>1
  <2>3. row[k] = IF k <= i THEN b[k] ELSE IF k = i + 1 THEN v ELSE b[k - 1]
    BY DEF b, ShiftedRow
  <2>4. CASE k <= i \/ k = i + 1
    BY <1>2, <2>1, <2>2, <2>3, <2>4, SMTT(30)
  <2>5. CASE k > i + 1
    <3>1. k - 1 \in 1..GroupSize /\ p - 1 = first + (k - 1)
      BY <1>2, <2>1, <2>5
    <3>2. old[p - 1] = b[k - 1]
      BY <1>1, <3>1
    <3> QED BY <1>2, <2>1, <2>2, <2>3, <2>5, <3>2, SMTT(30)
  <2> QED BY <1>2, <2>4, <2>5
<1>4. old[last] = b[GroupSize]
  <2>1. GroupSize \in 1..GroupSize
    BY <1>2
  <2> QED BY <1>1, <1>2, <2>1
<1>5. PICK j \in Nat : j = first + i
  BY <1>2
<1>6. /\ \A p \in 1..Len(old) : p <= j \/ p > last => new[p] = old[p]
      /\ new[j + 1] = v
      /\ \A p \in (j + 2)..last : new[p] = old[p - 1]
  <2>1. ASSUME NEW p \in 1..Len(old), p <= j \/ p > last PROVE new[p] = old[p]
    <3>1. CASE p \in (first + 1)..last
      BY <1>2, <1>3, <1>5, <2>1, <3>1
    <3>2. CASE p \notin (first + 1)..last
      BY <1>1, <3>2
    <3> QED BY <3>1, <3>2
  <2>2. j + 1 \in (first + 1)..last /\ j + 1 = first + i + 1
    BY <1>2, <1>5
  <2>3. ASSUME NEW p \in (j + 2)..last PROVE new[p] = old[p - 1]
    <3>1. p \in (first + 1)..last /\ p > first + i + 1
      BY <1>2, <1>5
    <3> QED BY <1>3, <3>1
  <2>4. new[j + 1] = v
    BY <1>3, <2>2
  <2> QED BY <2>1, <2>3, <2>4
<1>7. j < last
  BY <1>2, <1>5
<1>8. InsertedAt(new, last, old[last]) = InsertedAt(old, j, v)
  <2>1. ShiftedUpTo(old, new, j, last, v)
    BY <1>1, <1>6, <1>7 DEF ShiftedUpTo
  <2> QED BY <2>1, ShiftedPart
<1> QED BY <1>4, <1>5, <1>8 DEF first, last, old, new, b

\* A value is inserted into the tail.
LEMMA TailKeepsRows ==
  ASSUME NEW rows \in Seq(Row), NEW t \in Seq(Element),
         NEW i \in 0..Len(t), NEW v \in Element
  PROVE  RowsOf(rows, InsertedAt(t, i, v))
           = InsertedAt(RowsOf(rows, t), Len(rows) * GroupSize + i, v)
<1> DEFINE packed == Len(rows) * GroupSize
           s == InsertedAt(t, i, v)
           old == RowsOf(rows, t)
           new == RowsOf(rows, s)
           inserted == InsertedAt(old, packed + i, v)
<1>1. /\ s \in Seq(Element) /\ Len(s) = Len(t) + 1
      /\ \A k \in 1..(Len(t) + 1) :
           s[k] = IF k <= i THEN t[k] ELSE IF k = i + 1 THEN v ELSE t[k - 1]
  BY InsertedAtType DEF InsertedAt
<1>2. Len(rows) \in Nat /\ Len(t) \in Nat
  OBVIOUS
<1> HIDE DEF s
<1>3. /\ packed \in Nat
      /\ Len(old) = packed + Len(t)
      /\ \A g \in 1..Len(rows), k \in 1..GroupSize : old[Place(g, k)] = rows[g][k]
      /\ \A k \in 1..Len(t) : old[packed + k] = t[k]
  <2>1. Laid(old, rows, t)
    BY <1>2, RowsAt
  <2> HIDE DEF old
  <2> QED BY <2>1 DEF Laid
<1>4. /\ Spans(new, packed + Len(s))
      /\ \A g \in 1..Len(rows), k \in 1..GroupSize : new[Place(g, k)] = rows[g][k]
      /\ \A k \in 1..Len(s) : new[packed + k] = s[k]
  <2>1. Len(s) \in Nat
    BY <1>1
  <2>2. Laid(new, rows, s)
    BY <1>2, <2>1, RowsAt
  <2> HIDE DEF new
  <2> QED BY <2>2 DEF Laid
<1>5. inserted = [p \in 1..(packed + Len(t) + 1) |->
                    IF p <= packed + i THEN old[p]
                    ELSE IF p = packed + i + 1 THEN v ELSE old[p - 1]]
  <2> HIDE DEF packed, old
  <2> QED BY <1>3 DEF InsertedAt
<1>6. ASSUME NEW g \in 1..Len(rows), NEW k \in 1..GroupSize
      PROVE  new[Place(g, k)] = inserted[Place(g, k)]
  <2>1. Place(g, k) \in 1..packed
    BY <1>2, PlaceType
  <2>2. PICK p : p = Place(g, k)
    OBVIOUS
  <2> HIDE DEF packed, old, new, inserted
  <2>3. inserted[p] = old[p]
    BY <1>2, <1>3, <1>5, <2>1, <2>2
  <2> QED BY <1>3, <1>4, <2>2, <2>3
<1>7. ASSUME NEW k \in 1..(Len(t) + 1) PROVE new[packed + k] = inserted[packed + k]
  <2> HIDE DEF packed, old, new, inserted
  <2>1. PICK p : p = packed + k
    OBVIOUS
  <2>2. new[p] = s[k]
    BY <1>1, <1>4, <2>1
  <2>3. CASE k <= i
    BY <1>1, <1>2, <1>3, <1>5, <2>1, <2>2, <2>3
  <2>4. CASE k = i + 1
    BY <1>1, <1>2, <1>3, <1>5, <2>1, <2>2, <2>4
  <2>5. CASE k > i + 1
    <3>1. k - 1 \in 1..Len(t) /\ p - 1 = packed + (k - 1)
      BY <1>2, <1>3, <2>1, <2>5
    <3>2. old[p - 1] = t[k - 1]
      BY <1>3, <3>1
    <3> QED BY <1>1, <1>2, <1>3, <1>5, <2>1, <2>2, <2>5, <3>2
  <2> QED BY <1>2, <2>1, <2>3, <2>4, <2>5
<1> HIDE DEF packed, old, new, inserted
<1>8. /\ Spans(new, packed + (Len(t) + 1))
      /\ Spans(inserted, packed + (Len(t) + 1))
  <2>1. packed + Len(t) + 1 = packed + (Len(t) + 1)
    BY <1>2, <1>3
  <2>2. Spans(new, packed + (Len(t) + 1))
    BY <1>1, <1>4
  <2>3. Spans(inserted, packed + (Len(t) + 1))
    BY <1>5, <2>1 DEF Spans
  <2> QED BY <2>2, <2>3
<1>9. new = inserted
  <2>1. Len(t) + 1 \in Nat
    BY <1>2
  <2>2. Agree(new, inserted, Len(rows), Len(t) + 1)
    BY <1>6, <1>7, <1>8 DEF Agree, packed
  <2> QED BY <1>2, <2>1, <2>2, SamePlaces
<1> QED BY <1>9 DEF new, inserted, old, packed, s

\* A row more, in front of the tail: what is in front of it stays, and the tail
\* follows it.
LEMMA RowAppended ==
  ASSUME NEW rows \in Seq(Row), NEW t \in Seq(Element), NEW row \in Row
  PROVE  LET packed == Len(rows) * GroupSize
             new == RowsOf(Append(rows, row), t)
         IN /\ packed \in Nat
            /\ Spans(new, packed + (GroupSize + Len(t)))
            /\ \A g \in 1..Len(rows), k \in 1..GroupSize :
                 new[Place(g, k)] = rows[g][k]
            /\ \A k \in 1..GroupSize : new[packed + k] = row[k]
            /\ \A k \in 1..Len(t) : new[packed + (GroupSize + k)] = t[k]
<1> DEFINE packed == Len(rows) * GroupSize
           more == Append(rows, row)
           new == RowsOf(more, t)
<1>1. /\ Len(more) = Len(rows) + 1 /\ Len(rows) \in Nat /\ Len(t) \in Nat
      /\ more[Len(rows) + 1] = row /\ \A g \in 1..Len(rows) : more[g] = rows[g]
  OBVIOUS
<1> HIDE DEF more
<1>2. /\ Len(more) \in Nat /\ packed \in Nat /\ GroupSize \in Nat
      /\ Len(more) * GroupSize = packed + GroupSize
  BY <1>1, SizeAssumption, ProductType, ProductNext
<1>3. /\ Spans(new, Len(more) * GroupSize + Len(t))
      /\ \A g \in 1..Len(more), k \in 1..GroupSize : new[Place(g, k)] = more[g][k]
      /\ \A k \in 1..Len(t) : new[Len(more) * GroupSize + k] = t[k]
  <2>1. Laid(new, more, t)
    BY <1>1, <1>2, RowsAt
  <2> HIDE DEF new
  <2> QED BY <2>1 DEF Laid
<1>4. ASSUME NEW k \in 1..GroupSize PROVE new[packed + k] = row[k]
  <2>1. Place(Len(rows) + 1, k) = packed + k
    BY <1>1 DEF Place
  <2>2. Len(rows) + 1 \in 1..Len(more)
    BY <1>1
  <2> QED BY <1>1, <1>3, <2>1, <2>2
<1> HIDE DEF packed, new
<1>5. /\ \A k \in 1..Len(t) : new[packed + (GroupSize + k)] = t[k]
      /\ Spans(new, packed + (GroupSize + Len(t)))
  <2>1. \A k \in 1..Len(t) :
          packed + (GroupSize + k) = Len(more) * GroupSize + k
    BY <1>1, <1>2
  <2>2. packed + (GroupSize + Len(t)) = Len(more) * GroupSize + Len(t)
    BY <1>1, <1>2
  <2> QED BY <1>3, <2>1, <2>2
<1>6. \A g \in 1..Len(rows), k \in 1..GroupSize : new[Place(g, k)] = rows[g][k]
  BY <1>1, <1>3
<1> QED BY <1>2, <1>4, <1>5, <1>6 DEF packed, new, more

\* A tail that becomes a row does not change the sequence.
LEMMA SealKeepsRows ==
  ASSUME NEW rows \in Seq(Row), NEW t \in Row, t \in Seq(Element), Len(t) = GroupSize
  PROVE  RowsOf(Append(rows, t), <<>>) = RowsOf(rows, t)
<1> DEFINE packed == Len(rows) * GroupSize
           old == RowsOf(rows, t)
           new == RowsOf(Append(rows, t), <<>>)
<1>1. <<>> \in Seq(Element) /\ Len(<<>>) = 0 /\ Len(rows) \in Nat
      /\ GroupSize \in Nat
  BY SizeAssumption
<1>2. /\ packed \in Nat
      /\ Spans(new, packed + (GroupSize + Len(<<>>)))
      /\ \A g \in 1..Len(rows), k \in 1..GroupSize : new[Place(g, k)] = rows[g][k]
      /\ \A k \in 1..GroupSize : new[packed + k] = t[k]
  BY <1>1, RowAppended
<1>3. /\ Spans(old, packed + Len(t))
      /\ \A g \in 1..Len(rows), k \in 1..GroupSize : old[Place(g, k)] = rows[g][k]
      /\ \A k \in 1..Len(t) : old[packed + k] = t[k]
  <2>1. Laid(old, rows, t)
    BY <1>1, RowsAt
  <2> HIDE DEF old
  <2> QED BY <2>1 DEF Laid
<1>4. GroupSize + Len(<<>>) = GroupSize
  BY <1>1
<1> HIDE DEF old, new
<1>5. Agree(new, old, Len(rows), GroupSize)
  <2> HIDE DEF packed
  <2>1. Spans(new, packed + GroupSize) /\ Spans(old, packed + GroupSize)
    BY <1>2, <1>3, <1>4
  <2> QED BY <1>2, <1>3, <2>1 DEF Agree, packed
<1>6. new = old
  BY <1>1, <1>5, SamePlaces
<1> QED BY <1>6 DEF old, new

\* A row of nothing behind the others takes up places in front of the tail.
LEMMA NothingAppended ==
  ASSUME NEW rows \in Seq(Row), NEW t \in Seq(Element), Nothing \in Row
  PROVE  RowsOf(Append(rows, Nothing), t)
           = SubSeq(RowsOf(rows, t), 1, Len(rows) * GroupSize) \o Nothing \o t
<1> DEFINE packed == Len(rows) * GroupSize
           old == RowsOf(rows, t)
           new == RowsOf(Append(rows, Nothing), t)
           front == SubSeq(old, 1, packed)
           spread == front \o Nothing \o t
<1>1. Len(rows) \in Nat /\ Len(t) \in Nat /\ GroupSize \in Nat /\ packed \in Nat
  BY SizeAssumption, ProductType
<1>2. /\ Spans(new, packed + (GroupSize + Len(t)))
      /\ \A g \in 1..Len(rows), k \in 1..GroupSize : new[Place(g, k)] = rows[g][k]
      /\ \A k \in 1..GroupSize : new[packed + k] = Nothing[k]
      /\ \A k \in 1..Len(t) : new[packed + (GroupSize + k)] = t[k]
  BY RowAppended
<1>3. /\ old \in Seq(Element) /\ Len(old) = packed + Len(t)
      /\ \A g \in 1..Len(rows), k \in 1..GroupSize : old[Place(g, k)] = rows[g][k]
  <2>1. Laid(old, rows, t) /\ old \in Seq(Element)
    BY <1>1, RowsAt, RowsType
  <2> HIDE DEF old
  <2> QED BY <2>1 DEF Laid
<1>4. Nothing \in Seq(Element) /\ Len(Nothing) = GroupSize
  <2>1. PICK x : x = Nothing
    OBVIOUS
  <2>2. x \in [1..GroupSize -> Element]
    BY <2>1 DEF Row
  <2>3. x \in Seq(Element) /\ Len(x) = GroupSize
    BY <1>1, <2>2
  <2> QED BY <2>1, <2>3
<1> HIDE DEF packed, old, new
<1>5. /\ front \in Seq(Element) /\ Len(front) = packed
      /\ \A p \in 1..packed : front[p] = old[p]
  BY <1>1, <1>3
<1> HIDE DEF front
<1>6. /\ Spans(spread, packed + GroupSize + Len(t))
      /\ \A p \in 1..packed : spread[p] = front[p]
      /\ \A k \in 1..GroupSize : spread[packed + k] = Nothing[k]
      /\ \A k \in 1..Len(t) : spread[packed + GroupSize + k] = t[k]
  <2> DEFINE most == front \o Nothing
  <2>1. /\ most \in Seq(Element) /\ Len(most) = packed + GroupSize
        /\ \A p \in 1..packed : most[p] = front[p]
        /\ \A k \in 1..GroupSize : most[packed + k] = Nothing[k]
    <3>1. PICK x \in Seq(Element) : x = Nothing
      BY <1>4
    <3>2. Len(x) = GroupSize /\ most = front \o x
      BY <1>4, <3>1
    <3> HIDE DEF most
    <3>3. front \o x \in Seq(Element) /\ Len(front \o x) = packed + GroupSize
      <4>1. PICK f \in Seq(Element) : f = front
        BY <1>5
      <4>2. f \o x \in Seq(Element) /\ Len(f \o x) = Len(f) + Len(x)
        OBVIOUS
      <4> QED BY <1>5, <3>2, <4>1, <4>2
    <3>4. \A p \in 1..packed : (front \o x)[p] = front[p]
      BY <1>1, <1>5, <3>2
    <3>5. \A k \in 1..GroupSize : (front \o x)[packed + k] = x[k]
      BY <1>1, <1>5, <3>2
    <3> QED BY <3>1, <3>2, <3>3, <3>4, <3>5
  <2> HIDE DEF most
  <2>2. /\ most \o t \in Seq(Element) /\ Len(most \o t) = packed + GroupSize + Len(t)
        /\ \A p \in 1..(packed + GroupSize) : (most \o t)[p] = most[p]
        /\ \A k \in 1..Len(t) : (most \o t)[packed + GroupSize + k] = t[k]
    BY <1>1, <2>1
  <2>3. spread = most \o t
    BY DEF most
  <2> HIDE DEF spread
  <2>4. spread \in Seq(Element) /\ Len(spread) = packed + GroupSize + Len(t)
    BY <2>2, <2>3
  <2>5. Spans(spread, packed + GroupSize + Len(t))
    BY <2>4 DEF Spans
  <2>6. \A p \in 1..packed : spread[p] = front[p]
    BY <1>1, <2>1, <2>2, <2>3
  <2>7. \A k \in 1..GroupSize : spread[packed + k] = Nothing[k]
    <3>1. \A k \in 1..GroupSize : packed + k \in 1..(packed + GroupSize)
      BY <1>1
    <3> QED BY <2>1, <2>2, <2>3, <3>1
  <2>8. \A k \in 1..Len(t) : spread[packed + GroupSize + k] = t[k]
    BY <2>2, <2>3
  <2> QED BY <2>5, <2>6, <2>7, <2>8
<1> HIDE DEF spread
<1>7. ASSUME NEW g \in 1..Len(rows), NEW k \in 1..GroupSize
      PROVE  new[Place(g, k)] = spread[Place(g, k)]
  <2>1. Place(g, k) \in 1..packed
    BY <1>1, PlaceType DEF packed
  <2> QED BY <1>2, <1>3, <1>5, <1>6, <2>1
<1>8. ASSUME NEW k \in 1..(GroupSize + Len(t))
      PROVE  new[packed + k] = spread[packed + k]
  <2>1. CASE k <= GroupSize
    BY <1>1, <1>2, <1>6, <2>1
  <2>2. CASE k > GroupSize
    <3>1. PICK l \in 1..Len(t) : k = GroupSize + l
      <4>1. k - GroupSize \in 1..Len(t) /\ k = GroupSize + (k - GroupSize)
        BY <1>1, <2>2
      <4> QED BY <4>1
    <3>2. packed + k = packed + GroupSize + l
      BY <1>1, <3>1
    <3> QED BY <1>2, <1>6, <3>1, <3>2
  <2> QED BY <1>1, <2>1, <2>2
<1>9. Spans(spread, packed + (GroupSize + Len(t)))
  <2>1. packed + GroupSize + Len(t) = packed + (GroupSize + Len(t))
    BY <1>1
  <2> QED BY <1>6, <2>1
<1>10. GroupSize + Len(t) \in Nat
  BY <1>1
<1>11. Agree(new, spread, Len(rows), GroupSize + Len(t))
  BY <1>2, <1>7, <1>8, <1>9 DEF Agree, packed
<1>12. new = spread
  BY <1>1, <1>10, <1>11, SamePlaces
<1> QED BY <1>12 DEF new, spread, front, old, packed

\* A row that is replaced by nothing leaves its places blank.
LEMMA RowBlanked ==
  ASSUME NEW rows \in Seq(Row), NEW t \in Seq(Element),
         NEW g \in 1..Len(rows), Nothing \in Row
  PROVE  RowsOf([rows EXCEPT ![g] = Nothing], t) = Blank(RowsOf(rows, t), g - 1)
<1> DEFINE packed == Len(rows) * GroupSize
           changed == [rows EXCEPT ![g] = Nothing]
           old == RowsOf(rows, t)
           new == RowsOf(changed, t)
           blank == Blank(old, g - 1)
<1>1. /\ Len(changed) = Len(rows) /\ changed[g] = Nothing
      /\ \A h \in 1..Len(rows) : h # g => changed[h] = rows[h]
      /\ Len(rows) \in Nat /\ Len(t) \in Nat
  OBVIOUS
<1> HIDE DEF changed
<1>2. /\ packed \in Nat
      /\ Spans(old, packed + Len(t))
      /\ \A h \in 1..Len(rows), k \in 1..GroupSize : old[Place(h, k)] = rows[h][k]
      /\ \A k \in 1..Len(t) : old[packed + k] = t[k]
  <2>1. Laid(old, rows, t)
    BY <1>1, RowsAt
  <2>2. packed \in Nat
    BY <1>1, SizeAssumption, ProductType
  <2> HIDE DEF old
  <2> QED BY <2>1, <2>2 DEF Laid
<1>3. /\ Spans(new, packed + Len(t))
      /\ \A h \in 1..Len(rows), k \in 1..GroupSize : new[Place(h, k)] = changed[h][k]
      /\ \A k \in 1..Len(t) : new[packed + k] = t[k]
  <2>1. Laid(new, changed, t)
    BY <1>1, RowsAt
  <2> HIDE DEF new
  <2> QED BY <1>1, <2>1 DEF Laid
<1>4. blank = [p \in 1..(packed + Len(t)) |->
                 IF (p - 1) \div GroupSize = g - 1 THEN NoValue ELSE old[p]]
  <2>1. DOMAIN old = 1..(packed + Len(t))
    <3> HIDE DEF old, packed
    <3> QED BY <1>2 DEF Spans
  <2> HIDE DEF packed, old
  <2> QED BY <2>1 DEF Blank
<1>5. ASSUME NEW h \in 1..Len(rows), NEW k \in 1..GroupSize
      PROVE  new[Place(h, k)] = blank[Place(h, k)]
  <2>1. /\ Place(h, k) \in 1..packed
        /\ (Place(h, k) - 1) \div GroupSize + 1 = h
    BY <1>1, PlaceType
  <2>2. PICK p : p = Place(h, k)
    OBVIOUS
  <2> HIDE DEF packed, old, new, blank
  <2>3. p \in 1..(packed + Len(t)) /\ p \in Nat
    BY <1>1, <1>2, <2>1, <2>2
  <2>4. (p - 1) \div GroupSize = h - 1
    <3>1. (p - 1) \div GroupSize \in Int
      BY <2>1, <2>2, <2>3, SizeAssumption
    <3> QED BY <2>1, <2>2, <3>1
  <2>5. CASE h = g
    <3>1. blank[p] = NoValue
      BY <1>4, <2>3, <2>4, <2>5
    <3>2. new[p] = Nothing[k]
      BY <1>1, <1>3, <2>2, <2>5
    <3> QED BY <2>2, <3>1, <3>2 DEF Nothing
  <2>6. CASE h # g
    <3>1. blank[p] = old[p]
      BY <1>1, <1>4, <2>3, <2>4, <2>6
    <3>2. new[p] = rows[h][k] /\ old[p] = rows[h][k]
      BY <1>1, <1>2, <1>3, <2>2, <2>6
    <3> QED BY <2>2, <3>1, <3>2
  <2> QED BY <2>5, <2>6
<1>6. ASSUME NEW k \in 1..Len(t) PROVE new[packed + k] = blank[packed + k]
  <2>1. PICK p : p = packed + k
    OBVIOUS
  <2>2. g * GroupSize <= packed /\ (g - 1) * GroupSize \in Nat
        /\ g * GroupSize = (g - 1) * GroupSize + GroupSize
    BY <1>1, RowOf
  <2>3. p \in Nat /\ p > 0 /\ p \in 1..(packed + Len(t)) /\ p > packed
    <3> HIDE DEF packed
    <3> QED BY <1>1, <1>2, <2>1
  <2>4. (p - 1) \div GroupSize # g - 1
    <3> SUFFICES ASSUME (p - 1) \div GroupSize = g - 1 PROVE FALSE
      OBVIOUS
    <3>1. p - 1 \in Nat
      BY <2>3
    <3>2. /\ p - 1 = ((p - 1) \div GroupSize) * GroupSize + ((p - 1) % GroupSize)
          /\ (p - 1) % GroupSize \in 0..(GroupSize - 1)
      BY <3>1, SizeAssumption, Division
    <3>3. PICK q : q = (g - 1) * GroupSize
      OBVIOUS
    <3>4. PICK r : r = (p - 1) % GroupSize
      OBVIOUS
    <3>5. p - 1 = q + r /\ r \in 0..(GroupSize - 1) /\ q \in Nat /\ q + GroupSize <= packed
      BY <2>2, <3>2, <3>3, <3>4
    <3> HIDE DEF packed
    <3> QED BY ONLY <1>2, <2>3, <3>1, <3>5, SizeAssumption
  <2> HIDE DEF packed, old, new, blank
  <2>5. blank[p] = old[p]
    BY <1>4, <2>3, <2>4
  <2>6. old[p] = t[k] /\ new[p] = t[k]
    BY <1>2, <1>3, <2>1
  <2> QED BY <2>1, <2>5, <2>6
<1>7. Spans(blank, packed + Len(t))
  <2> HIDE DEF packed, old
  <2> QED BY <1>4 DEF Spans
<1> HIDE DEF old, new, blank
<1>8. new = blank
  <2>1. Agree(new, blank, Len(rows), Len(t))
    BY <1>3, <1>5, <1>6, <1>7 DEF Agree
  <2> QED BY <1>1, <2>1, SamePlaces
<1> QED BY <1>8 DEF new, blank, old, changed

-------------------------------------------------------------------------------
(* What insert() loses when it fails.                                       *)

\* The place where the next value goes is not in front of the insertion point.
PointPassed == pc = "shift" => array_index <= group * GroupSize + index

\* What is left of the contents is what can be seen of them, and while a call carries
\* a value, that value where it goes next.
LEMMA RemainingIs ==
  /\ TypeOK =>
       Remaining = IF pc \in {"shift", "undefined"}
                   THEN InsertedAt(VisibleOf(groups, tail),
                                   group * GroupSize + index, value)
                   ELSE VisibleOf(groups, tail)
  /\ TypeOK' =>
       Remaining' = IF pc' \in {"shift", "undefined"}
                    THEN InsertedAt(VisibleOf(groups', tail'),
                                    group' * GroupSize + index', value')
                    ELSE VisibleOf(groups', tail')
<1> DEFINE Seen(gs, t) ==
             [p \in 1..(Len(gs) * GroupSize + Len(t)) |->
                IF p > Len(gs) * GroupSize THEN t[p - Len(gs) * GroupSize]
                ELSE IF Readable(gs[(p - 1) \div GroupSize + 1])
                THEN Decode(gs[(p - 1) \div GroupSize + 1])[((p - 1) % GroupSize) + 1]
                ELSE NoValue]
<1>1. ASSUME NEW gs \in Seq(AnyData), NEW t \in Seq(Value)
      PROVE  Seen(gs, t) = VisibleOf(gs, t)
  <2> DEFINE packed == Len(gs) * GroupSize
             seen == Seen(gs, t)
             rows == RowsIn(gs)
  <2>1. Len(gs) \in Nat /\ Len(t) \in Nat /\ packed \in Nat
    BY SizeAssumption, ProductType
  <2>2. Len(rows) = Len(gs) /\ \A g \in 1..Len(gs) : rows[g] = RowIn(gs[g])
    BY RowsInType
  <2> HIDE DEF rows
  <2>3. /\ Spans(RowsOf(rows, t), packed + Len(t))
        /\ \A g \in 1..Len(gs), k \in 1..GroupSize : RowsOf(rows, t)[Place(g, k)] = rows[g][k]
        /\ \A k \in 1..Len(t) : RowsOf(rows, t)[packed + k] = t[k]
    <3>1. Laid(RowsOf(rows, t), rows, t)
      BY <2>1, <2>2, RowsAt
    <3> QED BY <2>2, <3>1 DEF Laid
  <2>4. Spans(seen, packed + Len(t))
    BY DEF Spans
  <2>5. ASSUME NEW g \in 1..Len(gs), NEW k \in 1..GroupSize
        PROVE  seen[Place(g, k)] = RowsOf(rows, t)[Place(g, k)]
    <3>1. /\ Place(g, k) \in 1..packed
          /\ (Place(g, k) - 1) \div GroupSize + 1 = g
          /\ ((Place(g, k) - 1) % GroupSize) + 1 = k
      BY <2>1, PlaceType
    <3>2. PICK p : p = Place(g, k)
      OBVIOUS
    <3> HIDE DEF packed
    <3>3. p \in 1..(packed + Len(t)) /\ ~(p > packed)
      BY <2>1, <3>1, <3>2
    <3>4. seen[p] = IF Readable(gs[g]) THEN Decode(gs[g])[k] ELSE NoValue
      BY <3>1, <3>2, <3>3 DEF packed
    <3>5. rows[g][k] = IF Readable(gs[g]) THEN Decode(gs[g])[k] ELSE NoValue
      BY <2>2 DEF RowIn, Nothing
    <3> QED BY <2>3, <3>2, <3>4, <3>5
  <2>6. ASSUME NEW k \in 1..Len(t) PROVE seen[packed + k] = RowsOf(rows, t)[packed + k]
    <3>1. PICK p : p = packed + k
      OBVIOUS
    <3> HIDE DEF packed
    <3>2. p \in 1..(packed + Len(t)) /\ p > packed /\ p - packed = k
      BY <2>1, <3>1
    <3>3. seen[p] = t[p - packed]
      BY <3>2 DEF packed
    <3> QED BY <2>3, <3>1, <3>2, <3>3
  <2> HIDE DEF seen
  <2>7. seen = RowsOf(rows, t)
    <3>1. Agree(seen, RowsOf(rows, t), Len(gs), Len(t))
      BY <2>3, <2>4, <2>5, <2>6 DEF Agree
    <3> QED BY <2>1, <3>1, SamePlaces
  <2> QED BY <2>7 DEF seen, rows, VisibleOf
<1>2. ASSUME TypeOK
      PROVE  Remaining = IF pc \in {"shift", "undefined"}
                         THEN InsertedAt(Seen(groups, tail),
                                         group * GroupSize + index, value)
                         ELSE Seen(groups, tail)
  BY DEF Remaining, Size
<1>3. ASSUME TypeOK'
      PROVE  Remaining' = IF pc' \in {"shift", "undefined"}
                          THEN InsertedAt(Seen(groups', tail'),
                                          group' * GroupSize + index', value')
                          ELSE Seen(groups', tail')
  BY DEF Remaining, Size
<1> HIDE DEF Seen
<1>4. ASSUME TypeOK PROVE Seen(groups, tail) = VisibleOf(groups, tail)
  BY <1>1, <1>4 DEF TypeOK, AnyData
<1>5. ASSUME TypeOK' PROVE Seen(groups', tail') = VisibleOf(groups', tail')
  BY <1>1, <1>5 DEF TypeOK, AnyData
<1> QED BY <1>2, <1>3, <1>4, <1>5

\* The rows that can be seen, and where the value goes that a call carries.
LEMMA RemainingType ==
  ASSUME IInv
  PROVE  LET seen == VisibleOf(groups, tail)
             packed == Len(groups) * GroupSize
         IN /\ groups \in Seq(AnyData) /\ tail \in Seq(Value) /\ tail \in Seq(Element)
            /\ RowsIn(groups) \in Seq(Row) /\ Len(RowsIn(groups)) = Len(groups)
            /\ seen \in Seq(Element) /\ packed \in Nat
            /\ Len(seen) = packed + Len(tail)
            /\ pc = "shift" =>
                 /\ group * GroupSize + index \in 0..Len(seen)
                 /\ value \in Element
<1> DEFINE packed == Len(groups) * GroupSize
           seen == VisibleOf(groups, tail)
           point == group * GroupSize + index
<1>1. groups \in Seq(AnyData) /\ tail \in Seq(Value) /\ tail \in Seq(Element)
  BY DEF IInv, TypeOK, AnyData, Element
<1>2. RowsIn(groups) \in Seq(Row) /\ Len(RowsIn(groups)) = Len(groups)
  BY <1>1, RowsInType
<1>3. Len(groups) \in Nat /\ Len(tail) \in Nat /\ GroupSize \in Nat \ {0} /\ packed \in Nat
  BY <1>1, SizeAssumption, ProductType
<1>4. seen \in Seq(Element) /\ Len(seen) = packed + Len(tail)
  <2>1. Laid(seen, RowsIn(groups), tail)
    BY <1>2, <1>3, RowsAt DEF VisibleOf
  <2>2. seen \in Seq(Element)
    BY <1>1, <1>2, RowsType DEF VisibleOf
  <2> HIDE DEF seen
  <2> QED BY <1>2, <2>1, <2>2 DEF Laid
<1>5. ASSUME pc = "shift" PROVE point \in 0..Len(seen) /\ value \in Element
  <2>1. /\ group \in 0..Len(groups) /\ index \in 0..(GroupSize - 1)
        /\ index <= Len(tail) /\ value \in Element
    BY <1>5 DEF IInv, TypeOK, PlaceExists, Element
  <2> DEFINE first == group * GroupSize
  <2>2. first \in Nat
    BY <1>3, <2>1, ProductType
  <2>3. CASE group = Len(groups)
    <3>1. first = packed
      BY <2>3
    <3> HIDE DEF first, packed, seen
    <3>2. first + index \in 0..Len(seen)
      BY <1>3, <1>4, <2>1, <2>2, <3>1
    <3> QED BY <2>1, <3>2 DEF first
  <2>4. CASE group < Len(groups)
    <3>1. first + GroupSize <= packed
      BY <1>3, <2>1, <2>4, RowsApart
    <3> HIDE DEF first, packed, seen
    <3>2. first + index \in 0..Len(seen)
      BY <1>3, <1>4, <2>1, <2>2, <3>1
    <3> QED BY <2>1, <3>2 DEF first
  <2> QED BY <1>3, <2>1, <2>3, <2>4
<1> QED BY <1>1, <1>2, <1>3, <1>4, <1>5

\* An iteration of the loop moves elements and loses none.
LEMMA ShiftRemains ==
  ASSUME IInv, IInv', ShiftGroup
  PROVE  Remaining' = Remaining
<1>1. /\ TypeOK /\ TypeOK' /\ pc = "shift" /\ group < Len(groups)
      /\ Readable(groups[group + 1])
  BY DEF IInv, ShiftGroup, Visiting
<1> DEFINE g == group + 1
           data == Encode(ShiftedBuffer)
           rows == RowsIn(groups)
           b == Decode(groups[g])
<1>2. /\ g \in 1..Len(groups) /\ index \in 0..(GroupSize - 1) /\ g - 1 = group
      /\ g \in Nat
  BY <1>1 DEF TypeOK
<1>3. /\ data \in EncodedData /\ Decode(data) = ShiftedBuffer
      /\ ShiftedBuffer \in Buffer
  BY <1>1, ShiftedType, RoundTrip DEF EncodedData
<1>4. data \in AnyData /\ Readable(data)
  BY <1>3, DataAssumption DEF AnyData, EncodedData, Readable
<1>5. /\ groups' = [groups EXCEPT ![g] = data] /\ tail' = tail
      /\ value' = b[GroupSize] /\ group' = g /\ index' = 0 /\ pc' = "shift"
  BY DEF ShiftGroup, Visiting
<1> HIDE DEF data
<1>6. /\ groups \in Seq(AnyData) /\ rows \in Seq(Row) /\ Len(rows) = Len(groups)
      /\ tail \in Seq(Element)
  BY RemainingType
<1>7. /\ rows[g] = b /\ RowIn(data) = ShiftedBuffer /\ RowIn(data) \in Row
      /\ RowsIn(groups') = [rows EXCEPT ![g] = RowIn(data)]
  <2>1. rows[g] = RowIn(groups[g])
    BY <1>2, <1>6, RowsInType
  <2>2. RowIn(groups[g]) = b
    BY <1>1 DEF RowIn
  <2>3. RowIn(data) = ShiftedBuffer
    BY <1>3, <1>4 DEF RowIn
  <2>4. RowIn(data) \in Row /\ RowsIn([groups EXCEPT ![g] = data]) = [rows EXCEPT ![g] = RowIn(data)]
    BY <1>2, <1>4, <1>6, RowsInType
  <2> QED BY <1>5, <2>1, <2>2, <2>3, <2>4
<1>8. RowIn(data) = ShiftedRow(rows[g], index, value)
  BY <1>7 DEF ShiftedBuffer, ShiftedRow
<1> HIDE DEF rows, b
<1>9. PICK row \in Row : row = RowIn(data)
  BY <1>7
<1>10. InsertedAt(RowsOf([rows EXCEPT ![g] = row], tail), g * GroupSize, rows[g][GroupSize])
         = InsertedAt(RowsOf(rows, tail), (g - 1) * GroupSize + index, value)
  <2>1. g \in 1..Len(rows)
    BY <1>2, <1>6
  <2>2. row = ShiftedRow(rows[g], index, value)
    BY <1>8, <1>9
  <2> HIDE DEF g
  <2> QED BY <1>2, <1>6, <2>1, <2>2, ShiftKeepsRows
<1>11. Remaining = InsertedAt(RowsOf(rows, tail), (g - 1) * GroupSize + index, value)
  BY <1>1, <1>2, RemainingIs DEF VisibleOf, rows
<1>12. Remaining' = InsertedAt(RowsOf([rows EXCEPT ![g] = row], tail),
                               g * GroupSize, rows[g][GroupSize])
  <2>1. Remaining' = InsertedAt(VisibleOf(groups', tail'), group' * GroupSize + index', value')
    BY <1>1, <1>5, RemainingIs
  <2>2. group' * GroupSize + index' = g * GroupSize
    <3>1. g * GroupSize \in Nat
      BY <1>2, SizeAssumption, ProductType
    <3>2. group' * GroupSize + index' = g * GroupSize + 0
      BY <1>5
    <3> QED BY <3>1, <3>2
  <2>3. VisibleOf(groups', tail') = RowsOf([rows EXCEPT ![g] = row], tail)
    BY <1>5, <1>7, <1>9 DEF VisibleOf
  <2>4. value' = rows[g][GroupSize]
    BY <1>5, <1>7
  <2> QED BY <2>1, <2>2, <2>3, <2>4
<1> QED BY <1>10, <1>11, <1>12

\* The value goes into the tail, where what is left has it already.
LEMMA InsertTailRemains ==
  ASSUME IInv, IInv', InsertTail
  PROVE  Remaining' = Remaining
<1>1. /\ TypeOK /\ TypeOK' /\ pc = "shift" /\ group = Len(groups)
      /\ index \in 0..Len(tail) /\ value \in Element
      /\ tail' = InsertedAt(tail, index, value) /\ groups' = groups
      /\ pc' \in {"idle", "seal"}
  BY DEF IInv, TypeOK, PlaceExists, InsertTail, AtTail, Return, Element
<1>2. /\ RowsIn(groups) \in Seq(Row) /\ Len(RowsIn(groups)) = Len(groups)
      /\ tail \in Seq(Element)
  BY RemainingType
<1>3. RowsOf(RowsIn(groups), InsertedAt(tail, index, value))
        = InsertedAt(RowsOf(RowsIn(groups), tail), Len(groups) * GroupSize + index, value)
  BY <1>1, <1>2, TailKeepsRows
<1>4. Remaining = InsertedAt(RowsOf(RowsIn(groups), tail), Len(groups) * GroupSize + index, value)
  BY <1>1, RemainingIs DEF VisibleOf
<1>5. Remaining' = RowsOf(RowsIn(groups'), tail')
  BY <1>1, RemainingIs DEF VisibleOf
<1> QED BY <1>1, <1>3, <1>4, <1>5

\* The tail becomes a group: its elements stay where they were.
LEMMA SealRemains ==
  ASSUME IInv, IInv', Seal
  PROVE  Remaining' = Remaining
<1>1. /\ TypeOK /\ TypeOK' /\ pc = "seal" /\ pc' = "idle" /\ Len(tail) = GroupSize
      /\ tail \in Buffer /\ groups' = Append(groups, Encode(tail)) /\ tail' = <<>>
  BY DEF IInv, TypeOK, PlaceExists, Seal, Return, Buffer
<1>2. /\ Encode(tail) \in AnyData /\ RowIn(Encode(tail)) = tail
  BY <1>1, RoundTrip, DataAssumption DEF AnyData, EncodedData, RowIn, Readable
<1>3. /\ groups \in Seq(AnyData) /\ RowsIn(groups) \in Seq(Row) /\ tail \in Seq(Element)
  BY RemainingType
<1>4. /\ RowsIn(Append(groups, Encode(tail))) = Append(RowsIn(groups), tail)
      /\ tail \in Row
  <2>1. /\ RowIn(Encode(tail)) \in Row
        /\ RowsIn(Append(groups, Encode(tail))) = Append(RowsIn(groups), RowIn(Encode(tail)))
    BY <1>2, <1>3, RowsInType
  <2> QED BY <1>2, <2>1
<1>5. RowsOf(Append(RowsIn(groups), tail), <<>>) = RowsOf(RowsIn(groups), tail)
  BY <1>1, <1>3, <1>4, SealKeepsRows
<1>6. Remaining = RowsOf(RowsIn(groups), tail) /\ Remaining' = RowsOf(RowsIn(groups'), tail')
  BY <1>1, RemainingIs DEF VisibleOf
<1> QED BY <1>1, <1>4, <1>5, <1>6

\* A call that throws in the loop, or where it would grow the tail, loses the value
\* it carries.
LEMMA FailureRemains ==
  ASSUME IInv, PointPassed, pc = "shift"
  PROVE  LET i == group * GroupSize + index
         IN /\ i \in array_index..(Len(Remaining) - 1)
            /\ RemovedAt(Remaining, i) = VisibleOf(groups, tail)
<1> DEFINE point == group * GroupSize + index
           seen == VisibleOf(groups, tail)
<1>1. seen \in Seq(Element) /\ point \in 0..Len(seen) /\ value \in Element
  BY RemainingType
<1>2. array_index \in Nat /\ array_index <= point
  BY DEF IInv, TypeOK, PointPassed
<1>3. Remaining = InsertedAt(seen, point, value)
  BY RemainingIs DEF IInv
<1> HIDE DEF point, seen
<1>4. Len(Remaining) = Len(seen) + 1
  BY <1>1, <1>3, InsertedAtType
<1>5. RemovedAt(Remaining, point) = seen
  BY <1>1, <1>3, RemovedInserted
<1>6. point \in array_index..(Len(Remaining) - 1)
  BY <1>1, <1>2, <1>4
<1> QED BY <1>5, <1>6 DEF point, seen

\* A group that is torn is blank.
LEMMA TornIsBlank ==
  ASSUME IInv, IInv', ShiftTears
  PROVE  /\ Remaining' = Blank(VisibleOf(groups, tail), group)
         /\ group \in 0..(Len(groups) - 1)
<1>1. /\ TypeOK /\ TypeOK' /\ pc = "shift" /\ group < Len(groups) /\ pc' = "idle"
      /\ groups' = [groups EXCEPT ![group + 1] = Torn] /\ tail' = tail
  BY DEF IInv, ShiftTears, Visiting, Return
<1> DEFINE g == group + 1
<1>2. g \in 1..Len(groups) /\ g - 1 = group /\ group \in 0..(Len(groups) - 1)
  BY <1>1 DEF TypeOK
<1>3. /\ groups \in Seq(AnyData) /\ RowsIn(groups) \in Seq(Row)
      /\ Len(RowsIn(groups)) = Len(groups) /\ tail \in Seq(Element)
  BY RemainingType
<1>4. Torn \in AnyData /\ RowIn(Torn) = Nothing
  BY DEF AnyData, RowIn, Readable
<1>5. /\ RowsIn([groups EXCEPT ![g] = Torn]) = [RowsIn(groups) EXCEPT ![g] = Nothing]
      /\ Nothing \in Row
  <2>1. /\ RowsIn([groups EXCEPT ![g] = Torn]) = [RowsIn(groups) EXCEPT ![g] = RowIn(Torn)]
        /\ RowIn(Torn) \in Row
    BY <1>2, <1>3, <1>4, RowsInType
  <2> QED BY <1>4, <2>1
<1> HIDE DEF g
<1>6. RowsOf([RowsIn(groups) EXCEPT ![g] = Nothing], tail)
        = Blank(RowsOf(RowsIn(groups), tail), g - 1)
  BY <1>2, <1>3, <1>5, RowBlanked
<1>7. Remaining' = RowsOf(RowsIn(groups'), tail')
  BY <1>1, RemainingIs DEF VisibleOf
<1> QED BY <1>1, <1>2, <1>5, <1>6, <1>7 DEF VisibleOf, g

\* A group that cannot be made takes up the places of its elements.
LEMMA NullIsBlank ==
  ASSUME IInv, IInv', pc = "seal", pc' = "idle", tail' = tail,
         NEW data \in {NoData, Torn}, groups' = Append(groups, data)
  PROVE  Remaining' = SubSeq(Remaining, 1, Len(groups) * GroupSize)
                        \o [k \in 1..GroupSize |-> NoValue] \o tail
<1>1. TypeOK /\ TypeOK'
  BY DEF IInv
<1>2. /\ groups \in Seq(AnyData) /\ RowsIn(groups) \in Seq(Row)
      /\ Len(RowsIn(groups)) = Len(groups) /\ tail \in Seq(Element)
  BY RemainingType
<1>3. data \in AnyData /\ RowIn(data) = Nothing
  BY DEF AnyData, RowIn, Readable
<1>4. RowsIn(Append(groups, data)) = Append(RowsIn(groups), Nothing) /\ Nothing \in Row
  <2>1. /\ RowsIn(Append(groups, data)) = Append(RowsIn(groups), RowIn(data))
        /\ RowIn(data) \in Row
    BY <1>2, <1>3, RowsInType
  <2> QED BY <1>3, <2>1
<1>5. RowsOf(Append(RowsIn(groups), Nothing), tail)
        = SubSeq(RowsOf(RowsIn(groups), tail), 1, Len(groups) * GroupSize) \o Nothing \o tail
  BY <1>2, <1>4, NothingAppended
<1>6. Remaining = RowsOf(RowsIn(groups), tail) /\ Remaining' = RowsOf(RowsIn(groups'), tail')
  BY <1>1, RemainingIs DEF VisibleOf
<1> QED BY <1>4, <1>5, <1>6 DEF Nothing

\* Every step keeps the place of the next value behind the insertion point.
LEMMA NextPointPassed == IInv /\ PointPassed /\ [Next]_vars => PointPassed'
<1> SUFFICES ASSUME TypeOK, PointPassed, [Next]_vars PROVE PointPassed'
  BY DEF IInv
<1> USE DEF PointPassed
<1>1. ASSUME NEW i \in Positions, NEW v \in Value, InsertAccepted(i, v)
      PROVE  PointPassed'
  <2>1. i \in Nat
    BY SizeAssumption DEF Positions
  <2>2. i = (i \div GroupSize) * GroupSize + (i % GroupSize)
    BY <2>1, SizeAssumption, Division
  <2>3. pc' = "shift" /\ array_index' = i
        /\ group' = i \div GroupSize /\ index' = i % GroupSize
    BY <1>1 DEF InsertAccepted
  <2>4. array_index' = group' * GroupSize + index'
    BY <2>2, <2>3
  <2>5. array_index' \in Nat
    BY <2>1, <2>3
  <2> QED BY <2>3, <2>4, <2>5
<1>2. CASE ShiftGroup
  <2>1. /\ group \in Nat /\ index \in 0..(GroupSize - 1) /\ array_index \in Nat
        /\ array_index <= group * GroupSize + index
        /\ pc' = "shift" /\ group' = group + 1 /\ index' = 0
        /\ array_index' = array_index
    BY <1>2 DEF ShiftGroup, Visiting, TypeOK
  <2>2. (group + 1) * GroupSize = group * GroupSize + GroupSize
        /\ group * GroupSize \in Nat
    BY <2>1, SizeAssumption, ProductNext, ProductType
  <2>3. array_index' <= group' * GroupSize + index'
    <3> DEFINE first == group * GroupSize
               next == (group + 1) * GroupSize
    <3>1. next = first + GroupSize /\ first \in Nat /\ array_index <= first + index
      BY <2>1, <2>2
    <3> HIDE DEF first, next
    <3>2. array_index <= next + 0
      BY <2>1, <3>1, SizeAssumption
    <3> QED BY <2>1, <3>2 DEF next
  <2> QED BY <2>1, <2>3
<1>3. CASE UNCHANGED <<pc, locals>>
  BY <1>3 DEF locals
<1>4. CASE pc' \in {"idle", "seal", "undefined"}
  BY <1>4
<1> QED
  BY <1>1, <1>2, <1>3, <1>4
  DEF Next, InsertStep, InsertRejected, ShiftFails, ShiftTears, ReadUndefined,
      InsertTail, TailFails, Seal, SealFails, Clear, Return, vars, locals

\* Whatever fails, and however often, insert() loses no element but those that
\* FailureIsContained lists.
THEOREM FailuresAreContained == Spec => FailureIsContained
<1> DEFINE Lost ==
      pc # "idle" =>
        \/ Remaining' = Remaining
        \/ /\ pc = "shift" /\ outcome' = "bad_alloc"
           /\ \E i \in array_index..(Len(Remaining) - 1) :
                LET rest == RemovedAt(Remaining, i)
                IN \/ Remaining' = rest
                   \/ \E g \in (array_index \div GroupSize)..(Len(groups) - 1) :
                        Remaining' = Blank(rest, g)
        \/ /\ pc = "seal" /\ outcome' = "bad_alloc"
           /\ LET front == SubSeq(Remaining, 1, Len(groups) * GroupSize)
              IN Remaining' = front \o [k \in 1..GroupSize |-> NoValue] \o tail
<1>1. GInv /\ PointPassed /\ [Next]_vars => [Lost]_vars
  <2> SUFFICES ASSUME GInv, PointPassed, Next, pc # "idle" PROVE Lost
    OBVIOUS
  <2>1. IInv /\ IInv' /\ TypeOK /\ TypeOK' /\ PassedBefore
    BY NextIInv DEF GInv, IInv
  <2>2. InsertStep
    BY DEF Next, InsertRejected, InsertAccepted, Clear
  <2>3. CASE ShiftGroup
    BY <2>1, <2>3, ShiftRemains
  <2>4. CASE ShiftFails \/ TailFails
    <3>1. /\ pc = "shift" /\ outcome' = "bad_alloc" /\ pc' = "idle"
          /\ groups' = groups /\ tail' = tail
      BY <2>4 DEF ShiftFails, TailFails, Visiting, AtTail, Return
    <3>2. PICK i \in array_index..(Len(Remaining) - 1) :
            RemovedAt(Remaining, i) = VisibleOf(groups, tail)
      BY <2>1, <3>1, FailureRemains
    <3>3. Remaining' = VisibleOf(groups, tail)
      BY <2>1, <3>1, RemainingIs
    <3> QED BY <3>1, <3>2, <3>3
  <2>5. CASE ShiftTears
    <3>1. pc = "shift" /\ outcome' = "bad_alloc"
      BY <2>5 DEF ShiftTears, Visiting, Return
    <3>2. PICK i \in array_index..(Len(Remaining) - 1) :
            RemovedAt(Remaining, i) = VisibleOf(groups, tail)
      BY <2>1, <3>1, FailureRemains
    <3>3. Remaining' = Blank(VisibleOf(groups, tail), group) /\ group \in 0..(Len(groups) - 1)
      BY <2>1, <2>5, TornIsBlank
    <3>4. group \in (array_index \div GroupSize)..(Len(groups) - 1)
      <4>1. array_index \div GroupSize \in Nat /\ array_index \div GroupSize <= group
        BY <2>1, <3>1, DivisionType DEF TypeOK, PassedBefore
      <4>2. Len(groups) \in Nat
        BY <2>1 DEF TypeOK
      <4> QED BY <3>3, <4>1, <4>2
    <3> QED BY <3>1, <3>2, <3>3, <3>4
  <2>6. CASE ReadUndefined
    <3>1. /\ pc = "shift" /\ pc' = "undefined" /\ groups' = groups /\ tail' = tail
          /\ group' = group /\ index' = index /\ value' = value
      BY <2>6 DEF ReadUndefined, Visiting, locals
    <3> QED BY <2>1, <3>1, RemainingIs
  <2>7. CASE InsertTail
    BY <2>1, <2>7, InsertTailRemains
  <2>8. CASE Seal
    BY <2>1, <2>8, SealRemains
  <2>9. CASE SealFails
    <3>1. /\ pc = "seal" /\ pc' = "idle" /\ outcome' = "bad_alloc" /\ tail' = tail
      BY <2>9 DEF SealFails, Return
    <3>2. CASE groups' = groups
      BY <2>1, <3>1, <3>2, RemainingIs
    <3>3. ASSUME NEW data \in {NoData, Torn}, groups' = Append(groups, data) PROVE Lost
      BY <2>1, <3>1, <3>3, NullIsBlank
    <3> QED BY <2>9, <3>2, <3>3 DEF SealFails
  <2> HIDE DEF Lost
  <2> QED BY <2>2, <2>3, <2>4, <2>5, <2>6, <2>7, <2>8, <2>9 DEF InsertStep
<1>2. Init => PointPassed
  BY DEF Init, PointPassed
<1>3. GInv => IInv
  BY DEF GInv
<1> QED
  BY InitGInv, NextGInv, NextPointPassed, <1>1, <1>2, <1>3, PTL
  DEF Spec, FailureIsContained, Lost

-------------------------------------------------------------------------------
(* The refinement.                                                          *)

RInv == IInv /\ EveryGroupIsFull /\ PointPassed /\ pc # "undefined"

\* The contents are those of the groups and the tail.
LEMMA ContentsDefined == TypeOK => Contents = ContentsOf(groups, tail)
<1> SUFFICES ASSUME TypeOK PROVE Contents = ContentsOf(groups, tail)
  OBVIOUS
<1> DEFINE packed == Len(groups) * GroupSize
           rows == [g \in 1..Len(groups) |-> Decode(groups[g])]
<1>1. Len(groups) \in Nat /\ Len(tail) \in Nat /\ packed \in Nat
  BY SizeAssumption, ProductType DEF TypeOK
<1>2. ASSUME NEW p \in 1..packed
      PROVE  rows[(p - 1) \div GroupSize + 1] = Decode(groups[(p - 1) \div GroupSize + 1])
  <2>1. PICK g \in 1..Len(groups), k \in 1..GroupSize : p = Place(g, k)
    BY <1>1, PlaceOf
  <2>2. (p - 1) \div GroupSize + 1 = g
    BY <1>1, <2>1, PlaceType
  <2> QED BY <2>2
<1>3. Len(rows) = Len(groups)
  BY <1>1
<1>4. ContentsOf(groups, tail) = RowsOf(rows, tail)
  BY DEF ContentsOf
<1> HIDE DEF rows
<1>5. RowsOf(rows, tail) =
        [p \in 1..(packed + Len(tail)) |->
           IF p <= packed
           THEN rows[(p - 1) \div GroupSize + 1][((p - 1) % GroupSize) + 1]
           ELSE tail[p - packed]]
  BY <1>3 DEF RowsOf
<1>6. Contents =
        [p \in 1..(packed + Len(tail)) |->
           IF p <= packed
           THEN Decode(groups[(p - 1) \div GroupSize + 1])[((p - 1) % GroupSize) + 1]
           ELSE tail[p - packed]]
  BY DEF Contents, Size
<1>7. \A p \in 1..(packed + Len(tail)) : p <= packed => p \in 1..packed
  <2> HIDE DEF packed
  <2> QED BY <1>1
<1> HIDE DEF packed
<1> QED BY <1>2, <1>4, <1>5, <1>6, <1>7

\* With groups that can be decoded, nothing of the contents is missing.
LEMMA NothingIsMissing ==
  ASSUME NEW gs \in Seq(EncodedData), NEW t \in Seq(Value)
  PROVE  VisibleOf(gs, t) = ContentsOf(gs, t)
<1>1. \A g \in 1..Len(gs) : RowIn(gs[g]) = Decode(gs[g])
  BY DataAssumption DEF RowIn, Readable, EncodedData
<1>2. RowsIn(gs) = [g \in 1..Len(gs) |-> Decode(gs[g])]
  BY <1>1 DEF RowsIn
<1> QED BY <1>2 DEF VisibleOf, ContentsOf

\* Groups that can be decoded are encoded data.
LEMMA GroupsType == TypeOK /\ EveryGroupIsFull => groups \in Seq(EncodedData)
<1> SUFFICES ASSUME TypeOK, EveryGroupIsFull PROVE groups \in Seq(EncodedData)
  OBVIOUS
<1>1. groups \in Seq(EncodedData \cup {NoData, Torn})
  BY DEF TypeOK
<1>2. \A g \in 1..Len(groups) : groups[g] \in EncodedData
  BY <1>1 DEF EveryGroupIsFull, Readable
<1> QED BY <1>1, <1>2

\* Then the sequence that the user sees is what is left of the contents.
LEMMA LogicalIsRemaining == RInv => LogicalContents = Remaining
<1> SUFFICES ASSUME RInv PROVE LogicalContents = Remaining
  OBVIOUS
<1>1. TypeOK /\ EveryGroupIsFull /\ pc # "undefined"
  BY DEF RInv, IInv
<1>2. Contents = VisibleOf(groups, tail)
  BY <1>1, GroupsType, ContentsDefined, NothingIsMissing DEF TypeOK
<1> QED BY <1>1, <1>2, RemainingIs DEF LogicalContents

\* A new array.
LEMMA InitRInv == Init => RInv
BY InitIInv DEF Init, RInv, EveryGroupIsFull, PointPassed

\* Every step keeps the invariant of the refinement.
LEMMA NextRInv ==
  ASSUME Faults \cap {"outliers", "seal"} = {}
  PROVE  RInv /\ [Next]_vars => RInv'
<1> SUFFICES ASSUME RInv, [Next]_vars PROVE pc' # "undefined"
  BY NextIInv, NextFull, NextPointPassed DEF RInv
<1>1. ~ReadUndefined
  BY DEF RInv, IInv, ReadUndefined, Visiting, EveryGroupIsFull, TypeOK
<1> QED
  BY <1>1
  DEF RInv, Next, InsertStep, InsertRejected, InsertAccepted, ShiftGroup, Visiting,
      ShiftFails, ShiftTears, InsertTail, TailFails, Seal, SealFails, Clear, Return,
      vars, locals

\* The calls of insert() are those of a sequence.
LEMMA InsertRefines ==
  ASSUME RInv, NEW i \in Positions, NEW v \in Value, InsertAccepted(i, v)
  PROVE  \E j \in 0..Len(LogicalContents) : Sequence!BeginInsert(j, v)
<1>1. /\ i \in Nat /\ GroupSize \in Nat \ {0}
  BY SizeAssumption DEF Positions
<1>2. TypeOK /\ Len(groups) \in Nat /\ Len(tail) \in Nat
  BY DEF RInv, IInv, TypeOK
<1>3. /\ i \div GroupSize \in Nat /\ i % GroupSize \in Nat
      /\ i = (i \div GroupSize) * GroupSize + (i % GroupSize)
  <2>1. i \div GroupSize \in Nat /\ i % GroupSize \in 0..(GroupSize - 1)
    BY <1>1, DivisionType
  <2>2. i = (i \div GroupSize) * GroupSize + (i % GroupSize)
    BY <1>1, Division
  <2> QED BY <1>1, <2>1, <2>2
<1>4. i \div GroupSize <= Len(groups) /\ i % GroupSize <= Len(tail)
  BY <1>2, <1>3 DEF InsertAccepted, OutOfRange
<1>5. /\ (i \div GroupSize) * GroupSize <= Len(groups) * GroupSize
      /\ (i \div GroupSize) * GroupSize \in Nat
      /\ Len(groups) * GroupSize \in Nat
  BY <1>1, <1>2, <1>3, <1>4, ProductOrder, ProductType
<1>6. i <= Len(groups) * GroupSize + Len(tail)
  <2> DEFINE first == (i \div GroupSize) * GroupSize
             packed == Len(groups) * GroupSize
  <2>1. first <= packed /\ first \in Nat /\ packed \in Nat
        /\ i = first + (i % GroupSize)
    BY <1>3, <1>5
  <2> HIDE DEF first, packed
  <2>2. i <= packed + Len(tail)
    BY <1>1, <1>2, <1>3, <1>4, <2>1
  <2> QED BY <2>2 DEF packed
<1>7. Len(Contents) = Len(groups) * GroupSize + Len(tail)
  <2>1. Contents = ContentsOf(groups, tail)
    BY ContentsDefined DEF RInv, IInv
  <2>2. Packed(Contents, groups, tail)
    BY <1>2, <2>1, ContentsAt
  <2> QED BY <2>2 DEF Packed
<1>8. LogicalContents = Contents /\ pc = "idle" /\ pc' = "shift"
      /\ array_index' = i /\ UNCHANGED outcome
  BY DEF InsertAccepted, LogicalContents
<1>9. LogicalContents' = InsertedAt(LogicalContents, i, v)
  <2>1. Contents' = Contents
    BY DEF InsertAccepted, Contents, Size
  <2>2. LogicalContents' = InsertedAt(Contents', group' * GroupSize + index', value')
    BY <1>8 DEF LogicalContents
  <2>3. group' * GroupSize + index' = i /\ value' = v
    BY <1>3 DEF InsertAccepted
  <2> QED BY <1>8, <2>1, <2>2, <2>3
<1>10. i \in 0..Len(LogicalContents)
  BY <1>1, <1>6, <1>7, <1>8
<1>11. Sequence!BeginInsert(i, v)
  BY <1>8, <1>9
  DEF Sequence!BeginInsert, Sequence!NoInsert, Sequence!InsertedAt, InsertedAt
<1> QED BY <1>10, <1>11

\* An allocation fails in the middle of the shift: the value that is in no group is
\* lost, and nothing in front of the insertion point.
LEMMA FailureRefines ==
  ASSUME RInv, RInv', LogicalContents' = Remaining', pc = "shift",
         UNCHANGED <<groups, tail>>, Return("bad_alloc")
  PROVE  Sequence!FailInsert
<1>1. IInv /\ TypeOK' /\ PointPassed /\ LogicalContents = Remaining /\ array_index \in Nat
  BY LogicalIsRemaining DEF RInv, IInv, TypeOK
<1>2. pc' = "idle" /\ outcome' = "bad_alloc"
  BY DEF Return
<1>3. PICK i \in array_index..(Len(Remaining) - 1) :
        RemovedAt(Remaining, i) = VisibleOf(groups, tail)
  BY <1>1, FailureRemains
<1>4. Remaining' = VisibleOf(groups, tail)
  BY <1>1, <1>2, RemainingIs
<1>5. RemovedAt(Remaining, i) = Sequence!RemovedAt(Remaining, i)
  BY DEF RemovedAt, Sequence!RemovedAt
<1>6. \E j \in array_index..(Len(LogicalContents) - 1) :
        LogicalContents' = Sequence!RemovedAt(LogicalContents, j)
  BY <1>1, <1>3, <1>4, <1>5
<1> QED BY <1>1, <1>2, <1>6 DEF Sequence!FailInsert, Sequence!NoInsert

\* As long as allocations fail only where no group has lost its data yet, the array
\* implements the sequence of module IntegerSequence: however a call of insert() is
\* spread over groups and tail, and whichever step of it fails, the user sees one
\* value inserted, or at most one element behind the insertion point lost.
THEOREM RefinesSequence ==
  ASSUME Faults \cap {"outliers", "seal"} = {}
  PROVE  Spec => ImplementsSequence
<1>1. Init => Sequence!Init
  <2> SUFFICES ASSUME Init PROVE LogicalContents = <<>> /\ pc = "idle" /\ outcome = "none"
    BY DEF Sequence!Init, Sequence!NoInsert
  <2>1. Size = 0 /\ pc = "idle" /\ outcome = "none"
    BY SizeAssumption DEF Init, Size
  <2>2. Contents = <<>>
    BY <2>1 DEF Contents
  <2> QED BY <2>1, <2>2 DEF LogicalContents
<1>2. RInv /\ RInv' /\ (LogicalContents = Remaining)' /\ [Next]_vars
        => [Sequence!Next]_(Sequence!seqVars)
  <2> SUFFICES ASSUME RInv, RInv', LogicalContents' = Remaining', [Next]_vars
               PROVE  Sequence!Next \/ UNCHANGED Sequence!seqVars
    OBVIOUS
  <2>t. /\ array_index \in Nat /\ EveryGroupIsFull /\ TypeOK /\ IInv /\ IInv'
        /\ LogicalContents = Remaining
    BY LogicalIsRemaining DEF RInv, IInv, TypeOK
  <2>1. ASSUME NEW i \in Positions, InsertRejected(i) PROVE Sequence!RejectInsert
    <3>1. LogicalContents' = LogicalContents
      BY <2>1 DEF InsertRejected, LogicalContents, Contents, Size
    <3> QED BY <2>1, <3>1
      DEF InsertRejected, locals, Sequence!RejectInsert, Sequence!NoInsert
  <2>2. ASSUME NEW i \in Positions, NEW v \in Value, InsertAccepted(i, v)
        PROVE  Sequence!Next
    BY <2>2, InsertRefines DEF Sequence!Next
  <2>3. CASE ShiftGroup
    <3>1. Remaining' = Remaining
      BY <2>3, <2>t, ShiftRemains
    <3>2. pc = "shift" /\ pc' = "shift" /\ array_index' = array_index /\ outcome' = outcome
      BY <2>3 DEF ShiftGroup, Visiting
    <3> QED BY <2>t, <3>1, <3>2 DEF Sequence!seqVars
  <2>4. CASE ShiftFails \/ TailFails
    <3>1. Sequence!FailInsert
      BY <2>4, FailureRefines DEF ShiftFails, TailFails, Visiting, AtTail
    <3> QED BY <3>1 DEF Sequence!Next
  <2>5. ~ShiftTears
    BY DEF ShiftTears
  <2>6. ~ReadUndefined
    BY <2>t DEF ReadUndefined, Visiting, EveryGroupIsFull, TypeOK
  <2>7. CASE InsertTail
    <3>1. LogicalContents' = LogicalContents
      BY <2>7, <2>t, InsertTailRemains
    <3>2. pc = "shift"
      BY <2>7 DEF InsertTail, AtTail
    <3>3. CASE pc' = "seal"
      <4>1. array_index' = array_index /\ outcome' = outcome
        BY <2>7, <3>3 DEF InsertTail, Return, locals
      <4> QED BY <3>1, <3>2, <3>3, <4>1 DEF Sequence!seqVars
    <3>4. CASE pc' = "idle"
      <4>1. outcome' = "ok"
        BY <2>7, <3>4 DEF InsertTail, Return
      <4> QED BY <2>t, <3>1, <3>2, <3>4, <4>1
        DEF Sequence!Next, Sequence!EndInsert, Sequence!NoInsert
    <3> QED BY <2>7, <3>3, <3>4 DEF InsertTail, Return
  <2>8. CASE Seal
    <3>1. LogicalContents' = LogicalContents
      BY <2>8, <2>t, SealRemains
    <3>2. pc = "seal" /\ pc' = "idle" /\ outcome' = "ok"
      BY <2>8 DEF Seal, Return
    <3> QED BY <2>t, <3>1, <3>2 DEF Sequence!Next, Sequence!EndInsert, Sequence!NoInsert
  <2>9. CASE SealFails
    <3>1. /\ UNCHANGED <<groups, tail>> /\ pc = "seal" /\ pc' = "idle"
          /\ outcome' = "bad_alloc"
      BY <2>9 DEF SealFails, Return
    <3>2. LogicalContents' = LogicalContents
      BY <3>1 DEF LogicalContents, Contents, Size
    <3>3. Sequence!FailInsert
      BY <2>t, <3>1, <3>2 DEF Sequence!FailInsert, Sequence!NoInsert
    <3> QED BY <3>3 DEF Sequence!Next
  <2>10. CASE Clear
    <3>1. Size' = 0 /\ pc = "idle" /\ pc' = "idle" /\ outcome' = outcome
      BY <2>10, SizeAssumption DEF Clear, Size
    <3>2. LogicalContents' = <<>>
      BY <3>1 DEF LogicalContents, Contents
    <3>3. Sequence!Clear
      BY <3>1, <3>2 DEF Sequence!Clear, Sequence!NoInsert
    <3> QED BY <3>3 DEF Sequence!Next
  <2>11. CASE UNCHANGED vars
    BY <2>11 DEF vars, locals, Sequence!seqVars, LogicalContents, Contents, Size
  <2> QED
    BY <2>1, <2>2, <2>3, <2>4, <2>5, <2>6, <2>7, <2>8, <2>9, <2>10, <2>11
    DEF Next, InsertStep, Sequence!Next
<1>3. RInv /\ [Next]_vars => RInv'
  BY NextRInv
<1> QED
  BY InitRInv, LogicalIsRemaining, <1>1, <1>2, <1>3, PTL
  DEF Spec, ImplementsSequence, Sequence!Spec

-------------------------------------------------------------------------------
(* Reading.                                                                 *)

\* at() reads the contents, whatever allocations have failed.
THEOREM AtReads == Spec => []AtReadsContents
<1>1. IInv => AtReadsContents
  <2> SUFFICES ASSUME IInv, pc = "idle", NEW i \in 0..(Size - 1), ~OutOfRange(i)
               PROVE  At(i) = Contents[i + 1]
    BY DEF AtReadsContents
  <2> DEFINE q == i \div GroupSize
             r == i % GroupSize
             packed == Len(groups) * GroupSize
  <2>1. Len(groups) \in Nat /\ Len(tail) \in Nat
    BY DEF IInv, TypeOK
  <2>2. packed \in Nat /\ i \in Nat /\ i < packed + Len(tail)
    <3>1. packed \in Nat
      BY <2>1, SizeAssumption, ProductType
    <3>2. Size = packed + Len(tail)
      BY DEF Size
    <3> HIDE DEF packed
    <3> QED BY <2>1, <3>1, <3>2
  <2>3. q \in Nat /\ r \in 0..(GroupSize - 1) /\ i = q * GroupSize + r
    BY <2>2, SizeAssumption, Division
  <2>4. /\ \A g \in 1..Len(groups), k \in 1..GroupSize :
             Contents[Place(g, k)] = Decode(groups[g])[k]
        /\ \A k \in 1..Len(tail) : Contents[packed + k] = tail[k]
    <3>1. Contents = ContentsOf(groups, tail)
      BY ContentsDefined DEF IInv
    <3>2. Packed(Contents, groups, tail)
      BY <2>1, <3>1, ContentsAt
    <3> QED BY <3>2 DEF Packed
  <2>5. At(i) = IF q < Len(groups) THEN Decode(groups[q + 1])[r + 1] ELSE tail[r + 1]
    BY DEF At, GroupAt
  <2>6. q <= Len(groups)
    BY <2>1, <2>3 DEF OutOfRange
  <2>7. CASE q < Len(groups)
    <3>1. q + 1 \in 1..Len(groups) /\ r + 1 \in 1..GroupSize
      BY <2>1, <2>3, <2>7, SizeAssumption
    <3>2. Place(q + 1, r + 1) = i + 1
      BY <2>3, SizeAssumption, ProductType DEF Place
    <3> HIDE DEF q, r
    <3>3. Contents[Place(q + 1, r + 1)] = Decode(groups[q + 1])[r + 1]
      BY <2>4, <3>1
    <3> QED BY <2>5, <2>7, <3>2, <3>3
  <2>8. CASE q = Len(groups)
    <3>1. i = packed + r
      BY <2>3, <2>8
    <3> HIDE DEF q, r, packed
    <3>2. r + 1 \in 1..Len(tail) /\ i + 1 = packed + (r + 1)
      BY <2>1, <2>2, <2>3, <3>1
    <3>3. PICK k \in 1..Len(tail) : k = r + 1
      BY <3>2
    <3>4. Contents[packed + k] = tail[k]
      BY <2>4
    <3> QED BY <2>5, <2>8, <3>2, <3>3, <3>4
  <2> QED BY <2>1, <2>3, <2>6, <2>7, <2>8
<1> QED BY InitIInv, NextIInv, <1>1, PTL DEF Spec

\* The least number of a set that has one.
LEMMA MinIs ==
  ASSUME NEW S, S \subseteq Nat, NEW x \in S, \A y \in S : x <= y
  PROVE  Min(S) = x
<1>1. \A z \in S : (\A y \in S : z =< y) => z = x
  OBVIOUS
<1> QED BY <1>1 DEF Min

\* Where the first index of a value is, and that there is none.
LEMMA FirstIndexIs ==
  ASSUME NEW S, NEW s \in Seq(S), NEW v,
         NEW p \in 1..Len(s), s[p] = v, \A j \in 1..Len(s) : j < p => s[j] # v
  PROVE  FirstIndex(s, v) = p - 1
<1> DEFINE hits == {j \in DOMAIN s : s[j] = v}
<1>1. hits \subseteq Nat /\ p \in hits /\ \A j \in hits : p <= j
  OBVIOUS
<1>2. Min(hits) = p
  BY <1>1, MinIs
<1>3. FirstIndex(s, v) = IF hits = {} THEN NotFound ELSE Min(hits) - 1
  BY DEF FirstIndex
<1> HIDE DEF hits
<1> QED BY <1>1, <1>2, <1>3

LEMMA FirstIndexOf ==
  ASSUME NEW S, NEW s \in Seq(S), NEW v
  PROVE  \/ /\ FirstIndex(s, v) = NotFound
            /\ \A p \in 1..Len(s) : s[p] # v
         \/ \E p \in 1..Len(s) : /\ FirstIndex(s, v) = p - 1
                                 /\ s[p] = v
                                 /\ \A j \in 1..Len(s) : j < p => s[j] # v
<1> DEFINE hits == {p \in DOMAIN s : s[p] = v}
<1>1. CASE hits = {}
  BY <1>1 DEF FirstIndex
<1>2. CASE hits # {}
  <2>1. hits \subseteq Nat
    OBVIOUS
  <2>2. PICK p \in hits : \A j \in hits : p <= j
    <3> HIDE DEF hits
    <3> QED BY <1>2, <2>1, LeastNumber
  <2>3. p \in 1..Len(s) /\ s[p] = v
    BY <2>2
  <2>4. \A j \in 1..Len(s) : j < p => s[j] # v
    BY <2>2, <2>3
  <2>5. FirstIndex(s, v) = p - 1
    BY <2>3, <2>4, FirstIndexIs
  <2> QED BY <2>3, <2>4, <2>5
<1> QED BY <1>1, <1>2

\* find() in groups that can be decoded and a tail.
LEMMA FindIsFirst ==
  ASSUME groups \in Seq(EncodedData), tail \in Seq(Value), NEW v \in Value,
         Contents = ContentsOf(groups, tail)
  PROVE  Find(v) = FirstIndex(Contents, v)
<1> DEFINE hits == {g \in DOMAIN groups : FindIn(groups[g], v) # NotFound}
           packed == Len(groups) * GroupSize
           inTail == FirstIndex(tail, v)
<1>1. Len(groups) \in Nat /\ Len(tail) \in Nat
      /\ DOMAIN groups = 1..Len(groups) /\ GroupSize \in Nat \ {0}
  BY SizeAssumption
<1>2. /\ packed \in Nat /\ Len(Contents) = packed + Len(tail)
      /\ Contents \in Seq(Element)
      /\ \A g \in 1..Len(groups), k \in 1..GroupSize :
           Contents[Place(g, k)] = Decode(groups[g])[k]
      /\ \A k \in 1..Len(tail) : Contents[packed + k] = tail[k]
  <2>1. groups \in Seq(AnyData) /\ tail \in Seq(Element)
    BY DEF AnyData, Element
  <2>2. RowsIn(groups) \in Seq(Row)
    BY <2>1, RowsInType
  <2>3. VisibleOf(groups, tail) \in Seq(Element)
    BY <2>1, <2>2, RowsType DEF VisibleOf
  <2>4. Contents \in Seq(Element)
    BY <2>3, NothingIsMissing
  <2>5. Packed(Contents, groups, tail)
    BY <1>1, ContentsAt
  <2> QED BY <2>4, <2>5 DEF Packed
<1>3. ASSUME NEW g \in 1..Len(groups)
      PROVE  /\ Decode(groups[g]) \in Seq(Value) /\ Len(Decode(groups[g])) = GroupSize
             /\ FindIn(groups[g], v) = FirstIndex(Decode(groups[g]), v)
  <2>1. PICK b \in Buffer : groups[g] = Encode(b)
    BY DEF EncodedData
  <2>2. Decode(groups[g]) = b /\ FindIn(groups[g], v) = FirstIndex(b, v)
    BY <2>1, RoundTrip, FindContract
  <2>3. b \in Seq(Value) /\ Len(b) = GroupSize
    BY <1>1 DEF Buffer
  <2> QED BY <2>2, <2>3
<1>4. Find(v) = IF hits # {}
                THEN (Min(hits) - 1) * GroupSize + FindIn(groups[Min(hits)], v)
                ELSE IF inTail # NotFound THEN packed + inTail ELSE NotFound
  BY DEF Find
<1>5. ASSUME NEW g \in 1..Len(groups), g \notin hits, NEW k \in 1..GroupSize
      PROVE  Contents[Place(g, k)] # v
  <2>1. FirstIndex(Decode(groups[g]), v) = NotFound
    BY <1>1, <1>3, <1>5
  <2>2. \A j \in 1..GroupSize : Decode(groups[g])[j] # v
    BY <1>1, <1>3, <2>1, FirstIndexOf DEF NotFound
  <2> QED BY <1>2, <2>2
<1>6. CASE hits # {}
  <2>1. hits \subseteq Nat
    BY <1>1
  <2>2. PICK g \in hits : \A h \in hits : g <= h
    <3> HIDE DEF hits
    <3> QED BY <1>6, <2>1, LeastNumber
  <2>3. Min(hits) = g /\ g \in 1..Len(groups)
    <3>1. g \in 1..Len(groups)
      BY <1>1, <2>2
    <3> HIDE DEF hits
    <3> QED BY <2>1, <2>2, <3>1, MinIs
  <2>4. FirstIndex(Decode(groups[g]), v) # NotFound
    BY <1>3, <2>2, <2>3
  <2>5. PICK k \in 1..GroupSize :
          /\ FirstIndex(Decode(groups[g]), v) = k - 1
          /\ Decode(groups[g])[k] = v
          /\ \A j \in 1..GroupSize : j < k => Decode(groups[g])[j] # v
    <3>1. PICK b \in Seq(Value) : b = Decode(groups[g])
      BY <1>3, <2>3
    <3>2. Len(b) = GroupSize /\ FirstIndex(b, v) # NotFound
      BY <1>3, <2>3, <2>4, <3>1
    <3> HIDE DEF hits, packed, inTail
    <3>3. \E k \in 1..Len(b) : /\ FirstIndex(b, v) = k - 1
                               /\ b[k] = v
                               /\ \A j \in 1..Len(b) : j < k => b[j] # v
      BY <3>2, FirstIndexOf
    <3> QED BY <3>1, <3>2, <3>3
  <2>6. Place(g, k) \in 1..packed /\ Contents[Place(g, k)] = v
    BY <1>1, <1>2, <2>3, <2>5, PlaceType
  <2>7. ASSUME NEW p \in 1..Len(Contents), p < Place(g, k) PROVE Contents[p] # v
    <3>1. p \in 1..packed
      <4> HIDE DEF packed
      <4> QED BY <1>1, <1>2, <2>6, <2>7
    <3>2. PICK h \in 1..Len(groups), j \in 1..GroupSize : p = Place(h, j)
      BY <1>1, <3>1, PlaceOf
    <3>3. CASE h \notin hits
      BY <1>5, <3>2, <3>3
    <3>4. CASE h = g
      <4>1. j < k
        <5>1. (g - 1) * GroupSize \in Nat
          BY <1>1, <2>3, RowOf
        <5>2. (g - 1) * GroupSize + j < (g - 1) * GroupSize + k
          BY <2>7, <3>2, <3>4 DEF Place
        <5> HIDE DEF hits
        <5>3. PICK x \in Nat : x = (g - 1) * GroupSize
          BY <5>1
        <5>4. x + j < x + k
          BY <5>2, <5>3
        <5> QED BY <5>3, <5>4
      <4> QED BY <1>2, <2>5, <3>2, <3>4, <4>1
    <3>5. CASE h \in hits /\ h # g
      <4>1. g < h
        <5>1. g <= h
          BY <2>2, <3>5
        <5> HIDE DEF hits
        <5> QED BY <1>1, <2>3, <3>2, <3>5, <5>1
      <4>2. g \in Nat /\ h - 1 \in Nat /\ g <= h - 1
        <5> HIDE DEF hits
        <5> QED BY <2>3, <3>2, <4>1
      <4>3. g * GroupSize <= (h - 1) * GroupSize
        BY <1>1, <4>2, ProductOrder
      <4>4. Place(g, k) <= g * GroupSize
        BY <1>1, <2>3, PlaceType
      <4>5. (h - 1) * GroupSize < p
        <5>1. (h - 1) * GroupSize \in Nat
          BY <1>1, <4>2, ProductType
        <5> QED BY <3>2, <5>1 DEF Place
      <4>6. g * GroupSize \in Nat /\ (h - 1) * GroupSize \in Nat
        BY <1>1, <4>2, ProductType
      <4>7. FALSE
        <5> DEFINE x == g * GroupSize
                   y == (h - 1) * GroupSize
        <5>1. x \in Nat /\ y \in Nat /\ x <= y /\ Place(g, k) <= x /\ y < p
          BY <4>3, <4>4, <4>5, <4>6
        <5> HIDE DEF x, y, packed, hits
        <5> QED BY <1>2, <2>6, <2>7, <5>1
      <4> QED BY <4>7
    <3> QED BY <3>3, <3>4, <3>5
  <2>8. Place(g, k) \in 1..Len(Contents)
    <3> HIDE DEF packed
    <3> QED BY <1>1, <1>2, <2>6
  <2>9. FirstIndex(Contents, v) = Place(g, k) - 1
    <3>1. PICK x \in 1..Len(Contents) : x = Place(g, k)
      BY <2>8
    <3>2. Contents[x] = v /\ \A p \in 1..Len(Contents) : p < x => Contents[p] # v
      BY <2>6, <2>7, <3>1
    <3> HIDE DEF hits, packed
    <3>3. FirstIndex(Contents, v) = x - 1
      BY <1>2, <3>2, FirstIndexIs, ZenonT(30)
    <3> QED BY <3>1, <3>3
  <2>10. Find(v) = (g - 1) * GroupSize + (k - 1)
    BY <1>3, <1>4, <1>6, <2>3, <2>5
  <2>11. (g - 1) * GroupSize \in Nat
    BY <1>1, <2>3, RowOf
  <2> HIDE DEF hits
  <2> QED BY <2>9, <2>10, <2>11 DEF Place
<1>7. CASE hits = {}
  <2>1. ASSUME NEW p \in 1..packed PROVE Contents[p] # v
    <3>1. PICK h \in 1..Len(groups), j \in 1..GroupSize : p = Place(h, j)
      BY <1>1, PlaceOf
    <3> QED BY <1>5, <1>7, <3>1
  <2> HIDE DEF hits, packed
  <2>2. CASE inTail = NotFound
    <3>1. \A k \in 1..Len(tail) : tail[k] # v
      BY <2>2, FirstIndexOf DEF NotFound
    <3>2. ASSUME NEW p \in 1..Len(Contents) PROVE Contents[p] # v
      <4>1. CASE p <= packed
        BY <1>2, <2>1, <4>1
      <4>2. CASE p > packed
        <5>1. p - packed \in 1..Len(tail) /\ p = packed + (p - packed)
          BY <1>1, <1>2, <4>2
        <5> QED BY <1>2, <3>1, <5>1
      <4> QED BY <1>2, <4>1, <4>2
    <3>3. FirstIndex(Contents, v) = NotFound
      BY <1>2, <3>2, FirstIndexOf
    <3> QED BY <1>4, <1>7, <2>2, <3>3
  <2>3. CASE inTail # NotFound
    <3>1. PICK k \in 1..Len(tail) :
            /\ inTail = k - 1
            /\ tail[k] = v
            /\ \A j \in 1..Len(tail) : j < k => tail[j] # v
      BY <2>3, FirstIndexOf
    <3>2. PICK x \in 1..Len(Contents) : x = packed + k
      BY <1>1, <1>2
    <3>3. Contents[x] = v
      BY <1>2, <3>1, <3>2
    <3>4. ASSUME NEW p \in 1..Len(Contents), p < x PROVE Contents[p] # v
      <4>1. CASE p <= packed
        BY <1>2, <2>1, <4>1
      <4>2. CASE p > packed
        <5>1. PICK j \in 1..Len(tail) : p = packed + j
          <6>1. p - packed \in 1..Len(tail) /\ p = packed + (p - packed)
            BY <1>1, <1>2, <4>2
          <6> QED BY <6>1
        <5>2. j < k
          BY <1>1, <1>2, <3>2, <3>4, <5>1
        <5> QED BY <1>2, <3>1, <5>1, <5>2
      <4> QED BY <1>2, <4>1, <4>2
    <3>5. FirstIndex(Contents, v) = x - 1
      BY <1>2, <3>3, <3>4, FirstIndexIs, ZenonT(30)
    <3> QED BY <1>1, <1>2, <1>4, <1>7, <2>3, <3>1, <3>2, <3>5
  <2> QED BY <2>2, <2>3
<1> QED BY <1>6, <1>7

\* find() is the first index of the value in the contents, as long as no group has
\* lost its data.
THEOREM FindReads ==
  ASSUME Faults \cap {"outliers", "seal"} = {}
  PROVE  Spec => []FindsFirst
<1>1. RInv => FindsFirst
  BY GroupsType, ContentsDefined, FindIsFirst DEF RInv, IInv, FindsFirst, TypeOK
<1>2. RInv /\ [Next]_vars => RInv'
  BY NextRInv
<1> QED BY InitRInv, <1>1, <1>2, PTL DEF Spec

================================================================================
