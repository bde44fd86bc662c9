------------------------------ MODULE CodecClientProofs ------------------------------
(*************************************************************************)
(* What the two clients of the integer codec promise, for every value of *)
(* the constants: one who sends sequence after sequence with metadata it *)
(* reuses (CodecSession), and a group, which keeps its integers in       *)
(* memory and searches them (IntegerGroup).  The last section joins the  *)
(* group to the array: what IntegerArray assumes of its codec is true of *)
(* this one.                                                             *)
(*************************************************************************)
EXTENDS CodecSession, IntegerGroup, IntegerCodecProofs

-------------------------------------------------------------------------------
(* A message: metadata and data, one behind the other.                      *)

\* What is sent, and what is read of it.
IsMessage(bytes, m, ints) == bytes = MetaBytes(m) \o DataBytes(m, ints)
IsRead(read, reading, bytes) == read = ReadMeta(reading, bytes)

-------------------------------------------------------------------------------
(* The session.                                                             *)

\* The metadata of a sequence under way describe it.
Described == \E o \in Nat : Fits(writer, message, o) /\ (cleared => o = 0)

\* The inductive invariant: after a selection the writer's metadata describe the
\* message, what is written are their bytes, and what is read is the message.
SessionInv ==
  /\ phase \in {"ready", "selected", "written", "read"}
  /\ writer \in MetaRecords /\ reader \in MetaRecords
  /\ buffer \in Seq(ByteValues)
  /\ phase # "ready" => message \in Sent /\ Described
  /\ phase = "written" =>
       /\ buffer = MetaBytes(writer) \o DataBytes(writer, message)
       /\ reserved = Metaspace(writer) + Dataspace(writer)
  /\ phase = "read" => received = message

\* The invariant holds of the initial states.
LEMMA SessionStarts == SessionInit => SessionInv
<1>1. <<>> \in Seq(ByteValues)
  OBVIOUS
<1> QED BY <1>1, ClearFacts DEF SessionInit, SessionInv

\* What is sent is a sequence whose length fits in a word.
LEMMA SentFacts ==
  ASSUME NEW s \in Sent
  PROVE  s \in Seq(Original) /\ UsedCount(Len(s)) <= WordBits
BY SessionAssumption

\* A message is as long as its parts, and they stand in it.
LEMMA WrittenLaid ==
  ASSUME NEW m, NEW ints \in Seq(Original), NEW old \in Nat, Fits(m, ints, old),
         NEW bytes, bytes = MetaBytes(m) \o DataBytes(m, ints)
  PROVE  /\ bytes \in Seq(ByteValues)
         /\ Len(bytes) = Len(MetaBytes(m)) + m.value_desc.dataspace
         /\ StandsAt(bytes, 1, MetaBytes(m))
         /\ StandsAt(bytes, 1 + Len(MetaBytes(m)), DataBytes(m, ints))
<1>1. PICK a \in Seq(ByteValues), b \in Seq(ByteValues) :
        /\ a = MetaBytes(m) /\ b = DataBytes(m, ints) /\ Len(b) = m.value_desc.dataspace
  BY WrittenMeta, WrittenData
<1>2. a \o b \in Seq(ByteValues) /\ Len(a \o b) = Len(a) + Len(b)
  BY ConcatProperties
<1>3. bytes = a \o b /\ bytes \in Seq(ByteValues)
  BY <1>1, <1>2
<1>4. StandsAt(bytes, 1, a \o b)
  BY <1>3, StandsAlone
<1>5. StandsAt(bytes, 1, a) /\ StandsAt(bytes, 1 + Len(a), b)
  BY <1>3, <1>4, StandsBehind
<1> QED BY <1>1, <1>2, <1>3, <1>5

\* A message is read back by any reader.
LEMMA MessageReadsBack ==
  ASSUME NEW m, NEW ints \in Seq(Original), NEW old \in Nat, Fits(m, ints, old),
         NEW bytes, IsMessage(bytes, m, ints),
         NEW reading \in MetaRecords, NEW read, IsRead(read, reading, bytes)
  PROVE  /\ read.meta \in MetaRecords
         /\ ReadData(read.meta, bytes, read.next, Len(ints)) = ints
<1>1. /\ bytes \in Seq(ByteValues)
      /\ StandsAt(bytes, 1, MetaBytes(m))
      /\ StandsAt(bytes, 1 + Len(MetaBytes(m)), DataBytes(m, ints))
  <2>1. bytes = MetaBytes(m) \o DataBytes(m, ints)
    BY DEF IsMessage
  <2> QED BY <2>1, WrittenLaid
<1>2. MetaFits(m) /\ MetaBytes(m) \in Seq(ByteValues)
  BY WrittenMeta
<1>3. MetaRead(read, m)
  <2>1. read = ReadMeta(reading, bytes)
    BY DEF IsRead
  <2> QED BY <1>1, <1>2, <2>1, MetaReadsBack
<1>4. /\ read.meta \in MetaRecords /\ SameChoice(read.meta, m)
      /\ read.next = 1 + Len(MetaBytes(m))
  BY <1>3 DEF MetaRead
<1>5. PICK at \in Nat : at = 1 + Len(MetaBytes(m))
  <2>1. Len(MetaBytes(m)) \in Nat
    BY <1>2, LenProperties
  <2> QED BY <2>1
<1>6. ReadData(read.meta, bytes, at, Len(ints)) = ints
  BY <1>1, <1>4, <1>5, DataReadsBack
<1> QED BY <1>4, <1>5, <1>6

\* Every step preserves the invariant.
LEMMA SessionSteps == SessionInv /\ [SessionNext]_sessionVars => SessionInv'
<1> SUFFICES ASSUME SessionInv, [SessionNext]_sessionVars PROVE SessionInv'
  OBVIOUS
<1>1. CASE ClearWriter
  BY <1>1, ClearFacts DEF SessionInv, ClearWriter
<1>2. ASSUME NEW s \in Sent, SelectFor(s) PROVE SessionInv'
  <2>1. PICK before \in MetaRecords : before = writer
    BY DEF SessionInv
  <2>2. PICK after : after = Select(before, s)
    OBVIOUS
  <2>3. s \in Seq(Original) /\ UsedCount(Len(s)) <= WordBits
    BY SentFacts
  <2>4. PICK o \in {0, before.value_desc.metaspace} : Selected(after, s, o)
    BY <2>2, <2>3, SelectFits
  <2>5. o \in Nat /\ Fits(after, s, o)
    BY <2>4 DEF Selected, MetaRecords, Descriptors
  <2>6. writer' = after /\ message' = s /\ cleared' = (before = ClearMetadata)
    BY <1>2, <2>1, <2>2 DEF SelectFor
  <2>7. cleared' => o = 0
    BY <2>4, <2>6, ClearFacts
  <2>8. Described'
    BY <2>5, <2>6, <2>7 DEF Described
  <2>9. writer' \in MetaRecords
    BY <2>5, <2>6 DEF Fits
  <2> QED BY <1>2, <2>6, <2>8, <2>9 DEF SessionInv, SelectFor
<1>3. CASE Write
  <2>1. message \in Sent /\ Described
    BY <1>3 DEF SessionInv, Write
  <2>2. PICK o \in Nat : Fits(writer, message, o)
    BY <2>1 DEF Described
  <2>0. PICK ints \in Seq(Original) : ints = message
    BY <2>1, SentFacts
  <2>3. PICK m : ints = message /\ m = writer
    BY <2>0
  <2>4. PICK bytes : bytes = MetaBytes(m) \o DataBytes(m, ints)
    OBVIOUS
  <2>5. bytes \in Seq(ByteValues)
    BY <2>2, <2>3, <2>4, WrittenLaid
  <2>6. Described'
    BY <1>3, <2>1 DEF Described, Write
  <2>7. buffer' = bytes
    BY <1>3, <2>3, <2>4 DEF Write
  <2> QED BY <1>3, <2>1, <2>5, <2>6, <2>7 DEF SessionInv, Write
<1>4. CASE Read
  <2>1. message \in Sent /\ Described
    BY <1>4 DEF SessionInv, Read
  <2>2. PICK o \in Nat : Fits(writer, message, o)
    BY <2>1 DEF Described
  <2>3. PICK ints, m, bytes, reading :
          /\ ints = message /\ m = writer /\ bytes = buffer /\ reading = reader
          /\ ints \in Seq(Original) /\ reading \in MetaRecords
    <3>1. message \in Seq(Original) /\ reader \in MetaRecords
      BY <2>1, SentFacts DEF SessionInv
    <3> QED BY <3>1
  <2>4. Fits(m, ints, o) /\ bytes = MetaBytes(m) \o DataBytes(m, ints)
    BY <1>4, <2>2, <2>3 DEF SessionInv, Read
  <2>5. PICK read : read = ReadMeta(reading, bytes)
    OBVIOUS
  <2>6. /\ read.meta \in MetaRecords
        /\ ReadData(read.meta, bytes, read.next, Len(ints)) = ints
    <3>1. IsMessage(bytes, m, ints) /\ IsRead(read, reading, bytes)
      BY <2>4, <2>5 DEF IsMessage, IsRead
    <3>2. Fits(m, ints, o) /\ ints \in Seq(Original) /\ reading \in MetaRecords /\ o \in Nat
      BY <2>3, <2>4
    <3> QED BY ONLY <3>1, <3>2, MessageReadsBack
  <2>7. reader' = read.meta /\ received' = ints
    BY <1>4, <2>3, <2>5, <2>6 DEF Read
  <2>8. Described'
    BY <1>4, <2>1 DEF Described, Read
  <2> QED BY <1>4, <2>1, <2>3, <2>6, <2>7, <2>8 DEF SessionInv, Read
<1>5. CASE Finish
  <2>1. <<>> \in Seq(ByteValues)
    OBVIOUS
  <2> QED BY <1>5, <2>1 DEF SessionInv, Finish
<1>6. CASE UNCHANGED sessionVars
  BY <1>6 DEF SessionInv, Described, sessionVars
<1> QED BY <1>1, <1>2, <1>3, <1>4, <1>5, <1>6 DEF SessionNext

\* The invariant tells what the properties say.
LEMMA SessionInvSays ==
  SessionInv => SessionTypeOK /\ ReceivesWhatWasSent /\ NeverOverflows /\ ExactWhenCleared
<1> SUFFICES ASSUME SessionInv
             PROVE  SessionTypeOK /\ ReceivesWhatWasSent /\ NeverOverflows /\ ExactWhenCleared
  OBVIOUS
<1>1. SessionTypeOK
  <2>1. \A k \in DOMAIN buffer : buffer[k] \in 0..(2^ByteBits - 1)
    <3>1. buffer \in Seq(ByteValues)
      BY DEF SessionInv
    <3>2. PICK b \in Seq(ByteValues) : b = buffer
      BY <3>1
    <3>3. \A k \in DOMAIN b : b[k] \in ByteValues
      OBVIOUS
    <3> QED BY <3>2, <3>3 DEF ByteValues
  <2>2. {writer, reader} \subseteq MetaRecords
    BY DEF SessionInv
  <2> QED BY <2>1, <2>2, EncodingsFacts DEF SessionTypeOK, MetaRecords, Descriptors
<1>2. ReceivesWhatWasSent
  BY DEF SessionInv, ReceivesWhatWasSent
<1>3. ASSUME phase = "written"
      PROVE  Len(buffer) <= reserved /\ (cleared => Len(buffer) = reserved)
  <2>1. /\ message \in Sent /\ Described
        /\ buffer = MetaBytes(writer) \o DataBytes(writer, message)
        /\ reserved = Metaspace(writer) + Dataspace(writer)
    BY <1>3 DEF SessionInv
  <2>2. PICK o \in Nat : Fits(writer, message, o) /\ (cleared => o = 0)
    BY <2>1 DEF Described
  <2>0. PICK ints \in Seq(Original) : ints = message
    BY <2>1, SentFacts
  <2>3. PICK m, bytes : ints = message /\ m = writer /\ bytes = buffer
    BY <2>0
  <2>4. /\ Fits(m, ints, o) /\ bytes = MetaBytes(m) \o DataBytes(m, ints)
    BY <2>1, <2>2, <2>3
  <2>5. Len(bytes) = Len(MetaBytes(m)) + m.value_desc.dataspace
    BY <2>4, WrittenLaid
  <2>6. /\ m.value_desc.metaspace \in Nat
        /\ Len(MetaBytes(m)) =
             1 + (IF m.value_desc.encoding = "normal" THEN 0 ELSE m.value_desc.metaspace)
        /\ m.value_desc.encoding = "normal" => m.value_desc.metaspace = o
    BY <2>4, WrittenMeta
  <2>7. PICK ms \in Nat, ds \in Nat : ms = m.value_desc.metaspace /\ ds = m.value_desc.dataspace
    <3>1. m.value_desc.dataspace \in Nat
      BY <2>4 DEF Fits, MetaRecords, Descriptors
    <3> QED BY <2>6, <3>1
  <2>8. reserved = (1 + ms) + ds
    BY <2>1, <2>3, <2>7 DEF Metaspace, Dataspace
  <2>9. CASE m.value_desc.encoding = "normal"
    <3>1. Len(bytes) = 1 + ds /\ ms = o
      BY <2>5, <2>6, <2>7, <2>9
    <3> QED BY <2>2, <2>3, <2>7, <2>8, <3>1
  <2>10. CASE m.value_desc.encoding # "normal"
    <3>1. Len(bytes) = (1 + ms) + ds
      BY <2>5, <2>6, <2>7, <2>10
    <3> QED BY <2>3, <2>8, <3>1
  <2> QED BY <2>9, <2>10
<1>4. NeverOverflows /\ ExactWhenCleared
  BY <1>3 DEF NeverOverflows, ExactWhenCleared
<1> QED BY <1>1, <1>2, <1>4

\* The invariant holds of every reachable state.
LEMMA SessionHolds == SessionSpec => []SessionInv
<1>1. SessionInit => SessionInv
  BY SessionStarts
<1>2. SessionInv /\ [SessionNext]_sessionVars => SessionInv'
  BY SessionSteps
<1> QED BY <1>1, <1>2, PTL DEF SessionSpec

\* Every field of the metadata of both sides, and every byte, is in range.
THEOREM SessionTypesHold == SessionSpec => []SessionTypeOK
<1>1. SessionInv => SessionTypeOK
  BY SessionInvSays
<1> QED BY <1>1, SessionHolds, PTL

\* What is read is what was sent, whatever both metadata objects held before.
THEOREM EverySequenceArrives == SessionSpec => []ReceivesWhatWasSent
<1>1. SessionInv => ReceivesWhatWasSent
  BY SessionInvSays
<1> QED BY <1>1, SessionHolds, PTL

\* No more is written than was reserved.
THEOREM ReservedIsEnough == SessionSpec => []NeverOverflows
<1>1. SessionInv => NeverOverflows
  BY SessionInvSays
<1> QED BY <1>1, SessionHolds, PTL

\* As much is written as was reserved with clear metadata.
THEOREM ReservedIsExact == SessionSpec => []ExactWhenCleared
<1>1. SessionInv => ExactWhenCleared
  BY SessionInvSays
<1> QED BY <1>1, SessionHolds, PTL

-------------------------------------------------------------------------------
(* The memory of a group.                                                   *)

\* The padded place of the data is behind the metadata, and by less than a word.
LEMMA OffsetFacts ==
  ASSUME NEW x \in Nat, NEW flag \in BOOLEAN
  PROVE  /\ Offset(x, flag) \in Nat /\ x <= Offset(x, flag)
         /\ Offset(1 + x, flag) <= x + Offset(1, flag)
<1>1. PICK a \in Nat \ {0} : a = Alignment
  BY AlignmentAssumption
<1>2. CASE flag
  <2>1. ASSUME NEW y \in Nat
        PROVE  /\ a * ((y + a - 1) \div a) \in Nat /\ y <= a * ((y + a - 1) \div a)
               /\ a * ((y + a - 1) \div a) <= y + a - 1
    <3>1. y + a - 1 \in Nat
      OBVIOUS
    <3>2. PICK q \in Nat, r \in 0..(a - 1) : q = (y + a - 1) \div a /\ y + a - 1 = q * a + r
      BY <3>1, Division
    <3>3. PICK p \in Nat : p = a * q /\ p = q * a
      <4>1. a * q \in Nat /\ a * q = q * a
        BY ProductType
      <4> QED BY <4>1
    <3>4. y <= p /\ p <= y + a - 1
      BY <3>2, <3>3
    <3> QED BY <3>2, <3>3, <3>4
  <2>2. \A y \in Nat : Offset(y, flag) = a * ((y + a - 1) \div a)
    BY <1>1, <1>2 DEF Offset
  <2>3. Offset(1, flag) = a
    <3>1. (1 + a - 1) \div a = 1
      <4>1. 1 + a - 1 = a
        OBVIOUS
      <4>2. PICK q \in Nat, r \in 0..(a - 1) : q = a \div a /\ a = q * a + r
        BY Division
      <4>3. a = 1 * a + 0
        OBVIOUS
      <4>4. q = 1
        <5>1. 1 \in Nat /\ 0 \in 0..(a - 1)
          OBVIOUS
        <5> QED BY <4>2, <4>3, <5>1, DivisionUnique
      <4> QED BY <4>1, <4>2, <4>4
    <3> QED BY <2>2, <3>1
  <2>4. 1 + x \in Nat /\ (1 + x) + a - 1 = x + a
    OBVIOUS
  <2> QED BY <2>1, <2>2, <2>3, <2>4
<1>3. CASE ~flag
  <2>1. \A y : Offset(y, flag) = y
    BY <1>3 DEF Offset
  <2> QED BY <2>1
<1> QED BY <1>2, <1>3

\* What a group's memory holds: metadata, junk up to the place of the data, data.
Laid(bytes, m, s, flag) ==
  /\ Fits(m, s, 0) /\ (Small(m.value_desc, s, 0) \/ Constant(s))
  /\ bytes \in Seq(ByteValues)
  /\ Len(bytes) = Offset(Metaspace(m), flag) + Dataspace(m)
  /\ Len(MetaBytes(m)) = Metaspace(m)
  /\ StandsAt(bytes, 1, MetaBytes(m))
  /\ StandsAt(bytes, 1 + Offset(Metaspace(m), flag), DataBytes(m, s))

\* encode() of a group lays its memory out like that.
LEMMA EncodedIsLaid ==
  ASSUME NEW s \in Seq(Original), UsedCount(Len(s)) <= WordBits,
         NEW flag \in BOOLEAN, NEW junk \in ByteValues,
         NEW bytes, bytes = EncodedBytes(s, flag, junk),
         NEW m, m = Select(ClearMetadata, s)
  PROVE  Laid(bytes, m, s, flag)
<1>1. Fits(m, s, 0) /\ (Small(m.value_desc, s, 0) \/ Constant(s))
  <2>1. PICK before \in MetaRecords : before = ClearMetadata /\ before.value_desc.metaspace = 0
    BY ClearFacts
  <2>2. PICK o \in {0, before.value_desc.metaspace} : Selected(m, s, o)
    BY <2>1, SelectFits
  <2>3. o = 0
    BY <2>1, <2>2
  <2> QED BY <2>2, <2>3 DEF Selected
<1>2. 0 \in Nat
  OBVIOUS
<1>3. PICK a \in Seq(ByteValues), b \in Seq(ByteValues) : a = MetaBytes(m) /\ b = DataBytes(m, s)
  BY <1>1, <1>2, WrittenMeta, WrittenData
<1>4. PICK la \in Nat, lb \in Nat : /\ la = Len(a) /\ lb = Len(b) /\ la = Metaspace(m)
                                   /\ lb = Dataspace(m)
  <2>1. Len(a) = 1 + m.value_desc.metaspace
    BY <1>1, <1>2, <1>3, WrittenMeta
  <2>2. Len(b) = m.value_desc.dataspace
    BY <1>1, <1>2, <1>3, WrittenData
  <2>3. Len(a) \in Nat /\ Len(b) \in Nat
    BY LenProperties
  <2> QED BY <2>1, <2>2, <2>3 DEF Metaspace, Dataspace
<1>5. PICK o \in Nat : o = Offset(Metaspace(m), flag) /\ la <= o
  BY <1>4, OffsetFacts
<1>6. bytes = [k \in 1..(o + lb) |->
                 IF k > o THEN b[k - o] ELSE IF k <= la THEN a[k] ELSE junk]
  <2>1. bytes = WrittenBytes(m, s, flag, junk)
    BY DEF EncodedBytes
  <2> QED BY <1>3, <1>4, <1>5, <2>1 DEF WrittenBytes
<1>11. (\A j \in 1..la : a[j] \in ByteValues) /\ \A j \in 1..lb : b[j] \in ByteValues
  <2>1. a \in Seq(ByteValues) /\ b \in Seq(ByteValues) /\ la = Len(a) /\ lb = Len(b)
    BY <1>4
  <2> QED BY ONLY <2>1
<1>7. ASSUME NEW k \in 1..(o + lb) PROVE bytes[k] \in ByteValues
  <2>1. CASE k > o
    <3>1. k - o \in 1..lb
      BY <2>1
    <3>2. b[k - o] \in ByteValues
      BY <1>11, <3>1
    <3> QED BY <1>6, <2>1, <3>2
  <2>2. CASE ~(k > o) /\ k <= la
    <3>1. k \in 1..la
      BY <2>2
    <3>2. a[k] \in ByteValues
      BY <1>11, <3>1
    <3> QED BY <1>6, <2>2, <3>2
  <2>3. CASE ~(k > o) /\ ~(k <= la)
    BY <1>6, <2>3
  <2> QED BY <2>1, <2>2, <2>3
<1>8. bytes \in Seq(ByteValues) /\ Len(bytes) = o + lb
  <2>1. o + lb \in Nat
    OBVIOUS
  <2>2. PICK n \in Nat : n = o + lb
    BY <2>1
  <2>3. bytes \in [1..n -> ByteValues]
    BY <1>6, <1>7, <2>2
  <2> QED BY <2>2, <2>3
<1>9. StandsAt(bytes, 1, a)
  <2>1. \A k \in 1..la : bytes[k] = a[k]
    <3> TAKE k \in 1..la
    <3>1. k \in 1..(o + lb) /\ ~(k > o) /\ k <= la
      BY <1>5
    <3> QED BY <1>6, <3>1
  <2>2. \A k \in 1..la : 1 + k - 1 = k
    OBVIOUS
  <2>3. 1 \in Nat \ {0} /\ 1 + la - 1 <= o + lb
    BY <1>5
  <2> QED BY <1>4, <1>8, <2>1, <2>2, <2>3 DEF StandsAt
<1>10. StandsAt(bytes, 1 + o, b)
  <2>1. ASSUME NEW k \in 1..lb PROVE bytes[(1 + o) + k - 1] = b[k]
    <3>1. PICK j \in 1..(o + lb) : j = (1 + o) + k - 1 /\ j > o /\ j - o = k
      OBVIOUS
    <3> QED BY <1>6, <3>1
  <2>2. 1 + o \in Nat \ {0} /\ (1 + o) + lb - 1 <= o + lb
    OBVIOUS
  <2> QED BY <1>4, <1>8, <2>1, <2>2 DEF StandsAt
<1> QED BY <1>1, <1>3, <1>4, <1>5, <1>8, <1>9, <1>10 DEF Laid

\* The description is found in the first bytes, the integers behind the padding.
LEMMA LaidReadsBack ==
  ASSUME NEW s \in Seq(Original), NEW flag \in BOOLEAN, NEW bytes, NEW m,
         Laid(bytes, m, s, flag)
  PROVE  /\ SameChoice(Description(bytes), m)
         /\ DecodedInts(bytes, Len(s), flag) = s
<1>1. /\ Fits(m, s, 0) /\ bytes \in Seq(ByteValues) /\ Len(MetaBytes(m)) = Metaspace(m)
      /\ StandsAt(bytes, 1, MetaBytes(m))
      /\ StandsAt(bytes, 1 + Offset(Metaspace(m), flag), DataBytes(m, s))
  BY DEF Laid
<1>2. 0 \in Nat
  OBVIOUS
<1>3. MetaFits(m) /\ MetaBytes(m) \in Seq(ByteValues)
  BY <1>1, <1>2, WrittenMeta
<1>13. PICK before \in MetaRecords : before = ClearMetadata
  BY ClearFacts
<1>4. PICK read : before = ClearMetadata /\ read = ReadMeta(before, bytes)
  BY <1>13
<1>5. MetaRead(read, m)
  BY <1>1, <1>3, <1>4, MetaReadsBack
<1>6. SameChoice(read.meta, m) /\ read.next = 1 + Metaspace(m)
  BY <1>1, <1>5 DEF MetaRead
<1>7. PICK x \in Nat : x = Metaspace(m) /\ read.next - 1 = x
  <2>1. Len(MetaBytes(m)) \in Nat
    BY <1>3, LenProperties
  <2>2. PICK x \in Nat : x = Metaspace(m)
    BY <1>1, <2>1
  <2> QED BY <1>6, <2>2
<1>8. PICK o \in Nat : o = Offset(x, flag)
  BY OffsetFacts
<1>9. PICK at \in Nat : at = 1 + o /\ at = o + 1
  OBVIOUS
<1>10. ReadData(read.meta, bytes, at, Len(s)) = s
  BY <1>1, <1>2, <1>6, <1>7, <1>8, <1>9, DataReadsBack
<1>11. DecodedInts(bytes, Len(s), flag) = ReadData(read.meta, bytes, at, Len(s))
  BY <1>4, <1>7, <1>8, <1>9 DEF DecodedInts
<1>12. Description(bytes) = read.meta
  BY <1>4 DEF Description
<1> QED BY <1>6, <1>10, <1>11, <1>12

-------------------------------------------------------------------------------
(* Searching and fetching.                                                  *)

\* The integers that an encoding has packed are as wide as it says.
LEMMA FitsFacts ==
  ASSUME NEW m, NEW s \in Seq(Original), NEW old, Fits(m, s, old),
         NEW us, us = Coded(s, m.value_desc)
  PROVE  /\ m.value_desc \in Descriptors(Width) /\ Writable(us, m.value_desc)
         /\ Len(us) = Len(s) /\ \A i \in 1..Len(s) : us[i] = ValueCode(m.value_desc, s[i])
<1>1. m.value_desc \in Descriptors(Width)
  BY DEF Fits, MetaRecords
<1>2. Writable(us, m.value_desc)
  BY DEF Fits, Candidate
<1>3. PICK n \in Nat : n = Len(s)
  BY LenProperties
<1>4. us = [i \in 1..n |-> ValueCode(m.value_desc, s[i])]
  BY <1>3 DEF Coded
<1>5. Len(us) = n
  BY <1>4
<1> QED BY <1>1, <1>2, <1>3, <1>4, <1>5

\* Integers that take no bits are all the origin.
LEMMA NaughtIsOrigin ==
  ASSUME NEW m, NEW s \in Seq(Original), NEW old, Fits(m, s, old),
         m.value_desc.encoding = "naught"
  PROVE  \A i \in 1..Len(s) : s[i] = m.value_desc.origin
<1>1. PICK us, desc :
        /\ desc = m.value_desc /\ Writable(us, desc) /\ Len(us) = Len(s)
        /\ \A i \in 1..Len(s) : us[i] = ValueCode(desc, s[i])
        /\ desc \in Descriptors(Width)
  <2>1. PICK us : us = Coded(s, m.value_desc)
    OBVIOUS
  <2> QED BY <2>1, FitsFacts
<1>2. PICK origin \in Original : origin = desc.origin
  BY <1>1 DEF Descriptors
<1>3. desc.encoding \in EncodingNames /\ desc.encoding = "naught"
  BY <1>1 DEF EncodingNames
<1>4. \A v : ValueCode(desc, v) = OriginEncode(origin, v)
  BY <1>2, <1>3, EncodingsFacts DEF ValueCode
<1>5. OriginEncode(origin, origin) = 0
  <2>1. PICK mod \in Nat \ {0} : mod = Modulus
    BY UnsignedNumbers
  <2>2. origin - origin = 0 /\ 0 % mod = 0
    BY OriginalBounds
  <2> QED BY <2>1, <2>2 DEF OriginEncode, ToUnsigned
<1>6. ASSUME NEW i \in 1..Len(s) PROVE s[i] = origin
  <2>1. PICK v \in Original : v = s[i]
    OBVIOUS
  <2>2. OriginEncode(origin, v) = 0
    BY <1>1, <1>3, <1>4, <2>1 DEF Writable
  <2>3. OriginDecode(origin, OriginEncode(origin, v)) = v
    BY ValueCodecsInvert
  <2>4. OriginDecode(origin, OriginEncode(origin, origin)) = origin
    BY ValueCodecsInvert
  <2> QED BY <1>5, <2>1, <2>2, <2>3, <2>4
<1> QED BY <1>1, <1>2, <1>6

\* The integers that are skipped are not there.
LEMMA TooWideIsAbsent ==
  ASSUME NEW m, NEW s \in Seq(Original), NEW old, Fits(m, s, old),
         NEW v \in Original, TooWide(m.value_desc, v)
  PROVE  \A i \in 1..Len(s) : s[i] # v
<1>1. PICK us, desc :
        /\ desc = m.value_desc /\ Writable(us, desc) /\ Len(us) = Len(s)
        /\ \A i \in 1..Len(s) : us[i] = ValueCode(desc, s[i])
        /\ desc \in Descriptors(Width)
  <2>1. PICK us : us = Coded(s, m.value_desc)
    OBVIOUS
  <2> QED BY <2>1, FitsFacts
<1>2. desc.encoding \in {"bitpck", "bitfor"} /\ UsedCount(ValueCode(desc, v)) > desc.nbits
  <2>1. CASE desc.encoding = "bitpck" /\ UsedCount(ZigzagIfSigned(v)) > desc.nbits
    BY <2>1, EncodingsFacts DEF ValueCode
  <2>2. CASE desc.encoding = "bitfor" /\ UsedCount(OriginEncode(desc.origin, v)) > desc.nbits
    BY <2>2, EncodingsFacts DEF ValueCode
  <2> QED BY <1>1, <2>1, <2>2 DEF TooWide
<1>3. PICK nbits \in Nat : nbits = desc.nbits
  BY <1>1, BitsFacts DEF Descriptors
<1>4. SUFFICES ASSUME NEW i \in 1..Len(s), s[i] = v PROVE FALSE
  OBVIOUS
<1>5. us \in Seq(Nat) /\ i \in 1..Len(us)
  <2>1. us \in Seq(WordValues)
    BY <1>1 DEF Writable
  <2> QED BY <1>1, <2>1, WordNumbers, SeqMonotonic
<1>6. PICK u \in Nat : u = us[i] /\ u = ValueCode(desc, v)
  BY <1>1, <1>4, <1>5
<1>7. u < 2^nbits
  BY <1>1, <1>2, <1>3, <1>5, <1>6 DEF Writable
<1>8. UsedCount(u) <= nbits /\ UsedCount(u) \in Nat
  BY <1>7, UsedCountBelow, UsedCountFacts
<1> QED BY <1>2, <1>3, <1>6, <1>8

\* An integer that is nowhere has no index.
LEMMA NotThere ==
  ASSUME NEW s \in Seq(Original), NEW v, \A i \in 1..Len(s) : s[i] # v
  PROVE  FirstIndex(s, v) = NotFound
<1>1. {p \in DOMAIN s : s[p] = v} = {}
  OBVIOUS
<1> QED BY <1>1 DEF FirstIndex

\* One varint of many stands where those in front of it end.
LEMMA VarintInTurn ==
  ASSUME NEW us \in Seq(Nat), NEW stream \in Seq(ByteValues), NEW at,
         StandsAt(stream, at, VarintBytes(us)),
         NEW ends, EndsOf(ends, ValueRows(us)), NEW i \in 1..Len(us)
  PROVE  /\ ReadValue(stream, at + ends[i - 1]).value = us[i]
         /\ ReadValue(stream, at + ends[i - 1]).next = at + ends[i]
<1>1. PICK seqs \in Seq(Seq(ByteValues)) :
        /\ seqs = ValueRows(us) /\ Len(seqs) = Len(us)
        /\ us[i] \in Nat /\ seqs[i] = ValueBytes(us[i])
        /\ ValueBytes(us[i]) \in Seq(ByteValues)
  BY ValueRowsType
<1>2. StandsAt(stream, at, FlattenSeq(seqs))
  BY <1>1, Joined
<1>3. StandsAt(stream, at + ends[i - 1], seqs[i])
  BY <1>1, <1>2, StandsInRows
<1>4. PICK u \in Nat : u = us[i] /\ seqs[i] = ValueBytes(u)
  BY <1>1
<1>5. PICK b \in Nat : b = at + ends[i - 1]
  BY <1>3 DEF StandsAt
<1>6. stream \in Seq(Nat)
  <2>1. ByteValues \subseteq Nat
    BY DEF ByteValues
  <2> QED BY <2>1, SeqMonotonic
<1>7. /\ b + Len(ValueBytes(u)) - 1 <= Len(stream)
      /\ \A k \in 1..Len(ValueBytes(u)) : stream[b + k - 1] = ValueBytes(u)[k]
  BY <1>3, <1>4, <1>5 DEF StandsAt
<1>8. ReadValue(stream, b) = [value |-> u, next |-> b + ValueSpace(u)]
  BY <1>6, <1>7, VarintReadsBack
<1>9. at + ends[i] = b + ValueSpace(u)
  <2>1. ends[i] = ends[i - 1] + Len(seqs[i]) /\ ends[i - 1] \in Nat
    <3>1. EndsOf(ends, seqs) /\ i \in 1..Len(seqs)
      BY <1>1
    <3>2. i \in Nat \ {0} /\ i - 1 \in 0..Len(seqs)
      BY <3>1, LenProperties
    <3> QED BY <3>1, <3>2 DEF EndsOf
  <2>2. Len(seqs[i]) = ValueSpace(u) /\ Len(seqs[i]) \in Nat
    BY <1>1, <1>4, ValueBytesSpace
  <2>3. at \in Nat
    BY DEF StandsAt
  <2>4. PICK x \in Nat, y \in Nat : x = ends[i - 1] /\ y = ValueSpace(u)
    BY <2>1, <2>2
  <2>5. ends[i] = x + y /\ b = at + x
    BY <1>5, <2>1, <2>2, <2>4
  <2>6. at + (x + y) = (at + x) + y
    BY ONLY <2>3, x \in Nat, y \in Nat
  <2> QED BY <2>4, <2>5, <2>6
<1> QED BY <1>4, <1>5, <1>8, <1>9

\* The loop of find() over varints comes by all of them.
LEMMA VarintLoop ==
  ASSUME NEW us \in Seq(Nat), NEW stream \in Seq(ByteValues), NEW at,
         StandsAt(stream, at, VarintBytes(us))
  PROVE  VarintIntegers(stream, at, Len(us)) =
           [i \in 1..Len(us) |-> UnzigzagIfSigned(us[i])]
<1>1. PICK n \in Nat, seqs \in Seq(Seq(ByteValues)) :
        n = Len(us) /\ seqs = ValueRows(us) /\ Len(seqs) = n
  <2>1. Len(us) \in Nat
    OBVIOUS
  <2> QED BY <2>1, ValueRowsType
<1>2. PICK ends : EndsOf(ends, seqs) /\ ends[0] = 0
  <2>1. PICK ends : EndsOf(ends, seqs)
    BY EndsExist
  <2> QED BY <2>1 DEF EndsOf
<1>3. \A i \in 1..n : /\ ReadValue(stream, at + ends[i - 1]).value = us[i]
                       /\ ReadValue(stream, at + ends[i - 1]).next = at + ends[i]
  <2>1. EndsOf(ends, ValueRows(us))
    BY <1>1, <1>2
  <2>2. \A i \in 1..Len(us) : /\ ReadValue(stream, at + ends[i - 1]).value = us[i]
                              /\ ReadValue(stream, at + ends[i - 1]).next = at + ends[i]
    <3> TAKE i \in 1..Len(us)
    <3> QED BY ONLY <2>1, us \in Seq(Nat), stream \in Seq(ByteValues),
                    StandsAt(stream, at, VarintBytes(us)), i \in 1..Len(us), VarintInTurn
  <2> QED BY <1>1, <2>2
<1> DEFINE next == [p \in Nat |-> ReadValue(stream, p).next]
           Moves(f) == f = [i \in 0..n |-> IF i = 0 THEN at ELSE next[f[i - 1]]]
           place == CHOOSE f : Moves(f)
<1>a. \A i \in 0..n : at + ends[i] \in Nat
  <2>1. at \in Nat
    BY DEF StandsAt
  <2>2. ends \in [0..n -> Nat]
    BY <1>1, <1>2 DEF EndsOf
  <2>3. \A i \in 0..n : ends[i] \in Nat
    BY <2>2
  <2> QED BY <2>1, <2>3
<1>b. \A p \in Nat : next[p] = ReadValue(stream, p).next
  OBVIOUS
<1> HIDE DEF next
<1>4. Moves(place)
  <2> DEFINE w == [i \in 0..n |-> at + ends[i]]
  <2>1. ASSUME NEW i \in 0..n
        PROVE  w[i] = IF i = 0 THEN at ELSE next[w[i - 1]]
    <3>1. CASE i = 0
      <4>1. at \in Nat /\ at + 0 = at
        BY DEF StandsAt
      <4> QED BY <1>2, <3>1, <4>1
    <3>2. CASE i # 0
      <4>1. i \in 1..n /\ i - 1 \in 0..n
        BY <3>2
      <4>2. ReadValue(stream, at + ends[i - 1]).next = at + ends[i]
        BY <1>3, <4>1
      <4>3. next[at + ends[i - 1]] = at + ends[i]
        BY <1>a, <1>b, <4>1, <4>2
      <4> QED BY <3>2, <4>1, <4>3
    <3> QED BY <3>1, <3>2
  <2>2. Moves(w)
    BY <2>1
  <2> HIDE DEF w, Moves
  <2> QED BY <2>2
<1>5. /\ place[0] = at
      /\ \A i \in 1..n : place[i] = next[place[i - 1]]
  <2>1. place = [i \in 0..n |-> IF i = 0 THEN at ELSE next[place[i - 1]]]
    BY <1>4
  <2> HIDE DEF place
  <2>2. 0 \in 0..n /\ \A i \in 1..n : i \in 0..n /\ i # 0
    OBVIOUS
  <2> QED BY <2>1, <2>2
<1>6. VarintIntegers(stream, at, n) =
        [i \in 1..n |-> UnzigzagIfSigned(ReadValue(stream, place[i - 1]).value)]
  BY DEF VarintIntegers, next
<1> HIDE DEF place, Moves
<1> DEFINE There == {i \in Nat : i <= n => place[i] = at + ends[i]}
<1>7. 0 \in There
  <2>1. at \in Nat /\ at + 0 = at
    BY DEF StandsAt
  <2> QED BY <1>2, <1>5, <2>1
<1>8. ASSUME NEW i \in Nat, i \in There PROVE i + 1 \in There
  <2> SUFFICES ASSUME i + 1 <= n PROVE place[i + 1] = at + ends[i + 1]
    OBVIOUS
  <2>1. PICK j \in 1..n : j = i + 1 /\ j - 1 = i
    OBVIOUS
  <2>2. place[j - 1] = at + ends[j - 1]
    BY <1>8, <2>1
  <2>3. place[j] = at + ends[j]
    <3>1. place[j] = ReadValue(stream, at + ends[j - 1]).next
      <4>1. at + ends[j - 1] \in Nat /\ place[j] = next[at + ends[j - 1]]
        BY <1>5, <1>a, <2>1, <2>2
      <4> QED BY <1>b, <4>1
    <3>2. ReadValue(stream, at + ends[j - 1]).next = at + ends[j]
      BY <1>3
    <3> QED BY <3>1, <3>2
  <2> QED BY <2>1, <2>3
<1>9. Nat \subseteq There
  <2> HIDE DEF There
  <2> QED BY <1>7, <1>8, EveryNumber
<1>10. ASSUME NEW i \in 1..n PROVE ReadValue(stream, place[i - 1]).value = us[i]
  <2>1. i - 1 \in Nat /\ i - 1 <= n
    OBVIOUS
  <2>2. place[i - 1] = at + ends[i - 1]
    BY <1>9, <2>1
  <2>3. ReadValue(stream, at + ends[i - 1]).value = us[i]
    BY <1>3
  <2> QED BY <2>2, <2>3
<1> QED BY <1>1, <1>6, <1>10

\* The loop of find() over plain integers comes by all of them.
LEMMA PlainLoop ==
  ASSUME NEW us \in Seq(Unsigned), NEW stream \in Seq(ByteValues), NEW at \in Nat,
         StandsAt(stream, at, NormalBytes(us))
  PROVE  PlainIntegers(stream, at, Len(us)) = [i \in 1..Len(us) |-> ToOriginal(us[i])]
<1>1. PICK n \in Nat, v \in Nat \ {0} : n = Len(us) /\ v = ValueSize
  <2>1. Len(us) \in Nat /\ ValueSize \in Nat \ {0}
    BY ValueSizeFacts
  <2> QED BY <2>1
<1> DEFINE sum(a) == SumOf([k \in 1..v |-> stream[a + k - 1] * 2^(ByteBits * (k - 1))])
<1>2. ASSUME NEW i \in 1..n PROVE sum(at + (i - 1) * v) = us[i]
  <2>1. ReadNormal(stream, at, n).us = us
    BY <1>1, NormalReadsBack
  <2>2. ReadNormal(stream, at, n).us[i] = sum(at + (i - 1) * v)
    BY <1>1 DEF ReadNormal
  <2> QED BY <2>1, <2>2
<1>3. ASSUME NEW i \in 1..n
      PROVE  ReadNormal(stream, at + (i - 1) * v, 1).us[1] = us[i]
  <2>1. PICK a \in Int : a = at + (i - 1) * v /\ a = a + (1 - 1) * v
    <3>1. (i - 1) * v \in Int /\ (1 - 1) * v = 0
      OBVIOUS
    <3> QED BY <3>1
  <2>2. ReadNormal(stream, a, 1).us[1] =
          SumOf([k \in 1..v |-> stream[a + (1 - 1) * v + k - 1] * 2^(ByteBits * (k - 1))])
    BY <1>1 DEF ReadNormal
  <2>3. ReadNormal(stream, a, 1).us[1] = sum(a)
    BY <2>1, <2>2
  <2> QED BY <1>2, <2>1, <2>3
<1>4. PlainIntegers(stream, at, n) =
        [i \in 1..n |-> ToOriginal(ReadNormal(stream, at + (i - 1) * v, 1).us[1])]
  BY <1>1 DEF PlainIntegers
<1> QED BY <1>1, <1>3, <1>4

\* The loops of find() compare the integers of the group.
LEMMA LoopsSeeIntegers ==
  ASSUME NEW s \in Seq(Original), NEW bytes, NEW m, Laid(bytes, m, s, TRUE),
         NEW at, at = 1 + Offset(Metaspace(m), TRUE)
  PROVE  /\ m.value_desc.encoding = "normal" => PlainIntegers(bytes, at, Len(s)) = s
         /\ m.value_desc.encoding = "varint" => VarintIntegers(bytes, at, Len(s)) = s
<1>1. PICK us, desc :
        /\ desc = m.value_desc /\ Writable(us, desc) /\ Len(us) = Len(s)
        /\ \A i \in 1..Len(s) : us[i] = ValueCode(desc, s[i])
        /\ us = Coded(s, desc)
  <2>1. PICK us : us = Coded(s, m.value_desc)
    OBVIOUS
  <2>2. Fits(m, s, 0)
    BY DEF Laid
  <2> QED BY <2>1, <2>2, FitsFacts
<1>2. PICK n \in Nat : n = Len(s) /\ n = Len(us)
  BY <1>1, LenProperties
<1>3. bytes \in Seq(ByteValues) /\ StandsAt(bytes, at, DataBytes(m, s))
  BY DEF Laid
<1>4. s = [i \in 1..n |-> s[i]] /\ \A i \in 1..n : s[i] \in Original
  <2>1. s \in [1..n -> Original]
    BY <1>2, LenProperties
  <2> QED BY ONLY <2>1
<1>5. desc.encoding # "bitpfr" => DataBytes(m, s) = WriteBasic(us, desc)
  BY <1>1, CodedIsData DEF DataBytes
<1>6. desc.encoding \in EncodingNames
  BY <1>1 DEF Writable
<1>7. at \in Nat
  BY <1>3 DEF StandsAt
<1>8. CASE desc.encoding = "normal"
  <2>1. WriteBasic(us, desc) = NormalBytes(us)
    BY <1>6, <1>8, ByEncoding
  <2>2. us \in Seq(Unsigned)
    BY <1>1, <1>8 DEF Writable
  <2>3. StandsAt(bytes, at, NormalBytes(us))
    BY <1>3, <1>5, <1>8, <2>1
  <2>4. PlainIntegers(bytes, at, n) = [i \in 1..n |-> ToOriginal(us[i])]
    BY <1>2, <1>3, <1>7, <2>2, <2>3, PlainLoop
  <2>5. \A i \in 1..n : ToOriginal(us[i]) = s[i]
    <3> TAKE i \in 1..n
    <3>1. us[i] = ToUnsigned(s[i])
      <4>1. us[i] = ValueCode(desc, s[i])
        BY <1>1, <1>2
      <4> QED BY <1>8, <4>1, EncodingsFacts DEF ValueCode
    <3>2. s[i] \in Original
      BY <1>4
    <3> QED BY <3>1, <3>2, ValueCodecsInvert
  <2>6. PlainIntegers(bytes, at, n) = s
    BY <1>4, <2>4, <2>5
  <2> QED BY <1>1, <1>2, <1>8, <2>6
<1>9. CASE desc.encoding = "varint"
  <2>1. WriteBasic(us, desc) = VarintBytes(us)
    BY <1>6, <1>9, ByEncoding
  <2>2. us \in Seq(Nat)
    <3>1. us \in Seq(WordValues)
      BY <1>1 DEF Writable
    <3> QED BY <3>1, WordNumbers, SeqMonotonic
  <2>3. StandsAt(bytes, at, VarintBytes(us))
    BY <1>3, <1>5, <1>9, <2>1
  <2>4. VarintIntegers(bytes, at, n) = [i \in 1..n |-> UnzigzagIfSigned(us[i])]
    BY <1>2, <1>3, <2>2, <2>3, VarintLoop
  <2>5. \A i \in 1..n : UnzigzagIfSigned(us[i]) = s[i]
    <3> TAKE i \in 1..n
    <3>1. us[i] = ZigzagIfSigned(s[i])
      <4>1. us[i] = ValueCode(desc, s[i])
        BY <1>1, <1>2
      <4> QED BY <1>9, <4>1, EncodingsFacts DEF ValueCode
    <3>2. s[i] \in Original
      BY <1>4
    <3> QED BY <3>1, <3>2, ValueCodecsInvert
  <2>6. VarintIntegers(bytes, at, n) = s
    BY <1>4, <2>4, <2>5
  <2> QED BY <1>1, <1>2, <1>9, <2>6
<1> QED BY <1>1, <1>8, <1>9

\* find() finds the first place, and skips only groups that have none.
LEMMA FoundFirst ==
  ASSUME NEW s \in Seq(Original), Len(s) # 0, NEW bytes, NEW m, Laid(bytes, m, s, TRUE),
         NEW v \in Original
  PROVE  FoundIndex(bytes, Len(s), v) = FirstIndex(s, v)
<1>1. Fits(m, s, 0)
  BY DEF Laid
<1>2. SameChoice(Description(bytes), m) /\ DecodedInts(bytes, Len(s), TRUE) = s
  BY LaidReadsBack
<1>3. PICK a, b : /\ a = Description(bytes).value_desc /\ b = m.value_desc
                  /\ a.encoding = b.encoding
                  /\ b.encoding \in WithOrigin => a.origin = b.origin
                  /\ b.encoding \in WithNbits => a.nbits = b.nbits
  BY <1>2 DEF SameChoice, SameBasic
<1>6. PICK read : read = ReadMeta(ClearMetadata, bytes)
  OBVIOUS
<1>7. PICK at : at = SearchOffset(read.next - 1) + 1
  OBVIOUS
<1>8. at = 1 + Offset(Metaspace(m), TRUE)
  <2>1. /\ bytes \in Seq(ByteValues) /\ Len(MetaBytes(m)) = Metaspace(m)
        /\ StandsAt(bytes, 1, MetaBytes(m)) /\ 0 \in Nat
    BY DEF Laid
  <2>2. MetaFits(m) /\ MetaBytes(m) \in Seq(ByteValues)
    BY <1>1, <2>1, WrittenMeta
  <2>3. PICK before \in MetaRecords : before = ClearMetadata
    BY ClearFacts
  <2>4. MetaRead(read, m)
    BY <1>6, <2>1, <2>2, <2>3, MetaReadsBack
  <2>5. PICK x \in Nat : x = Metaspace(m) /\ read.next = 1 + x
    BY <2>1, <2>2, <2>4, LenProperties DEF MetaRead
  <2>6. read.next - 1 = x
    BY <2>5
  <2>7. PICK o \in Nat : o = Offset(x, TRUE) /\ o = SearchOffset(x)
    <3>1. Offset(x, TRUE) \in Nat
      BY OffsetFacts
    <3>2. Offset(x, TRUE) = SearchOffset(x)
      BY Zenon DEF Offset, SearchOffset
    <3>3. PICK o \in Nat : o = Offset(x, TRUE)
      BY <3>1
    <3> QED BY <3>2, <3>3
  <2>8. o + 1 = 1 + o
    <3>1. o \in Nat
      BY <2>7, Zenon
    <3> QED BY ONLY <3>1
  <2>9. SearchOffset(read.next - 1) = o
    BY <2>6, <2>7
  <2>10. Offset(Metaspace(m), TRUE) = o
    BY <2>5, <2>7
  <2> QED BY <1>7, <2>8, <2>9, <2>10
<1>9. /\ b.encoding = "normal" => PlainIntegers(bytes, at, Len(s)) = s
      /\ b.encoding = "varint" => VarintIntegers(bytes, at, Len(s)) = s
  BY <1>3, <1>8, LoopsSeeIntegers
<1>10. FoundIndex(bytes, Len(s), v) =
         CASE b.encoding = "naught" -> IF v = a.origin THEN 0 ELSE NotFound
           [] b.encoding = "normal" -> FirstIndex(PlainIntegers(bytes, at, Len(s)), v)
           [] b.encoding = "varint" -> FirstIndex(VarintIntegers(bytes, at, Len(s)), v)
           [] OTHER -> IF TooWide(a, v) THEN NotFound ELSE FirstIndex(s, v)
  <2>1. read.meta.value_desc = a
    BY <1>3, <1>6 DEF Description
  <2> QED BY <1>2, <1>3, <1>6, <1>7, <2>1 DEF FoundIndex
<1>4. CASE b.encoding = "naught"
  <2>1. a.origin = b.origin
    BY <1>3, <1>4, EncodingsFacts
  <2>2. \A i \in 1..Len(s) : s[i] = b.origin
    BY <1>1, <1>3, <1>4, NaughtIsOrigin
  <2>3. FoundIndex(bytes, Len(s), v) = (IF v = b.origin THEN 0 ELSE NotFound)
    BY <1>4, <1>10, <2>1
  <2>4. CASE v = b.origin
    <3>1. PICK n \in Nat \ {0} : n = Len(s)
      BY LenProperties
    <3>2. PICK S : S = {p \in DOMAIN s : s[p] = v}
      OBVIOUS
    <3>3. S = 1..n
      BY <2>2, <2>4, <3>1, <3>2
    <3>4. Min(S) \in S /\ \A x \in S : Min(S) <= x
      <4>1. 1 \in Int /\ n \in Int /\ S \in SUBSET (1..n) /\ S # {}
        BY <3>1, <3>3
      <4> QED BY <4>1, IntegersBounded
    <3>5. PICK x \in 1..n : x = Min(S) /\ x <= 1
      <4>1. 1 \in S
        BY <3>3
      <4> QED BY <3>3, <3>4, <4>1
    <3>6. x = 1
      BY <3>5
    <3>7. FirstIndex(s, v) = 1 - 1
      BY <3>2, <3>3, <3>5, <3>6 DEF FirstIndex
    <3> QED BY <2>3, <2>4, <3>7
  <2>5. CASE v # b.origin
    <3>1. \A i \in 1..Len(s) : s[i] # v
      BY <2>2, <2>5
    <3>2. FirstIndex(s, v) = NotFound
      BY <3>1, NotThere
    <3> QED BY <2>3, <2>5, <3>2
  <2> QED BY <2>4, <2>5
<1>5. CASE b.encoding # "naught"
  <2>1. TooWide(a, v) <=> TooWide(b, v)
    BY <1>3, EncodingsFacts DEF TooWide
  <2>2. CASE b.encoding \in {"normal", "varint"}
    BY <1>9, <1>10, <2>2
  <2>3. CASE b.encoding \notin {"normal", "varint"}
    <3>1. FoundIndex(bytes, Len(s), v) =
            IF TooWide(b, v) THEN NotFound ELSE FirstIndex(s, v)
      BY <1>5, <1>10, <2>1, <2>3
    <3>2. CASE TooWide(b, v)
      <4>1. \A i \in 1..Len(s) : s[i] # v
        BY <1>1, <1>3, <3>2, TooWideIsAbsent
      <4>2. FirstIndex(s, v) = NotFound
        BY <4>1, NotThere
      <4> QED BY <3>1, <3>2, <4>2
    <3>3. CASE ~TooWide(b, v)
      BY <3>1, <3>3
    <3> QED BY <3>2, <3>3
  <2> QED BY <2>2, <2>3
<1> QED BY <1>4, <1>5

\* Metadata of one choice without outliers are the same bytes.
LEMMA SameMetaBytes ==
  ASSUME NEW a, NEW b, SameChoice(a, b), b.value_desc.encoding # "bitpfr"
  PROVE  MetaBytes(a) = MetaBytes(b)
<1>1. /\ a.value_desc.encoding = b.value_desc.encoding
      /\ b.value_desc.encoding \in WithOrigin => a.value_desc.origin = b.value_desc.origin
      /\ b.value_desc.encoding \in WithNbits => a.value_desc.nbits = b.value_desc.nbits
  BY DEF SameChoice, SameBasic
<1>2. /\ EncodingByte(a) = EncodingByte(b) /\ MetaOrigin(a) = MetaOrigin(b)
      /\ MetaNbits(a) = MetaNbits(b) /\ MetaOutliers(a) = MetaOutliers(b)
  BY <1>1 DEF EncodingByte, MetaOrigin, MetaNbits, MetaOutliers
<1> QED BY <1>2, MetaParts

\* fetch() finds the integer of an index in its block.
LEMMA Fetched ==
  ASSUME NEW s \in Seq(Original), NEW flag \in BOOLEAN, NEW bytes, NEW m,
         Laid(bytes, m, s, flag), NEW a, SameChoice(a, m),
         m.value_desc.encoding \in {"bitpck", "bitfor"}, NEW i \in 1..Len(s),
         NEW at, at = Offset(Len(MetaBytes(a)), flag) + 1
  PROVE  FetchPacked(bytes, at, i - 1, a.value_desc) = s[i]
<1>1. /\ Fits(m, s, 0) /\ bytes \in Seq(ByteValues) /\ Len(MetaBytes(m)) = Metaspace(m)
      /\ StandsAt(bytes, 1 + Offset(Metaspace(m), flag), DataBytes(m, s))
  BY DEF Laid
<1>2. PICK us, desc :
        /\ desc = m.value_desc /\ Writable(us, desc) /\ Len(us) = Len(s)
        /\ \A j \in 1..Len(s) : us[j] = ValueCode(desc, s[j])
        /\ desc \in Descriptors(Width) /\ us = Coded(s, desc)
  <2>1. PICK us : us = Coded(s, m.value_desc)
    OBVIOUS
  <2> QED BY <1>1, <2>1, FitsFacts
<1>3. /\ desc.encoding \in {"bitpck", "bitfor"} /\ desc.encoding \in WithNbits
      /\ desc.encoding \in EncodingNames /\ desc.encoding # "bitpfr" /\ desc.origin \in Original
  BY <1>2, EncodingsFacts DEF Descriptors
<1>4. PICK nbits \in 1..WordBits :
        /\ nbits = desc.nbits /\ us \in Seq(WordValues)
        /\ \A j \in 1..Len(us) : us[j] < 2^nbits
  BY <1>2, <1>3 DEF Writable
<1>5. PICK n \in Nat : n = Len(us) /\ n = Len(s) /\ i \in 1..n
  BY <1>2, LenProperties
<1>6. DataBytes(m, s) = PackedBytes(us, nbits)
  <2>1. DataBytes(m, s) = WriteBasic(us, desc)
    BY <1>2, <1>3, CodedIsData DEF DataBytes
  <2>2. WriteBasic(us, desc) = PackedBytes(us, desc.nbits)
    BY <1>3, ByEncoding
  <2> QED BY <1>4, <2>1, <2>2
<1>7. at \in Nat /\ StandsAt(bytes, at, PackedBytes(us, nbits))
  <2>1. MetaBytes(a) = MetaBytes(m)
    BY <1>2, <1>3, SameMetaBytes
  <2>2. PICK x \in Nat : x = Metaspace(m)
    <3>1. 0 \in Nat
      OBVIOUS
    <3>2. MetaBytes(m) \in Seq(ByteValues)
      BY <1>1, <3>1, WrittenMeta
    <3> QED BY <1>1, <3>2, LenProperties
  <2>3. PICK o \in Nat : o = Offset(x, flag)
    BY OffsetFacts
  <2>4. at = o + 1 /\ o + 1 = 1 + o /\ at \in Nat
    BY <1>1, <2>1, <2>2, <2>3
  <2> QED BY <1>1, <1>6, <2>2, <2>3, <2>4
<1>8. PICK cap \in Nat \ {0} : cap = Capacity(nbits)
  BY CapacityType
<1>9. PICK b \in 1..BlockNumber(n, nbits) : \E k \in 1..Share(b, n, nbits) : i = (b - 1) * cap + k
  <2>1. PICK ends : BlockRows(ends, n, nbits)
    BY BlockRowsExist
  <2> QED BY <1>5, <1>8, <2>1 DEF BlockRows
<1>21. PICK k \in 1..Share(b, n, nbits) : i = (b - 1) * cap + k
  BY <1>9
<1>10. b \in Nat \ {0} /\ k \in 1..cap
  <2>1. BlockNumber(n, nbits) \in Nat
    BY BlockRowsExist
  <2>2. PICK ends : BlockRows(ends, n, nbits)
    BY BlockRowsExist
  <2>3. Share(b, n, nbits) \in 1..cap
    BY <1>8, <2>2 DEF BlockRows
  <2>4. PICK share \in 1..cap : share = Share(b, n, nbits)
    BY <2>3
  <2>5. k \in 1..share
    BY <2>4
  <2> QED BY <2>1, <2>5
<1>11. (i - 1) \div cap = b - 1 /\ (i - 1) % cap = k - 1
  <2>1. PICK c \in Nat, r \in 0..(cap - 1) : c = b - 1 /\ r = k - 1
    BY <1>10
  <2>2. PICK p \in Nat : p = c * cap
    BY ProductType
  <2>3. i - 1 = p + r
    BY <1>21, <1>10, <2>1, <2>2
  <2>4. PICK x \in Nat : x = i - 1 /\ x = c * cap + r
    BY <2>2, <2>3
  <2>5. (c * cap + r) \div cap = c /\ (c * cap + r) % cap = r
    BY DivisionUnique
  <2> QED BY <2>1, <2>4, <2>5
<1>12. BlockAt(bytes, at + (b - 1) * BlockSize) = EncodedPart(us, b, nbits)
  <2>1. PICK B \in Nat : B = BlockNumber(Len(us), nbits) /\ b \in 1..B
    BY <1>5, BlockRowsExist
  <2>2. nbits \in 1..WordBits /\ us \in Seq(WordValues) /\ bytes \in Seq(ByteValues)
    BY <1>1, <1>4
  <2>3. at \in Nat /\ StandsAt(bytes, at, PackedBytes(us, nbits))
    BY <1>7
  <2> QED BY ONLY <2>1, <2>2, <2>3, PackedRows
<1>13. BlockFetch(EncodedPart(us, b, nbits), k - 1, nbits) = WordOf(us[i]) \cap Mask(nbits)
  <2>1. b \in 1..BlockNumber(Len(us), nbits) /\ k \in 1..Share(b, Len(us), nbits)
    BY <1>5
  <2>2. BlockFetch(EncodedPart(us, b, nbits), k - 1, nbits) =
          WordOf(us[(b - 1) * Capacity(nbits) + k]) \cap Mask(nbits)
    <3>1. nbits \in 1..WordBits /\ us \in Seq(WordValues)
      BY <1>4
    <3> QED BY ONLY <2>1, <3>1, PartFacts
  <2> QED BY <1>8, <1>21, <2>2
<1>14. PICK u \in Nat : u = us[i] /\ u < 2^nbits
  <2>1. us \in Seq(Nat)
    BY <1>4, WordNumbers, SeqMonotonic
  <2>2. us[i] \in Nat
    <3>1. i \in 1..Len(us)
      BY <1>5
    <3> QED BY ONLY <2>1, <3>1
  <2> QED BY <1>4, <1>5, <2>2
<1>15. NumberOf(WordOf(u) \cap Mask(nbits)) = u
  <2>1. NumberOf(WordOf(u) \cap Mask(nbits)) = u % 2^nbits
    <3>1. PICK x \in Nat : x = nbits
      BY BlockSizeFacts
    <3> QED BY <3>1, WordFacts
  <2>2. PICK p \in Nat : p = 2^nbits
    <3>1. PICK x \in Nat : x = nbits
      BY BlockSizeFacts
    <3> QED BY <3>1, PowerType
  <2>3. u % p = u
    <3>1. 0 \in Nat /\ p \in Nat \ {0} /\ u \in 0..(p - 1)
      BY <1>14, <2>2
    <3>2. (0 * p + u) % p = u
      BY ONLY <3>1, DivisionUnique
    <3> QED BY <3>1, <3>2
  <2> QED BY <2>1, <2>2, <2>3
<1>16. ValueOf(desc, u) = s[i]
  <2>1. PICK v \in Original : v = s[i]
    OBVIOUS
  <2>2. ValueOf(desc, ToUnsigned(ValueCode(desc, v))) = v
    BY <1>3, CodeInverts
  <2>3. ToUnsigned(u) = u
    <3>1. PICK mod \in Nat \ {0} : mod = Modulus
      BY UnsignedNumbers
    <3>2. u \in 0..(mod - 1)
      <4>1. ValueCode(desc, v) \in Unsigned
        <5>1. ZigzagIfSigned(v) \in Unsigned /\ OriginEncode(desc.origin, v) \in Unsigned
          BY <1>3, ValueCodecsInvert
        <5> QED BY <1>3, <5>1, EncodingsFacts DEF ValueCode
      <4> QED BY <1>2, <1>14, <2>1, <3>1, <4>1 DEF Unsigned
    <3> QED BY <3>1, <3>2, SMTT(30) DEF ToUnsigned
  <2> QED BY <1>2, <1>14, <2>1, <2>2, <2>3
<1>17. SameBasic(a.value_desc, desc) /\ (desc.encoding \in WithOrigin => a.value_desc.origin = desc.origin)
  BY <1>2 DEF SameChoice, SameBasic
<1>18. a.value_desc.nbits = nbits
  BY <1>3, <1>4, <1>17 DEF SameBasic
<1>19. ValueOf(a.value_desc, u) = ValueOf(desc, u)
  BY <1>3, <1>17, SameChoiceReads
<1>20. BlockSize * (b - 1) = (b - 1) * BlockSize
  <2>1. PICK c \in Nat, z \in Nat : c = b - 1 /\ z = BlockSize
    BY <1>10, BlockSizeFacts
  <2>2. z * c = c * z
    BY ProductType
  <2> QED BY <2>1, <2>2
<1> QED BY <1>8, <1>11, <1>12, <1>13, <1>14, <1>15, <1>16, <1>18, <1>19, <1>20 DEF FetchPacked

\* The contract that IntegerArray assumes of the codec of its groups (RoundTrip and
\* FindContract), kept by the real one: a group of size integers is decoded to what
\* was encoded, and find() in it gives the first place of any integer.
THEOREM CodecKeepsContract ==
  ASSUME NEW size \in Nat \ {0}, UsedCount(size) <= WordBits,
         NEW s \in [1..size -> Original], NEW junk \in ByteValues
  PROVE  /\ DecodedInts(EncodedBytes(s, TRUE, junk), size, TRUE) = s
         /\ \A v \in Original :
              FoundIndex(EncodedBytes(s, TRUE, junk), size, v) = FirstIndex(s, v)
<1>1. s \in Seq(Original) /\ Len(s) = size /\ Len(s) # 0
  OBVIOUS
<1>2. PICK bytes, m : bytes = EncodedBytes(s, TRUE, junk) /\ m = Select(ClearMetadata, s)
  OBVIOUS
<1>3. TRUE \in BOOLEAN /\ UsedCount(Len(s)) <= WordBits
  BY <1>1
<1>4. Laid(bytes, m, s, TRUE)
  BY <1>1, <1>2, <1>3, EncodedIsLaid
<1>5. DecodedInts(bytes, Len(s), TRUE) = s
  BY <1>1, <1>3, <1>4, LaidReadsBack
<1>6. ASSUME NEW v \in Original PROVE FoundIndex(bytes, Len(s), v) = FirstIndex(s, v)
  BY <1>1, <1>4, FoundFirst
<1> QED BY <1>1, <1>2, <1>5, <1>6

-------------------------------------------------------------------------------
(* The space of a group.                                                    *)

\* A group is as small as its integers and a padded byte, or it is constant.
LEMMA GroupIsSmall ==
  ASSUME NEW s \in Seq(Original), NEW flag \in BOOLEAN, NEW bytes, NEW m,
         Laid(bytes, m, s, flag)
  PROVE  \/ Len(bytes) <= Offset(1, flag) + Len(s) * ValueSize
         \/ Cardinality(Range(s)) = 1
<1>1. /\ Fits(m, s, 0) /\ (Small(m.value_desc, s, 0) \/ Constant(s))
      /\ Len(bytes) = Offset(Metaspace(m), flag) + Dataspace(m)
  BY DEF Laid
<1>2. CASE Small(m.value_desc, s, 0)
  <2>1. PICK ms \in Nat, ds \in Nat : ms = m.value_desc.metaspace /\ ds = m.value_desc.dataspace
    BY <1>1 DEF Fits, MetaRecords, Descriptors
  <2>2. PICK l \in Nat : l = Len(s) * ValueSize
    BY LenProperties, ValueSizeFacts, ProductType
  <2>3. ds + ms <= l
    BY <1>2, <2>1, <2>2 DEF Small
  <2>4. PICK o \in Nat, one \in Nat : o = Offset(1 + ms, flag) /\ one = Offset(1, flag) /\ o <= ms + one
    <3>1. 1 \in Nat /\ 1 + ms \in Nat
      OBVIOUS
    <3>2. Offset(1 + ms, flag) \in Nat
      BY <3>1, OffsetFacts
    <3>3. Offset(1, flag) \in Nat
      BY <3>1, OffsetFacts
    <3>4. Offset(1 + ms, flag) <= ms + Offset(1, flag)
      BY OffsetFacts
    <3> QED BY <3>2, <3>3, <3>4
  <2>5. Len(bytes) = o + ds
    BY <1>1, <2>1, <2>4 DEF Metaspace, Dataspace
  <2>6. o + ds <= one + l
    BY <2>3, <2>4
  <2> QED BY <2>2, <2>4, <2>5, <2>6
<1>3. CASE Constant(s)
  <2>1. PICK n \in Nat \ {0} : n = Len(s) /\ DOMAIN s = 1..n
    BY <1>3, LenProperties DEF Constant
  <2>2. \A i \in 1..n : s[i] = s[1]
    BY <1>3, <2>1 DEF Constant
  <2>3. 1 \in 1..n
    OBVIOUS
  <2>4. Range(s) = {s[1]}
    BY <2>1, <2>2, <2>3 DEF Range
  <2> QED BY <2>4, FS_Singleton
<1> QED BY <1>1, <1>2, <1>3

-------------------------------------------------------------------------------
(* The group.                                                               *)

\* The memory is what encode() has made of the integers.
GroupInv ==
  /\ encodings \in 0..MaxEncodings /\ aligned \in BOOLEAN
  /\ ~Encoded => data = <<>> /\ allocated = 0 /\ integers = <<>>
  /\ Encoded =>
       /\ integers \in Inputs /\ allocated = Allocation(integers, aligned)
       /\ Laid(data, Select(ClearMetadata, integers), integers, aligned)

\* What a group encodes is a sequence whose length fits in a word.
LEMMA InputFacts ==
  ASSUME NEW s \in Inputs
  PROVE  s \in Seq(Original) /\ UsedCount(Len(s)) <= WordBits
BY GroupAssumption

\* Every step preserves the invariant.
LEMMA GroupSteps == GroupInv /\ [Next]_groupVars => GroupInv'
<1> SUFFICES ASSUME GroupInv, [Next]_groupVars PROVE GroupInv'
  OBVIOUS
<1>1. ASSUME NEW s \in Inputs, NEW flag \in BOOLEAN, NEW junk \in Junk, Encode(s, flag, junk)
      PROVE  GroupInv'
  <2>1. s \in Seq(Original) /\ UsedCount(Len(s)) <= WordBits
    BY InputFacts
  <2>2. PICK bytes, m : bytes = EncodedBytes(s, flag, junk) /\ m = Select(ClearMetadata, s)
    OBVIOUS
  <2>3. junk \in ByteValues
    BY GroupAssumption DEF ByteValues
  <2>4. Laid(bytes, m, s, flag)
    BY <2>1, <2>2, <2>3, EncodedIsLaid
  <2>5. /\ data' = bytes /\ integers' = s /\ aligned' = flag
        /\ allocated' = Allocation(s, flag) /\ encodings' = encodings + 1
        /\ encodings < MaxEncodings
    BY <1>1, <2>2 DEF Encode
  <2>6. encodings' \in 0..MaxEncodings /\ Encoded'
    <3>1. encodings \in 0..MaxEncodings /\ MaxEncodings \in Nat
      BY GroupAssumption DEF GroupInv
    <3> QED BY <2>5, <3>1 DEF Encoded
  <2>7. Laid(data', Select(ClearMetadata, integers'), integers', aligned')
    BY <2>2, <2>4, <2>5
  <2> QED BY <2>5, <2>6, <2>7 DEF GroupInv
<1>2. CASE UNCHANGED groupVars
  BY <1>2 DEF GroupInv, Encoded, groupVars
<1> QED BY <1>1, <1>2 DEF Next

\* The invariant holds of every reachable state.
LEMMA GroupHolds == Spec => []GroupInv
<1>1. Init => GroupInv
  BY GroupAssumption DEF Init, GroupInv, Encoded
<1>2. GroupInv /\ [Next]_groupVars => GroupInv'
  BY GroupSteps
<1> QED BY <1>1, <1>2, PTL DEF Spec

\* What an encoded group is.
LEMMA GroupFacts ==
  ASSUME GroupInv, Encoded
  PROVE  /\ integers \in Inputs /\ integers \in Seq(Original)
         /\ aligned \in BOOLEAN /\ allocated = Len(data)
         /\ \E m : Laid(data, m, integers, aligned)
<1>1. /\ integers \in Inputs /\ allocated = Allocation(integers, aligned) /\ aligned \in BOOLEAN
      /\ Laid(data, Select(ClearMetadata, integers), integers, aligned)
  BY DEF GroupInv
<1>2. Len(data) = Allocation(integers, aligned)
  BY <1>1 DEF Laid, Allocation
<1> QED BY <1>1, <1>2, InputFacts

\* The invariant implies what the runs check.
LEMMA GroupInvSays ==
  ASSUME GroupInv
  PROVE  /\ TypeOK /\ FillsItsMemory /\ DecodesWhatWasEncoded
         /\ FindsFirstIndex /\ FetchAgrees /\ NeverExpands
<1>1. CASE ~Encoded
  <2>1. data = <<>> /\ allocated = 0 /\ integers = <<>>
    BY <1>1 DEF GroupInv
  <2>2. TypeOK
    BY <2>1 DEF GroupInv, TypeOK
  <2> QED BY <1>1, <2>2 DEF FillsItsMemory, DecodesWhatWasEncoded, FindsFirstIndex,
                            FetchAgrees, NeverExpands
<1>2. CASE Encoded
  <2>1. PICK s, flag, bytes, m :
          /\ s = integers /\ flag = aligned /\ bytes = data
          /\ s \in Inputs /\ s \in Seq(Original) /\ flag \in BOOLEAN /\ Laid(bytes, m, s, flag)
          /\ allocated = Len(bytes)
    BY <1>2, GroupFacts
  <2>2. bytes \in Seq(ByteValues)
    BY <2>1 DEF Laid
  <2>3. TypeOK
    <3>1. \A k \in DOMAIN bytes : bytes[k] \in ByteValues
      BY <2>2
    <3>2. allocated \in Nat
      BY <2>1, <2>2, LenProperties
    <3> QED BY <2>1, <3>1, <3>2 DEF TypeOK, GroupInv, ByteValues
  <2>4. FillsItsMemory
    BY <2>1 DEF FillsItsMemory
  <2>5. SameChoice(Description(bytes), m) /\ DecodedInts(bytes, Len(s), flag) = s
    BY <2>1, LaidReadsBack
  <2>6. DecodesWhatWasEncoded
    BY <2>1, <2>5 DEF DecodesWhatWasEncoded
  <2>7. FindsFirstIndex
    <3> SUFFICES ASSUME aligned, integers # <<>>, NEW v \in Sought
                 PROVE  FoundIndex(data, Len(integers), v) = FirstIndex(integers, v)
      BY DEF FindsFirstIndex
    <3>1. v \in Original
      BY GroupAssumption
    <3>2. Len(s) # 0 /\ flag = TRUE
      BY <2>1
    <3>3. Laid(bytes, m, s, TRUE)
      BY <2>1, <3>2
    <3> QED BY <2>1, <3>1, <3>2, <3>3, FoundFirst
  <2>8. FetchAgrees
    <3>1. PICK a : a = Description(bytes) /\ SameChoice(a, m)
      BY <2>5
    <3> SUFFICES ASSUME a.value_desc.encoding \in {"bitpck", "bitfor"}, NEW i \in DOMAIN s
                 PROVE  FetchPacked(bytes, Offset(Len(MetaBytes(a)), flag) + 1, i - 1,
                                    a.value_desc) = s[i]
      BY <2>1, <3>1 DEF FetchAgrees
    <3>2. m.value_desc.encoding \in {"bitpck", "bitfor"} /\ i \in 1..Len(s)
      BY <2>1, <3>1 DEF SameChoice, SameBasic
    <3>3. PICK at : at = Offset(Len(MetaBytes(a)), flag) + 1
      OBVIOUS
    <3>4. FetchPacked(bytes, at, i - 1, a.value_desc) = s[i]
      BY <2>1, <3>1, <3>2, <3>3, Fetched
    <3> QED BY <3>3, <3>4
  <2>9. NeverExpands
    BY <2>1, GroupIsSmall DEF NeverExpands
  <2> QED BY <2>3, <2>4, <2>6, <2>7, <2>8, <2>9
<1> QED BY <1>1, <1>2

-------------------------------------------------------------------------------
(* What the runs check, for every value of the constants.                   *)

\* The memory of a group holds bytes, as many as were allocated.
THEOREM GroupTypesHold == Spec => []TypeOK
<1>1. GroupInv => TypeOK
  BY GroupInvSays
<1> QED BY <1>1, GroupHolds, PTL

\* The metadata, the padding and the data fill the allocation and no byte more.
THEOREM GroupFillsItsMemory == Spec => []FillsItsMemory
<1>1. GroupInv => FillsItsMemory
  BY GroupInvSays
<1> QED BY <1>1, GroupHolds, PTL

\* decode() gives the integers that were encoded last.
THEOREM GroupDecodes == Spec => []DecodesWhatWasEncoded
<1>1. GroupInv => DecodesWhatWasEncoded
  BY GroupInvSays
<1> QED BY <1>1, GroupHolds, PTL

\* index() gives the first place of an integer, or that there is none.
THEOREM GroupFindsFirst == Spec => []FindsFirstIndex
<1>1. GroupInv => FindsFirstIndex
  BY GroupInvSays
<1> QED BY <1>1, GroupHolds, PTL

\* fetch() gives the same integers as decoding all of them.
THEOREM GroupFetches == Spec => []FetchAgrees
<1>1. GroupInv => FetchAgrees
  BY GroupInvSays
<1> QED BY <1>1, GroupHolds, PTL

\* An encoded group is not larger than the integers and a padded byte.
THEOREM GroupNeverExpands == Spec => []NeverExpands
<1>1. GroupInv => NeverExpands
  BY GroupInvSays
<1> QED BY <1>1, GroupHolds, PTL

-------------------------------------------------------------------------------
(* An array of such groups: IntegerArray over the real codec, as the run    *)
(* CompressedArray has it, with nothing assumed of the codec.               *)

CONSTANTS Value, NoValue, GroupSize, MaxSize, NoData, Torn, Faults
VARIABLES groups, tail, pc, array_index, group, index, value, outcome

GroupEncode(ints) == EncodedBytes(ints, TRUE, 0)
GroupDecode(bytes) == DecodedInts(bytes, GroupSize, TRUE)
GroupFind(bytes, v) == FoundIndex(bytes, GroupSize, v)
GroupPatched(bytes) == Description(bytes).value_desc.encoding = "bitpfr"

Array == INSTANCE IntegerArrayProofs
           WITH Encode <- GroupEncode, Decode <- GroupDecode,
                FindIn <- GroupFind, Patched <- GroupPatched

\* Groups of any size that fits in a word, of integers of the type; what stands for
\* memory without an encoding is no sequence of bytes.
ArrayOfGroups ==
  /\ Value \subseteq Original /\ NoValue \notin Value
  /\ GroupSize \in Nat \ {0} /\ UsedCount(GroupSize) <= WordBits /\ MaxSize \in Nat
  /\ NoData \notin Seq(ByteValues) /\ Torn \notin Seq(ByteValues) /\ NoData # Torn
  /\ Faults \subseteq Array!FaultPoints

\* The index that the array looks for is the index that a group finds.
LEMMA SameIndex ==
  ASSUME NEW s, NEW v
  PROVE  Array!FirstIndex(s, v) = FirstIndex(s, v)
BY DEF Array!FirstIndex, FirstIndex, Array!NotFound, NotFound, Array!Min, Min

\* What IntegerArray assumes of its constants is true of the real codec.
LEMMA GroupsKeepContract ==
  ASSUME ArrayOfGroups
  PROVE  /\ \A b \in Array!Buffer : GroupDecode(GroupEncode(b)) = b
         /\ \A b \in Array!Buffer, v \in Value :
              GroupFind(GroupEncode(b), v) = Array!FirstIndex(b, v)
         /\ \A b \in Array!Buffer : GroupEncode(b) # NoData /\ GroupEncode(b) # Torn
<1>1. 0 \in ByteValues
  BY BitsFacts, SizesAssumption
<1>2. SUFFICES ASSUME NEW b \in Array!Buffer
               PROVE  /\ GroupDecode(GroupEncode(b)) = b
                      /\ \A v \in Value : GroupFind(GroupEncode(b), v) = Array!FirstIndex(b, v)
                      /\ GroupEncode(b) # NoData /\ GroupEncode(b) # Torn
  OBVIOUS
<1>3. PICK size \in Nat \ {0} : size = GroupSize /\ UsedCount(size) <= WordBits
  BY DEF ArrayOfGroups
<1>4. PICK s \in [1..size -> Original] : s = b
  <2>1. b \in [1..size -> Value] /\ Value \subseteq Original
    BY <1>3 DEF ArrayOfGroups, Array!Buffer
  <2>2. b \in [1..size -> Original]
    BY <2>1
  <2> QED BY <2>2
<1>5. DecodedInts(EncodedBytes(s, TRUE, 0), size, TRUE) = s
  BY <1>1, <1>3, CodecKeepsContract
<1>6. ASSUME NEW v \in Value PROVE GroupFind(GroupEncode(b), v) = Array!FirstIndex(b, v)
  <2>1. v \in Original
    BY DEF ArrayOfGroups
  <2>2. FoundIndex(EncodedBytes(s, TRUE, 0), size, v) = FirstIndex(s, v)
    BY <1>1, <1>3, <2>1, CodecKeepsContract
  <2> QED BY <1>3, <1>4, <2>2, SameIndex DEF GroupFind, GroupEncode
<1>7. GroupEncode(b) \in Seq(ByteValues)
  <2>1. PICK bytes, m : bytes = EncodedBytes(s, TRUE, 0) /\ m = Select(ClearMetadata, s)
    OBVIOUS
  <2>2. s \in Seq(Original) /\ Len(s) = size /\ TRUE \in BOOLEAN
    OBVIOUS
  <2>3. UsedCount(Len(s)) <= WordBits
    BY <1>3, <2>2
  <2>4. Laid(bytes, m, s, TRUE)
    BY <1>1, <2>1, <2>2, <2>3, EncodedIsLaid
  <2> QED BY <1>4, <2>1, <2>4 DEF Laid, GroupEncode
<1> QED BY <1>3, <1>4, <1>5, <1>6, <1>7 DEF GroupDecode, GroupEncode, ArrayOfGroups

\* The array of compressed groups is a sequence of integers, whatever insert() does
\* and wherever an allocation fails that leaves no group without data.
THEOREM CompressedArrayIsSequence ==
  ASSUME ArrayOfGroups, Faults \cap {"outliers", "seal"} = {}
  PROVE  Array!Spec => Array!ImplementsSequence
<1>1. GroupSize \in Nat \ {0} /\ MaxSize \in Nat
  BY DEF ArrayOfGroups
<1>2. NoValue \notin Value
  BY DEF ArrayOfGroups
<1>3. Faults \subseteq Array!FaultPoints
  BY DEF ArrayOfGroups
<1>4. \A b \in Array!Buffer : GroupDecode(GroupEncode(b)) = b
  BY GroupsKeepContract
<1>5. \A b \in Array!Buffer, v \in Value :
        GroupFind(GroupEncode(b), v) = Array!FirstIndex(b, v)
  BY GroupsKeepContract
<1>6. /\ \A b \in Array!Buffer : GroupEncode(b) # NoData /\ GroupEncode(b) # Torn
      /\ NoData # Torn
  BY GroupsKeepContract DEF ArrayOfGroups
<1> QED BY <1>1, <1>2, <1>3, <1>4, <1>5, <1>6, Array!RefinesSequence, PTL

\* find() of the array gives the first index of an integer, by searching bytes.
THEOREM CompressedArrayFinds ==
  ASSUME ArrayOfGroups, Faults \cap {"outliers", "seal"} = {}
  PROVE  Array!Spec => []Array!FindsFirst
<1>1. GroupSize \in Nat \ {0} /\ MaxSize \in Nat
  BY DEF ArrayOfGroups
<1>2. NoValue \notin Value
  BY DEF ArrayOfGroups
<1>3. Faults \subseteq Array!FaultPoints
  BY DEF ArrayOfGroups
<1>4. \A b \in Array!Buffer : GroupDecode(GroupEncode(b)) = b
  BY GroupsKeepContract
<1>5. \A b \in Array!Buffer, v \in Value :
        GroupFind(GroupEncode(b), v) = Array!FirstIndex(b, v)
  BY GroupsKeepContract
<1>6. /\ \A b \in Array!Buffer : GroupEncode(b) # NoData /\ GroupEncode(b) # Torn
      /\ NoData # Torn
  BY GroupsKeepContract DEF ArrayOfGroups
<1> QED BY <1>1, <1>2, <1>3, <1>4, <1>5, <1>6, Array!FindReads, PTL

\* at() of the array reads the integer of its position, or throws, whatever failed.
THEOREM CompressedArrayReads ==
  ASSUME ArrayOfGroups
  PROVE  Array!Spec => []Array!AtReadsContents
<1>1. GroupSize \in Nat \ {0} /\ MaxSize \in Nat
  BY DEF ArrayOfGroups
<1>2. NoValue \notin Value
  BY DEF ArrayOfGroups
<1>3. Faults \subseteq Array!FaultPoints
  BY DEF ArrayOfGroups
<1>4. \A b \in Array!Buffer : GroupDecode(GroupEncode(b)) = b
  BY GroupsKeepContract
<1>5. \A b \in Array!Buffer, v \in Value :
        GroupFind(GroupEncode(b), v) = Array!FirstIndex(b, v)
  BY GroupsKeepContract
<1>6. /\ \A b \in Array!Buffer : GroupEncode(b) # NoData /\ GroupEncode(b) # Torn
      /\ NoData # Torn
  BY GroupsKeepContract DEF ArrayOfGroups
<1> QED BY <1>1, <1>2, <1>3, <1>4, <1>5, <1>6, Array!AtReads, PTL

======================================================================================
