------------------------------ MODULE CodecSession ------------------------------
(***************************************************************************)
(* A client that works with integer_codec<T> directly, as the unit tests   *)
(* do: it keeps a metadata object to write with and another to read with,  *)
(* and may use both again for the next sequence, cleared or not.  A select *)
(* over old metadata overwrites only the fields that it sets, and so does  *)
(* a decode.                                                               *)
(***************************************************************************)
EXTENDS IntegerCodec

CONSTANT Sent   \* the sequences of integers that are sent

ASSUME SessionAssumption ==
  /\ Sent \subseteq Seq(Original)
  /\ \A s \in Sent : UsedCount(Len(s)) <= WordBits

VARIABLES
  phase,     \* "ready", "selected", "written" or "read"
  message,   \* the sequence under way
  writer,    \* the metadata of select() and encode()
  cleared,   \* the last select() worked on metadata that nobody had used
  buffer,    \* the bytes written
  reserved,  \* the bytes allocated for them: metaspace() + dataspace()
  reader,    \* the metadata of decode()
  received   \* the integers decoded

sessionVars ==
  <<phase, message, writer, cleared, buffer, reserved, reader, received>>

SessionInit ==
  /\ phase = "ready"
  /\ message = <<>> /\ received = <<>>
  /\ writer = ClearMetadata /\ reader = ClearMetadata
  /\ cleared = TRUE
  /\ buffer = <<>> /\ reserved = 0

\* encoding_metadata::clear() on the writer's object.
ClearWriter ==
  /\ phase = "ready"
  /\ writer' = ClearMetadata
  /\ UNCHANGED <<phase, message, cleared, buffer, reserved, reader, received>>

SelectFor(s) ==
  /\ phase = "ready"
  /\ phase' = "selected"
  /\ message' = s
  /\ writer' = Select(writer, s)
  /\ cleared' = (writer = ClearMetadata)
  /\ UNCHANGED <<buffer, reserved, reader, received>>

Write ==
  /\ phase = "selected"
  /\ phase' = "written"
  /\ buffer' = MetaBytes(writer) \o DataBytes(writer, message)
  /\ reserved' = Metaspace(writer) + Dataspace(writer)
  /\ UNCHANGED <<message, writer, cleared, reader, received>>

Read ==
  /\ phase = "written"
  /\ phase' = "read"
  /\ LET read == ReadMeta(reader, buffer)
     IN /\ reader' = read.meta
        /\ received' = ReadData(read.meta, buffer, read.next, Len(message))
  /\ UNCHANGED <<message, writer, cleared, buffer, reserved>>

\* The client drops the sequence and keeps both metadata objects.
Finish ==
  /\ phase = "read"
  /\ phase' = "ready"
  /\ message' = <<>> /\ received' = <<>>
  /\ buffer' = <<>> /\ reserved' = 0
  /\ UNCHANGED <<writer, cleared, reader>>

SessionNext ==
  \/ ClearWriter
  \/ \E s \in Sent : SelectFor(s)
  \/ Write
  \/ Read
  \/ Finish

SessionSpec == SessionInit /\ [][SessionNext]_sessionVars

-------------------------------------------------------------------------------
(* Properties.                                                              *)

\* The fields of the metadata, whichever calls filled them, stay in range.
SessionTypeOK ==
  LET Descriptor(bits) ==
        [encoding : Range(Encodings), dataspace : Nat, metaspace : Nat,
         origin : Original, nbits : 0..bits]
  IN /\ {writer, reader} \subseteq
          [value_desc : Descriptor(Width), noutliers : Nat,
           outlier_index_desc : Descriptor(WordBits),
           outlier_value_desc : Descriptor(Width)]
     /\ \A k \in DOMAIN buffer : buffer[k] \in 0..(2^ByteBits - 1)

\* What is read is what was sent, whatever the metadata objects of the two
\* sides held from earlier sequences.
ReceivesWhatWasSent == phase = "read" => received = message

\* A client that allocates what select() predicted never writes past it, not
\* even when the prediction was made over the metadata of another sequence.
NeverOverflows == phase = "written" => Len(buffer) <= reserved

\* The prediction is exact if the metadata were clear.
ExactWhenCleared == phase = "written" /\ cleared => Len(buffer) = reserved

================================================================================
