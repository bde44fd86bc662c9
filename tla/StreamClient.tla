------------------------------ MODULE StreamClient ------------------------------
(***************************************************************************)
(* A client of the sequence codecs: like encode_basic() and decode_basic() *)
(* of integer_codec (integer_codec.h), it uses either the codecs that pack *)
(* bits or those that write bytes, for one call at a time.                 *)
(***************************************************************************)
EXTENDS PatchedStream, VarintStream, SequencesExt

streamVars == <<patchedVars, varintVars>>

StreamInit == PatchedInit /\ VarintInit

UseBits == step = "idle" /\ PatchedNext /\ UNCHANGED varintVars

UseBytes == kind = "none" /\ VarintNext /\ UNCHANGED patchedVars

StreamNext == UseBits \/ UseBytes

\* A list is under way.
Busy == kind # "none" \/ step # "idle"

TurnToPatch == BeginPatch /\ UNCHANGED varintVars

\* The codecs run on the client's thread and never wait, and the client goes on
\* with what it has begun.  It may encode a list in as many calls as MayContinue
\* allows, but not for ever: in the end it decodes what it has encoded.
StreamSpec ==
  /\ StreamInit
  /\ [][StreamNext]_streamVars
  /\ WF_streamVars(Busy /\ StreamNext)
  /\ SF_streamVars(TurnToPatch)

-------------------------------------------------------------------------------
(* Properties.                                                              *)

\* The bits of a plain list that are packed, and the whole integers of any other.
Message ==
  CASE step # "idle" -> FlattenSeq([a \in DOMAIN arrays |-> arrays[a].ints])
    [] kind = "plain" -> [i \in DOMAIN source |-> source[i] \cap Mask(width)]
    [] OTHER -> sent

\* decode_patch() delivers the integers that it has passed: those behind may be
\* outliers still cut to the packed bits.
Delivered ==
  CASE step # "idle" -> FlattenSeq(got)
    [] kind = "plain" -> result
    [] kind = "patching" -> SubSeq(decoded, 1, origin)
    [] kind = "used" -> decoded
    [] OTHER -> <<>>

Channel == INSTANCE IntegerChannel WITH message <- Message, delivered <- Delivered

\* Whichever codec is used, and for whatever lists, it implements a channel of
\* integers: nothing is lost, repeated or changed, the order is kept, and decode()
\* comes to the end of what encode() was given.  A patched list is given in one
\* call, or in several of which only the last finds outliers (MayContinue).
ImplementsChannel == Channel!ChannelSpec

================================================================================
