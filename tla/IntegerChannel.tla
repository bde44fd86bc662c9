----------------------------- MODULE IntegerChannel -----------------------------
(***************************************************************************)
(* What a codec promises to its client, with no words, bytes or outliers:  *)
(* the integers of a list come out again, each once and in order, and all  *)
(* of them do.  A list may be sent in several calls before the first       *)
(* integer is taken.  Module StreamClient is shown to implement this       *)
(* module.                                                                 *)
(***************************************************************************)
EXTENDS SequencesExt

VARIABLES
  message,    \* the integers that are on their way
  delivered   \* those that have come out

channelVars == <<message, delivered>>

ChannelInit == message = <<>> /\ delivered = <<>>

\* encode()
Send ==
  /\ delivered = <<>>
  /\ IsPrefix(message, message')
  /\ UNCHANGED delivered

\* decode(), one integer or many
Deliver ==
  /\ IsPrefix(delivered, delivered')
  /\ IsPrefix(delivered', message)
  /\ UNCHANGED message

\* The client has what it has sent, and turns to another list.
Forget ==
  /\ delivered = message
  /\ message' = <<>> /\ delivered' = <<>>

ChannelNext == Send \/ Deliver \/ Forget

\* What is sent arrives.
Arrives == delivered # message ~> delivered = message

ChannelSpec == ChannelInit /\ [][ChannelNext]_channelVars /\ Arrives

================================================================================
