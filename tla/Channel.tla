------------------------------- MODULE Channel -------------------------------
(***************************************************************************)
(* What a serial line promises: what has been received is, in order and    *)
(* without gaps or duplicates, a first part of what has been sent.         *)
(* Uart.tla implements it twice, once in each direction.                   *)
(***************************************************************************)
EXTENDS Naturals, Sequences

CONSTANT Bytes

VARIABLES sent, got

channelVars == <<sent, got>>

ChannelInit == sent = <<>> /\ got = <<>>

Send(b) == sent' = Append(sent, b) /\ UNCHANGED got

(* The receiver takes the next bytes, one or more at a time. *)
Receive(n) == got' = SubSeq(sent, 1, n) /\ UNCHANGED sent

ChannelNext ==
  \/ \E b \in Bytes : Send(b)
  \/ \E n \in (Len(got) + 1)..Len(sent) : Receive(n)

ChannelSpec == ChannelInit /\ [][ChannelNext]_channelVars
=============================================================================
