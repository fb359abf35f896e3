---------------------------- MODULE FifoChannel ----------------------------
(***************************************************************************)
(* What a connection promises to those who send on it: the messages it     *)
(* accepts reach the socket in the order in which they were accepted, none *)
(* skipped, none twice, and none after the connection is closed.           *)
(* TcpNetworkObject implements this module.                                *)
(***************************************************************************)
EXTENDS Naturals, Sequences

CONSTANT Messages

VARIABLES
    accepted,    \* messages PostSend has queued
    delivered,   \* messages written to the socket
    closed

channelVars == <<accepted, delivered, closed>>

ChannelInit == accepted = <<>> /\ delivered = <<>> /\ closed = FALSE

Accept(m) ==
    /\ accepted' = Append(accepted, m)
    /\ UNCHANGED <<delivered, closed>>

Deliver ==
    /\ ~closed
    /\ Len(delivered) < Len(accepted)
    /\ delivered' = Append(delivered, accepted[Len(delivered) + 1])
    /\ UNCHANGED <<accepted, closed>>

Close ==
    /\ closed' = TRUE
    /\ UNCHANGED <<accepted, delivered>>

ChannelNext == Deliver \/ Close \/ \E m \in Messages : Accept(m)

ChannelSpec == ChannelInit /\ [][ChannelNext]_channelVars
=============================================================================
