------------------------- MODULE MCTcpNetworkObject -------------------------
(***************************************************************************)
(* Instances of TcpNetworkObject for TLC: a message is its own number.     *)
(***************************************************************************)
EXTENDS TcpNetworkObject

MCSize(m) == m
=============================================================================
