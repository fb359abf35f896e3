------------------------- MODULE MCTcpNetworkManager -------------------------
(* An instance for TLC: the sockets are interchangeable.                     *)
EXTENDS TcpNetworkManager, TLC

Symmetry == Permutations(Sockets)
=============================================================================
