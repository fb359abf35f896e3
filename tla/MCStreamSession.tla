-------------------------- MODULE MCStreamSession --------------------------
(* Instances of StreamSession for TLC. *)
EXTENDS StreamSession

AllFaults == {"connect", "handshake", "json", "tcp", "dtls", "udp", "keys"}
NoFaults == {}
=============================================================================
