-------------------------- MODULE MCOmeStreamObject --------------------------
(* An instance for TLC.                                                      *)
EXTENDS OmeStreamObject
=============================================================================
