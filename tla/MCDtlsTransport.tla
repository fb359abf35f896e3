-------------------------- MODULE MCDtlsTransport --------------------------
(***************************************************************************)
(* Instances of DtlsTransport for TLC: a few frames of video, the third of *)
(* two packets, a few packets of audio, and sequence numbers of two bits.  *)
(***************************************************************************)
EXTENDS DtlsTransport

FewFrames == [video |-> <<1, 2, 3, 3>>, audio |-> <<1, 2, 3>>]

(* The third packet of audio is the one whose number has wrapped.            *)
Offsets == [video |-> 2, audio |-> 1]

(* The instance is one the theorem about the counters speaks of.             *)
ASSUME FewFramesOrdered == Ordered
=============================================================================
