---------------------------- MODULE MCThreadTimer ----------------------------
(***************************************************************************)
(* Instances of ThreadTimer for TLC: the start timer, one periodic timer   *)
(* (GARBAGE_CHECK_TIMER_ID stands for the three there are) and the         *)
(* creation timer.                                                         *)
(***************************************************************************)
EXTENDS ThreadTimer

MCTimers == {"start", "garbage", "create"}
MCInitialTimers == <<"start", "garbage">>
MCElapse == [t \in Timers |-> CASE t = "start" -> 2 [] t = "garbage" -> 4 [] t = "create" -> 3]
=============================================================================
