---------------------------- MODULE SessionSetup ----------------------------
(***************************************************************************)
(* What a media session tells MainObject in its life, and what             *)
(* StreamSession takes for granted: first that STUN is complete, then that *)
(* the stream has started, each once, and at any time, once and last, that *)
(* the socket has failed. A session that was removed begins nothing, but a *)
(* handler that was under way then may still have one thing to tell.       *)
(***************************************************************************)
EXTENDS Sequences

VARIABLES
    told,       \* the announcements so far
    silent,     \* the session was removed or has failed
    busy        \* a handler is under way that may have something to tell

Init == told = <<>> /\ silent = FALSE /\ busy = FALSE

Begin == ~silent /\ ~busy /\ busy' = TRUE /\ UNCHANGED <<told, silent>>

(* A handler tells one thing at most, and is over with it.                   *)
Announce(what) ==
    /\ busy /\ busy' = FALSE
    /\ told' = Append(told, what)

StunComplete == told = <<>> /\ Announce("stun") /\ UNCHANGED silent
StreamingStart == told = <<"stun">> /\ Announce("streaming") /\ UNCHANGED silent
NetworkClose == Announce("closed") /\ silent' = TRUE

Over == busy /\ busy' = FALSE /\ UNCHANGED <<told, silent>>

Remove == ~silent /\ silent' = TRUE /\ UNCHANGED <<told, busy>>

Next == Begin \/ StunComplete \/ StreamingStart \/ NetworkClose \/ Over \/ Remove

Spec == Init /\ [][Next]_<<told, silent, busy>>
=============================================================================
