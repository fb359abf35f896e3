--------------------------- MODULE StreamRegistry ---------------------------
(***************************************************************************)
(* What StreamManager promises to the rest of the program: stream keys are *)
(* handed out in order, a stream is in the manager once, and it leaves for *)
(* good, only after it has failed or has waited longer than                *)
(* STREAMING_STATUS_MAX_WAIT_TIME; a failure is never taken back.          *)
(* StreamSession implements this module.                                   *)
(***************************************************************************)
EXTENDS Integers

CONSTANT MaxStreams        \* bound: streams the program gets to create

VARIABLES
    created,     \* streams created so far; their keys are 0 .. created - 1
    present,     \* streams in the manager
    failed,      \* streams in the manager that have an error
    overdue      \* streams that have waited too long

registryVars == <<created, present, failed, overdue>>

Keys == 0 .. MaxStreams - 1

RegistryInit ==
    /\ created = 0
    /\ present = {} /\ failed = {} /\ overdue = {}

Create ==
    /\ created \in Keys
    /\ created' = created + 1
    /\ present' = present \cup {created}
    /\ UNCHANGED <<failed, overdue>>

Fail(s) ==
    /\ s \in present \ failed
    /\ failed' = failed \cup {s}
    /\ UNCHANGED <<created, present, overdue>>

Wait(s) ==
    /\ s \in present \ overdue
    /\ overdue' = overdue \cup {s}
    /\ UNCHANGED <<created, present, failed>>

Collect(s) ==
    /\ s \in present
    /\ s \in failed \cup overdue
    /\ present' = present \ {s}
    /\ failed' = failed \ {s}
    /\ UNCHANGED <<created, overdue>>

RegistryNext ==
    \/ Create
    \/ \E s \in Keys : Fail(s) \/ Wait(s) \/ Collect(s)

RegistrySpec == RegistryInit /\ [][RegistryNext]_registryVars
=============================================================================
