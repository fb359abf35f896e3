------------------------- MODULE NetworkServicePool -------------------------
(***************************************************************************)
(* The pool of io_services, one thread each, that every socket and timer   *)
(* of the program is bound to.                                             *)
(*                                                                         *)
(* The main thread runs and stops the pool; any thread asks it for a       *)
(* service. stop() lets the handler that runs finish and drops the others. *)
(***************************************************************************)
EXTENDS Integers

CONSTANT PoolCount      \* _pool_count

ASSUME PoolAssumption == PoolCount \in Nat \ {0}

VARIABLES
    isRun,                  \* _is_run
    serviceIndex,           \* _service_index
    privateServiceIndex,    \* _private_service_index
    thread                  \* of each service: "none", "run", "stopped", "joined"

poolVars == <<isRun, serviceIndex, privateServiceIndex, thread>>

Services == 0..(PoolCount - 1)
Null == PoolCount           \* the empty pointer of a pool that does not run

PoolTypeOK ==
    /\ isRun \in BOOLEAN
    /\ serviceIndex \in Services
    /\ privateServiceIndex \in 0..(PoolCount \div 3)
    /\ thread \in [Services -> {"none", "run", "stopped", "joined"}]

PoolInit ==
    /\ isRun = FALSE
    /\ serviceIndex = 0 /\ privateServiceIndex = 0
    /\ thread = [v \in Services |-> "none"]

Run ==
    /\ ~isRun
    /\ thread' = [v \in Services |-> "run"]
    /\ isRun' = TRUE
    /\ UNCHANGED <<serviceIndex, privateServiceIndex>>

(* Mutant: the pool is marked as stopped with the first service.             *)
StopServiceAtOnce ==
    /\ \E v \in Services :
        /\ thread[v] = "run" /\ \A u \in 0..(v - 1) : thread[u] = "stopped"
        /\ thread' = [thread EXCEPT ![v] = "stopped"]
    /\ isRun' = FALSE
    /\ UNCHANGED <<serviceIndex, privateServiceIndex>>

(* Stop, one step for each stop() and each join() of its two loops.          *)
StopService ==
    /\ isRun
    /\ \E v \in Services :
        /\ thread[v] = "run" /\ \A u \in 0..(v - 1) : thread[u] = "stopped"
        /\ thread' = [thread EXCEPT ![v] = "stopped"]
    /\ UNCHANGED <<isRun, serviceIndex, privateServiceIndex>>

Join(busy) ==
    /\ \A v \in Services : thread[v] \notin {"none", "run"}
    /\ \E v \in Services \ busy :
        /\ thread[v] = "stopped" /\ \A u \in 0..(v - 1) : thread[u] = "joined"
        /\ thread' = [thread EXCEPT ![v] = "joined"]
        /\ isRun' = (v < PoolCount - 1)
    /\ UNCHANGED <<serviceIndex, privateServiceIndex>>

(* The next of the shared services after i, from which the private ones are  *)
(* left out only when the index wraps.                                       *)
Following(i) == IF i + 1 >= PoolCount THEN privateServiceIndex ELSE i + 1

(* GetService hands out the service v, or Null.                              *)
GetService(v) ==
    IF isRun
    THEN /\ v = serviceIndex
         /\ serviceIndex' = Following(serviceIndex)
         /\ UNCHANGED <<isRun, privateServiceIndex, thread>>
    ELSE v = Null /\ UNCHANGED poolVars

(* GetPrivateService takes a third of the services at most, from the front.  *)
GetPrivateService(v) ==
    IF isRun /\ privateServiceIndex < PoolCount \div 3
    THEN /\ v = privateServiceIndex
         /\ privateServiceIndex' = privateServiceIndex + 1
         /\ UNCHANGED <<isRun, serviceIndex, thread>>
    ELSE GetService(v)
=============================================================================
