-------------------------- MODULE TcpNetworkManager --------------------------
(***************************************************************************)
(* The manager of TCP connections from the program's start to its end:     *)
(* the pool it takes services from, the sockets it connects and accepts,   *)
(* the map of its objects, and the shutdown that MainObject::Destroy runs  *)
(* on the main thread while handlers run on the threads of the pool.       *)
(*                                                                         *)
(* MainObject uses the connecting side only; the accepting side, which     *)
(* Create's listen_port turns on, ends in MainObject::OnTcpNetworkAccepted *)
(* all the same. What an object does with its socket is TcpNetworkObject's *)
(* subject: here it fails once, or not, and ends some time after PostClose. *)
(*                                                                         *)
(* A manager made by CreateSSL has a handshake between the connection and  *)
(* the callback. MainObject makes none, and its two TLS callbacks take no  *)
(* socket and lose it; those modelled do what the others do.               *)
(*                                                                         *)
(* A handler is split where it calls out: between its test of _is_closeing *)
(* and what it does after the callback, other threads run.                 *)
(***************************************************************************)
EXTENDS NetworkServicePool, FiniteSetsExt

CONSTANTS
    Sockets,            \* bound: the sockets the program may ever create
    IndexKeyMaxSize     \* INDEX_KEY_MAX_SIZE

ASSUME ManagerAssumption ==
    IsFiniteSet(Sockets) /\ -1 \notin Sockets /\ IndexKeyMaxSize \in Nat \ {0}

VARIABLES
    main,               \* where the main thread is
    timer,              \* the thread of ThreadTimer: "none", "run", "stopped"
    listens,            \* listen_port is not 0
    private,            \* private_accepter_service
    tls,                \* _is_support_ssl
    isCloseing,         \* _is_closeing
    acceptor,           \* the service of _acceptor, None when there is none
    acceptSocket,       \* _accept_socket
    releaseTimer,       \* _release_timer: "none", "set", "fired"
    indexKey,           \* _index_key
    infoMap,            \* _network_info_map, from keys to sockets of objects
    socket,             \* "unused", "open", "closed", "deleted"
    service,            \* the service a socket was created on
    objects,            \* the sockets a TcpNetworkObject holds
    objectKey,          \* _index_key of the object
    closing,            \* the objects told to close
    pending,            \* handlers io_service has still to run
    running             \* what the handler on a thread has still to do

None == -1
managerVars == <<listens, private, tls, isCloseing, acceptor, acceptSocket, releaseTimer,
                 indexKey, infoMap>>
objectVars == <<objects, objectKey, closing>>
socketVars == <<socket, service>>
vars == <<poolVars, main, timer, managerVars, socketVars, objectVars, pending, running>>

Keys == 0..(IndexKeyMaxSize - 1)
Handler(op, v, s) == [op |-> op, service |-> v, socket |-> s]
Handlers == [op : {"Connected", "Handshake", "Accepted", "AcceptHandshake", "Release", "Close"},
             service : Services \cup {Null}, socket : Sockets \cup {None}]
Idle == [op |-> "idle", socket |-> None]
Tasks == [op : {"idle", "Connected", "Accepted", "PostAccept"},
          socket : Sockets \cup {None}]

TypeOK ==
    /\ PoolTypeOK
    /\ main \in {"load", "log", "start", "networks", "timers", "up", "release", "stop", "destruct", "end"}
    /\ timer \in {"none", "run", "stopped"}
    /\ {listens, private, tls, isCloseing} \subseteq BOOLEAN
    /\ acceptor \in Services \cup {None, Null}
    /\ acceptSocket \in Sockets \cup {None}
    /\ releaseTimer \in {"none", "set", "fired"}
    /\ indexKey \in 0..IndexKeyMaxSize
    /\ infoMap \in [Keys -> Sockets \cup {None}]
    /\ socket \in [Sockets -> {"unused", "open", "closed", "deleted"}]
    /\ service \in [Sockets -> Services \cup {None, Null}]
    /\ objects \subseteq Sockets /\ closing \subseteq Sockets
    /\ objectKey \in [Sockets -> Keys \cup {None}]
    /\ pending \subseteq Handlers
    /\ running \in [Services -> Tasks]

Init ==
    /\ PoolInit
    /\ main = "load" /\ timer = "none"
    /\ listens \in BOOLEAN
    /\ tls = FALSE
    /\ private \in IF listens THEN BOOLEAN ELSE {FALSE}
    /\ isCloseing = FALSE /\ acceptor = None /\ acceptSocket = None
    /\ releaseTimer = "none"
    /\ indexKey = 0 /\ infoMap = [k \in Keys |-> None]
    /\ socket = [s \in Sockets |-> "unused"]
    /\ service = [s \in Sockets |-> None]
    /\ objects = {} /\ objectKey = [s \in Sockets |-> None] /\ closing = {}
    /\ pending = {}
    /\ running = [v \in Services |-> Idle]

Idles(v) == thread[v] = "run" /\ running[v] = Idle
Unused == {s \in Sockets : socket[s] = "unused"}
InMap == {infoMap[k] : k \in Keys} \ {None}

----------------------------------------------------------------------------
(* The map of objects.                                                       *)

(* PostClose of each object in S: the first call sets the timer, which waits *)
(* with the other handlers.                                                  *)
PostClose(S, others) ==
    /\ closing' = closing \cup S
    /\ pending' = others \cup {Handler("Close", service[s], s) : s \in S \ closing}

(* The key an object gets: the current one, or else the first free one above *)
(* it. If there is none the current one stays, and Insert refuses.           *)
NextKey(current) ==
    LET free == {k \in Keys : k >= current /\ infoMap[k] = None}
    IN  IF free = {} THEN current ELSE Min(free)

(* The key NextKey finds, taken from 0 when it has reached its limit.        *)
KeyToInsert == NextKey(IF indexKey >= IndexKeyMaxSize THEN 0 ELSE indexKey)

(* Start reads from the socket, unless it is closed already.                 *)
Start(s) == socket[s] = "open"

(* Insert of the object that holds s. The object that is refused is deleted  *)
(* and its socket with it, the one that does not start is closed.            *)
Insert(s) ==
    IF infoMap[KeyToInsert] # None
    THEN /\ indexKey' = KeyToInsert
         /\ socket' = [socket EXCEPT ![s] = "deleted"]
         /\ UNCHANGED <<infoMap, objectVars, pending>>
    ELSE /\ indexKey' = KeyToInsert + 1
         /\ objects' = objects \cup {s}
         /\ objectKey' = [objectKey EXCEPT ![s] = KeyToInsert]
         /\ IF Start(s)
            THEN infoMap' = [infoMap EXCEPT ![KeyToInsert] = s]
                 /\ UNCHANGED <<closing, pending>>
            ELSE PostClose({s}, pending) /\ UNCHANGED infoMap
         /\ UNCHANGED socket

(* Remove(key): who erases the object closes it.                             *)
Remove(k) ==
    /\ PostClose({infoMap[k]} \ {None}, pending)
    /\ infoMap' = [infoMap EXCEPT ![k] = None]

(* Mutant: the objects are erased and not closed, as UdpNetworkManager does.  *)
RemoveAllForgets(others) ==
    /\ pending' = others
    /\ infoMap' = [k \in Keys |-> None]
    /\ UNCHANGED closing

RemoveAll(others) ==
    /\ PostClose(InMap, others)
    /\ infoMap' = [k \in Keys |-> None]

(* OnNetworkClose, called by a handler of an object that found an error.     *)
OnNetworkClose(v) ==
    /\ Idles(v)
    /\ \E s \in objects \ closing :
        /\ service[s] = v
        /\ Remove(objectKey[s])
    /\ UNCHANGED <<poolVars, main, timer, listens, private, tls, isCloseing, acceptor,
                   acceptSocket, releaseTimer, indexKey, socketVars, objects,
                   objectKey, running>>

(* The destructor of the object that holds s.                                *)
DeleteObject(s) ==
    /\ objects' = objects \ {s}
    /\ socket' = [socket EXCEPT ![s] = "deleted"]

(* The close timer of an object: its socket closes, its pending operations   *)
(* end, and with the last of them the object and the socket are deleted.     *)
CloseTimer(v) ==
    /\ Idles(v)
    /\ \E h \in pending :
        /\ h.op = "Close" /\ h.service = v
        /\ pending' = pending \ {h}
        /\ DeleteObject(h.socket)
    /\ UNCHANGED <<poolVars, main, timer, managerVars, service, objectKey, closing, running>>

----------------------------------------------------------------------------
(* Connecting.                                                               *)

(* On the timer thread a socket is made on the next service and connects.    *)
Connect ==
    /\ timer = "run"
    /\ \E s \in Unused, v \in Services \cup {Null} :
        /\ GetService(v)
        /\ socket' = [socket EXCEPT ![s] = "open"]
        /\ service' = [service EXCEPT ![s] = v]
        /\ pending' = pending \cup {Handler("Connected", v, s)}
    /\ UNCHANGED <<main, timer, managerVars, objectVars, running>>

PostConnect == ~tls /\ Connect
PostConnectSSL == tls /\ Connect

(* OnConnected up to the callback. The callback does nothing with an error.  *)
OnConnected(v) ==
    /\ Idles(v) /\ ~tls
    /\ \E h \in pending :
        /\ h.op = "Connected" /\ h.service = v
        /\ pending' = pending \ {h}
        /\ \/ /\ socket' = [socket EXCEPT ![h.socket] = "deleted"]
              /\ UNCHANGED running
           \/ /\ running' = [running EXCEPT ![v] = [op |-> "Connected", socket |-> h.socket]]
              /\ UNCHANGED socket
    /\ UNCHANGED <<poolVars, main, timer, managerVars, service, objectVars>>

(* The process ends at once, whatever its threads are doing.                 *)
Crash ==
    /\ main' = "end" /\ timer' = "stopped"
    /\ thread' = [v \in Services |-> "stopped"]
    /\ acceptor' = None /\ acceptSocket' = None
    /\ infoMap' = [k \in Keys |-> None]
    /\ socket' = [s \in Sockets |-> "deleted"]
    /\ objects' = {} /\ closing' = {} /\ pending' = {}
    /\ running' = [v \in Services |-> Idle]
    /\ UNCHANGED <<isRun, serviceIndex, privateServiceIndex, listens, private, tls,
                   isCloseing, releaseTimer, indexKey, service, objectKey>>

(* OnConnectedSSL: after an error it deletes the socket and starts the       *)
(* handshake on the null pointer.                                            *)
OnConnectedSSL(v) ==
    /\ Idles(v) /\ tls
    /\ \E h \in pending :
        /\ h.op = "Connected" /\ h.service = v
        /\ \/ Crash
           \/ /\ pending' = (pending \ {h}) \cup {Handler("Handshake", v, h.socket)}
              /\ UNCHANGED <<poolVars, main, timer, managerVars, socketVars, objectVars, running>>

(* Every certificate of the server is accepted, verified before or not.      *)
VerifyCallback(preverified) == TRUE

(* OnHandshakeSSL of a client, up to the callback.                           *)
OnHandshakeSSL(v) ==
    /\ Idles(v)
    /\ \E h \in pending :
        /\ h.op = "Handshake" /\ h.service = v
        /\ pending' = pending \ {h}
        /\ \/ /\ socket' = [socket EXCEPT ![h.socket] = "deleted"]
              /\ UNCHANGED running
           \/ /\ \E preverified \in BOOLEAN : VerifyCallback(preverified)
              /\ running' = [running EXCEPT ![v] = [op |-> "Connected", socket |-> h.socket]]
              /\ UNCHANGED socket
    /\ UNCHANGED <<poolVars, main, timer, managerVars, service, objectVars>>

(* Create of the object asks the socket for its peer, which fails when the   *)
(* connection is gone; the object is deleted, and its socket with it.        *)
CreateFails(s) ==
    /\ DeleteObject(s)
    /\ UNCHANGED <<indexKey, infoMap, objectKey, closing, pending>>

ConnectAdd(s) == CreateFails(s) \/ Insert(s)

(* The callback for a connection that was made.                              *)
OnTcpNetworkConnected(v) ==
    /\ running[v].op = "Connected"
    /\ running' = [running EXCEPT ![v] = Idle]
    /\ ConnectAdd(running[v].socket)
    /\ UNCHANGED <<poolVars, main, timer, listens, private, tls, isCloseing, acceptor,
                   acceptSocket, releaseTimer, service>>

----------------------------------------------------------------------------
(* Accepting.                                                                *)

(* PostAccept without an acceptor: it is made first.                         *)
Listen ==
    /\ acceptor = None
    /\ \E v \in Services \cup {Null} :
        /\ IF private THEN GetPrivateService(v) ELSE GetService(v)
        /\ acceptor' = v
    /\ UNCHANGED <<acceptSocket, socketVars, pending>>

(* PostAccept with one: a socket that is left over goes, a new one waits.    *)
Accept ==
    /\ acceptor # None
    /\ \E s \in Unused, v \in Services \cup {Null} :
        /\ GetService(v)
        /\ socket' = [t \in Sockets |-> CASE t = s -> "open"
                                          [] t = acceptSocket -> "deleted"
                                          [] OTHER -> socket[t]]
        /\ service' = [service EXCEPT ![s] = v]
        /\ acceptSocket' = s
    /\ pending' = pending \cup {Handler("Accepted", acceptor, None)}
    /\ UNCHANGED acceptor

(* Mutant: the pointer is left when the socket is deleted.                   *)
DropAcceptSocketOnly ==
    /\ socket' = [s \in Sockets |-> IF s = acceptSocket THEN "deleted" ELSE socket[s]]
    /\ UNCHANGED acceptSocket

DropAcceptSocket ==
    /\ socket' = [s \in Sockets |-> IF s = acceptSocket THEN "deleted" ELSE socket[s]]
    /\ acceptSocket' = None

(* OnAccept up to the callback. An error, or a peer that has gone, drops the *)
(* socket; the next accept follows unless the manager is closing.            *)
OnAccept(v) ==
    /\ Idles(v) /\ Unused # {} /\ ~tls
    /\ \E h \in pending :
        /\ h.op = "Accepted" /\ h.service = v
        /\ pending' = pending \ {h}
        /\ \/ /\ DropAcceptSocket
              /\ running' = IF isCloseing THEN running
                            ELSE [running EXCEPT ![v].op = "PostAccept"]
           \/ /\ acceptor # None /\ isCloseing
              /\ UNCHANGED <<socket, acceptSocket, running>>
           \/ /\ acceptor # None /\ ~isCloseing
              /\ running' = [running EXCEPT ![v].op = "Accepted"]
              /\ UNCHANGED <<socket, acceptSocket>>
    /\ UNCHANGED <<poolVars, main, timer, listens, private, tls, isCloseing, acceptor,
                   releaseTimer, indexKey, infoMap, service, objectVars>>

(* OnAcceptSSL: the handshake goes on where the accepted socket's service    *)
(* is, which need not be the acceptor's.                                     *)
OnAcceptSSL(v) ==
    /\ Idles(v) /\ Unused # {} /\ tls
    /\ \E h \in pending :
        /\ h.op = "Accepted" /\ h.service = v
        /\ \/ /\ DropAcceptSocket
              /\ pending' = pending \ {h}
              /\ running' = IF isCloseing THEN running
                            ELSE [running EXCEPT ![v].op = "PostAccept"]
           \/ /\ acceptor # None
              /\ pending' = (pending \ {h}) \cup
                    IF isCloseing THEN {}
                    ELSE {Handler("AcceptHandshake", service[acceptSocket], None)}
              /\ UNCHANGED <<socket, acceptSocket, running>>
    /\ UNCHANGED <<poolVars, main, timer, listens, private, tls, isCloseing, acceptor,
                   releaseTimer, indexKey, infoMap, service, objectVars>>

(* OnHandshakeSSL of a server, up to the callback; an error as in OnAccept.  *)
OnAcceptHandshakeSSL(v) ==
    /\ Idles(v) /\ Unused # {}
    /\ \E h \in pending :
        /\ h.op = "AcceptHandshake" /\ h.service = v
        /\ pending' = pending \ {h}
        /\ \/ /\ DropAcceptSocket
              /\ running' = IF isCloseing THEN running
                            ELSE [running EXCEPT ![v].op = "PostAccept"]
           \/ /\ acceptor # None
              /\ running' = IF isCloseing THEN running
                            ELSE [running EXCEPT ![v].op = "Accepted"]
              /\ UNCHANGED <<socket, acceptSocket>>
    /\ UNCHANGED <<poolVars, main, timer, listens, private, tls, isCloseing, acceptor,
                   releaseTimer, indexKey, infoMap, service, objectVars>>

(* OnTcpNetworkAccepted takes no socket and returns false.                   *)
OnTcpNetworkAccepted(v) ==
    /\ running[v].op = "Accepted"
    /\ DropAcceptSocket
    /\ running' = [running EXCEPT ![v].op = "PostAccept"]
    /\ UNCHANGED <<poolVars, main, timer, listens, private, tls, isCloseing, acceptor,
                   releaseTimer, indexKey, infoMap, service, objectVars, pending>>

(* The end of OnAccept, which does not look at _is_closeing again.           *)
PostAccept(v) ==
    /\ running[v].op = "PostAccept"
    /\ \/ Listen /\ UNCHANGED running
       \/ Accept /\ running' = [running EXCEPT ![v] = Idle]
    /\ UNCHANGED <<main, timer, listens, private, tls, isCloseing, releaseTimer, indexKey,
                   infoMap, objectVars>>

----------------------------------------------------------------------------
(* The main thread, from main() to the destructor of MainObject.             *)

(* The files the program opens may not be there. A line of the configuration *)
(* that is no item is skipped.                                               *)
LoadFile == BOOLEAN
Open == BOOLEAN
LogInit == Open

(* Without its configuration file the program ends.                          *)
LoadConfigFile ==
    /\ main = "load"
    /\ \E loaded \in LoadFile : main' = IF loaded THEN "log" ELSE "end"
    /\ UNCHANGED <<poolVars, timer, managerVars, socketVars, objectVars, pending, running>>

(* And without its log. A value the file does not have has a default.        *)
Main ==
    /\ main = "log"
    /\ \E opened \in LogInit : main' = IF opened THEN "start" ELSE "end"
    /\ UNCHANGED <<poolVars, timer, managerVars, socketVars, objectVars, pending, running>>

CreatePool ==
    /\ main = "start" /\ main' = "networks"
    /\ Run
    /\ UNCHANGED <<timer, managerVars, socketVars, objectVars, pending, running>>

(* CreateSSL makes the TLS context and goes on with Create.                  *)
CreateSSL ==
    /\ main = "networks" /\ ~tls /\ acceptor = None
    /\ tls' = TRUE
    /\ UNCHANGED <<poolVars, main, timer, listens, private, isCloseing, acceptor,
                   acceptSocket, releaseTimer, indexKey, infoMap, socketVars,
                   objectVars, pending, running>>

(* Create of the manager: with listen_port it listens, which may fail, and   *)
(* waits for a connection. A failure of Create ends in Destroy.              *)
Create ==
    /\ main = "networks"
    /\ \/ ~listens /\ main' = "timers" /\ UNCHANGED <<poolVars, acceptor, acceptSocket,
                                                      socketVars, pending>>
       \/ listens /\ Listen /\ main' \in {main, "release"}
       \/ listens /\ Accept /\ main' = "timers"
    /\ UNCHANGED <<timer, listens, private, tls, isCloseing, releaseTimer, indexKey,
                   infoMap, objectVars, running>>

CreateTimers ==
    /\ main = "timers"
    /\ \/ timer' = "run" /\ main' = "up"
       \/ timer' = timer /\ main' = "release"
    /\ UNCHANGED <<poolVars, managerVars, socketVars, objectVars, pending, running>>

(* Destroy of ThreadTimer joins its thread and forgets its timers.           *)
StopTimers == timer' = "stopped"

(* main() waits until a signal clears gRun, and then returns: the destructor *)
(* of its MainObject calls Destroy.                                          *)
MainReturns == main = "up" /\ main' = "release"

(* Destroy stops the timers first.                                           *)
Destroy ==
    /\ MainReturns
    /\ StopTimers
    /\ UNCHANGED <<poolVars, managerVars, socketVars, objectVars, pending, running>>

Release(others) ==
    /\ RemoveAll(others)
    /\ acceptor' = None
    /\ socket' = [s \in Sockets |-> IF s = acceptSocket THEN "closed" ELSE socket[s]]

(* Mutant: Release runs on the caller's thread, as it does on Windows.       *)
PostReleaseHere ==
    /\ main = "release" /\ main' = "stop"
    /\ isCloseing' = TRUE
    /\ Release(pending)
    /\ releaseTimer' = "fired"
    /\ UNCHANGED <<poolVars, timer, listens, private, tls, acceptSocket, indexKey, service,
                   objects, objectKey, running>>

(* PostRelease leaves Release to a timer on the acceptor's thread, if there  *)
(* is an acceptor.                                                           *)
PostRelease ==
    /\ main = "release" /\ main' = "stop"
    /\ isCloseing' = TRUE
    /\ IF acceptor # None
       THEN /\ releaseTimer' = "set"
            /\ pending' = pending \cup {Handler("Release", acceptor, None)}
            /\ UNCHANGED <<acceptor, socket, infoMap, closing>>
       ELSE /\ Release(pending)
            /\ UNCHANGED releaseTimer
    /\ UNCHANGED <<poolVars, timer, listens, private, tls, acceptSocket, indexKey, service,
                   objects, objectKey, running>>

ReleaseTimer(v) ==
    /\ Idles(v)
    /\ Handler("Release", v, None) \in pending
    /\ Release(pending \ {Handler("Release", v, None)})
    /\ releaseTimer' = "fired"
    /\ UNCHANGED <<poolVars, main, timer, listens, private, tls, isCloseing, acceptSocket,
                   indexKey, service, objects, objectKey, running>>

(* Stop of the pool waits for the handlers that run.                         *)
Stop ==
    /\ main = "stop"
    /\ \/ StopService
       \/ Join({v \in Services : running[v] # Idle})
    /\ main' = IF isRun' THEN "stop" ELSE "destruct"
    /\ UNCHANGED <<timer, managerVars, socketVars, objectVars, pending, running>>

(* The manager's destructor.                                                 *)
Destruct ==
    /\ main = "destruct" /\ main' = "end"
    /\ DropAcceptSocket
    /\ UNCHANGED <<poolVars, timer, listens, private, tls, isCloseing, acceptor, releaseTimer,
                   indexKey, infoMap, service, objectVars, pending, running>>

Next ==
    \/ LoadConfigFile \/ Main \/ CreatePool \/ CreateSSL \/ Create \/ CreateTimers
    \/ Destroy \/ PostRelease \/ Stop \/ Destruct
    \/ PostConnect \/ PostConnectSSL
    \/ \E v \in Services :
        \/ OnConnected(v) \/ OnConnectedSSL(v) \/ OnHandshakeSSL(v)
        \/ OnTcpNetworkConnected(v)
        \/ OnAccept(v) \/ OnAcceptSSL(v) \/ OnAcceptHandshakeSSL(v)
        \/ OnTcpNetworkAccepted(v) \/ PostAccept(v)
        \/ ReleaseTimer(v) \/ CloseTimer(v) \/ OnNetworkClose(v)

Spec == Init /\ [][Next]_vars

----------------------------------------------------------------------------
(* Properties.                                                               *)

Owners(s) ==
    Cardinality({h \in pending : h.op \in {"Connected", "Handshake"} /\ h.socket = s})
    + Cardinality({v \in Services : running[v] = [op |-> "Connected", socket |-> s]})
    + Cardinality({s} \cap {acceptSocket}) + Cardinality({s} \cap objects)

(* A socket made with new has one owner until it is deleted, and none after: *)
(* the handler that waits for it, _accept_socket, or an object. The pointer  *)
(* goes from one to the next in PostConnect, OnConnected, ConnectAdd,        *)
(* PostAccept, OnAccept and Release, on three threads.                       *)
SocketsOwnedOnce ==
    /\ TypeOK
    /\ \A s \in Sockets :
        Owners(s) = IF socket[s] \in {"open", "closed"} THEN 1 ELSE 0

(* An object that is not closing is found by its key, and the map holds no   *)
(* other: what is closed by key in OnNetworkClose is what the caller meant,  *)
(* though keys start again from 0 and RemoveAll runs at any time.            *)
KeyFindsItsObject ==
    /\ \A s \in objects \ closing : infoMap[objectKey[s]] = s
    /\ \A k \in Keys : infoMap[k] # None =>
        infoMap[k] \in objects \ closing /\ objectKey[infoMap[k]] = k

(* No socket and no acceptor is made on the empty pointer GetService returns *)
(* when the pool does not run: _is_run is cleared when the last thread that  *)
(* could ask has ended.                                                      *)
ServiceAlwaysThere == Null \notin {acceptor} \cup {service[s] : s \in Sockets}

(* Once Release has run, nothing listens again: OnAccept may have passed its *)
(* test of _is_closeing, and goes on to PostAccept without another, but not  *)
(* past Release, which waits for the same thread. The handshake of an        *)
(* accepted TLS connection ends on another, where nothing holds it back.     *)
ReleasedStaysReleased == releaseTimer = "fired" /\ ~tls => acceptor = None

----------------------------------------------------------------------------
(* Why they hold: the inductive invariant of the proofs.                     *)

Waits(h) == h.op \in {"Connected", "Handshake"}        \* holds the socket it connects
Accepts(h) == h.op \in {"Accepted", "AcceptHandshake"}
Accepting(v) == running[v].op \in {"Accepted", "PostAccept"}
Live(s) == socket[s] \in {"open", "closed"}
Up == main \in {"networks", "timers", "up", "release", "stop"}

(* Whoever asks for a service runs on a thread of the pool, on that of the   *)
(* timers, or on the main thread between Run and Stop.                       *)
ServiceInv ==
    /\ Up => isRun
    /\ timer = "run" => main = "up"
    /\ \A v \in Services : thread[v] \in {"run", "stopped"} => isRun
    /\ \A v \in Services : thread[v] = "run" => Up
    /\ \A v \in Services : running[v] # Idle => thread[v] \in {"run", "stopped"}
    /\ acceptor # Null
    /\ \A s \in Sockets : service[s] # Null /\ (Live(s) => service[s] # None)

(* Where the owners of a socket are.                                         *)
OwnerInv ==
    /\ \A h \in pending : Waits(h) =>
          /\ h.socket \in Sockets \ objects /\ h.socket # acceptSocket /\ Live(h.socket)
          /\ \A g \in pending : Waits(g) /\ g.socket = h.socket => g = h
    /\ \A v \in Services : running[v].op = "Connected" =>
          /\ running[v].socket \in Sockets \ objects
          /\ running[v].socket # acceptSocket /\ Live(running[v].socket)
          /\ \A h \in pending : Waits(h) => h.socket # running[v].socket
          /\ \A u \in Services : running[u] = running[v] => u = v
    /\ acceptSocket # None => acceptSocket \notin objects /\ Live(acceptSocket)
    /\ \A s \in objects : Live(s)
    /\ \A s \in Sockets : Live(s) =>
          \/ s = acceptSocket \/ s \in objects
          \/ \E h \in pending : Waits(h) /\ h.socket = s
          \/ \E v \in Services : running[v] = [op |-> "Connected", socket |-> s]

(* A close timer belongs to an object that is closing and is set once.       *)
CloseInv ==
    /\ \A h \in pending : h.op = "Close" =>
          h.socket \in objects \cap closing /\ h = Handler("Close", service[h.socket], h.socket)
    /\ \A s \in closing : s \in objects \/ socket[s] = "deleted"
    /\ \A s \in objects : objectKey[s] \in Keys

(* One accept at a time is under way, from Create on, and while it waits for *)
(* the network there is a socket for it, until the manager is destroyed.     *)
AcceptInv ==
    /\ \A h \in pending : Accepts(h) =>
          /\ Up => acceptSocket # None
          /\ \A g \in pending : Accepts(g) => g = h
    /\ \A v \in Services : Accepting(v) =>
          /\ \A h \in pending : ~Accepts(h)
          /\ \A u \in Services : Accepting(u) => u = v
    /\ main \in {"load", "log", "start", "networks"} =>
          (\A h \in pending : ~Accepts(h)) /\ (\A v \in Services : ~Accepting(v))

(* Without TLS the accept under way and Release are on the same thread.      *)
ReleaseInv ==
    /\ releaseTimer # "none" => isCloseing /\ main \in {"stop", "destruct", "end"}
    /\ \A h \in pending : h.op = "Release" =>
          releaseTimer = "set" /\ h = Handler("Release", acceptor, None)
    /\ ~tls => \A h \in pending : h.op \notin {"Handshake", "AcceptHandshake"}
    /\ ~tls /\ releaseTimer # "fired" =>
          /\ \A h \in pending : h.op = "Accepted" => h.service = acceptor
          /\ \A v \in Services : Accepting(v) => acceptor = v
    /\ ~tls /\ releaseTimer = "fired" => \A v \in Services : ~Accepting(v)

IInv ==
    /\ TypeOK /\ ServiceInv /\ OwnerInv /\ CloseInv /\ AcceptInv /\ ReleaseInv
    /\ KeyFindsItsObject /\ ReleasedStaysReleased
=============================================================================
