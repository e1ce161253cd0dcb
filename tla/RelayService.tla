---------------------------- MODULE RelayService ----------------------------
(***************************************************************************)
(* The phone's foreground service: one provisioning run after another      *)
(* (onStartCommand, main thread), the callbacks of SensorLinks and         *)
(* ServerSockets on their own threads, softDrop() on whichever thread saw  *)
(* the link fail, and the coroutine that retries after a delay.  The       *)
(* service's fields are shared without a lock; `dropping` admits one       *)
(* softDrop() at a time, `generation` tells runs apart.                    *)
(*                                                                         *)
(* A link is a SensorLink and, once it is connected, a ServerSocket.       *)
(***************************************************************************)
EXTENDS Naturals, Sequences, FiniteSets, SequencesExt

CONSTANTS
    MaxAttempts,   \* Backoff.MAX_ATTEMPTS
    MaxStarts,     \* bound: onStartCommand calls
    MaxSensors     \* bound: SensorLinks made

ASSUME RelayServiceAssumption ==
    /\ MaxAttempts \in Nat \ {0}
    /\ MaxStarts \in Nat
    /\ MaxSensors \in Nat

VARIABLES
    generation,
    sensors,            \* every SensorLink made: its run and state
    sockets,            \* every ServerSocket made: its run and state
    sensor, socket,     \* the fields: positions in these, 0 for null
    reconnectAttempt,
    reconnectJob,       \* the run of the retry that waits, 0 for none
    retrying,           \* retries past their delay and test: their runs
    starting,           \* the next step of onStartCommand, "none"
    dropStep, dropRun,  \* softDrop(): its next step, "none" while dropping is false
    shown,              \* what the UI was told last
    \* history
    overtaken,          \* onStartCommand was at work while a softDrop() or a retry was
    crossed             \* a softDrop() was at work while a retry or an onConnected() was

serviceVars == <<generation, sensors, sockets, sensor, socket, reconnectAttempt, reconnectJob,
                 retrying, starting, dropStep, dropRun, shown, overtaken, crossed>>

fields == <<sensor, socket, reconnectAttempt, reconnectJob, retrying>>

\* Closing a null socket, or stopping a null sensor, does nothing.
SocketClosed(k) == IF k = 0 \/ sockets[k].state = "closed" THEN sockets
                   ELSE [sockets EXCEPT ![k].state = "closing"]

\* Mutation: the link is left as it is.
SensorKept(k) == sensors

SensorStopped(k) == IF k = 0 THEN sensors ELSE [sensors EXCEPT ![k].state = "stopped"]

Scans(run) ==
    /\ Len(sensors) < MaxSensors
    /\ sensors' = Append(sensors, [run |-> run, state |-> "scan"])
    /\ sensor' = Len(sensors) + 1
    /\ shown' = "scanning"

-----------------------------------------------------------------------------
\* onStartCommand, on the main thread.
StartBumps ==
    /\ starting = "none" /\ generation < MaxStarts
    /\ generation' = generation + 1
    /\ reconnectJob' = 0
    /\ reconnectAttempt' = 0
    /\ starting' = "teardown"
    /\ overtaken' = (overtaken \/ dropStep # "none" \/ retrying # <<>>)
    /\ UNCHANGED <<sensors, sockets, sensor, socket, retrying, dropStep, dropRun, shown,
                   crossed>>

StartTearsDown ==
    /\ starting = "teardown"
    /\ sockets' = SocketClosed(socket) /\ socket' = 0
    /\ sensors' = SensorStopped(sensor)
    /\ starting' = "scan"
    /\ UNCHANGED <<generation, sensor, reconnectAttempt, reconnectJob, retrying, dropStep,
                   dropRun, shown, overtaken, crossed>>

StartScans ==
    /\ starting = "scan"
    /\ Scans(generation)
    /\ starting' = "none"
    /\ UNCHANGED <<generation, sockets, socket, reconnectAttempt, reconnectJob, retrying,
                   dropStep, dropRun, overtaken, crossed>>

-----------------------------------------------------------------------------
\* Mutation: no callback is stale.
NeverStale(run) == FALSE

Stale(run) == run # generation

\* onConnected(): opens the socket of this link.
OnConnected(k) ==
    /\ sensors[k].state = "scan"
    /\ sensors' = [sensors EXCEPT ![k].state = "linked"]
    /\ IF Stale(sensors[k].run)
       THEN UNCHANGED <<sockets, socket, shown>>
       ELSE /\ sockets' = Append(sockets, [run |-> sensors[k].run, state |-> "opening"])
            /\ socket' = Len(sockets) + 1
            /\ shown' = "connected"
    /\ crossed' = (crossed \/ dropStep # "none")
    /\ UNCHANGED <<generation, sensor, reconnectAttempt, reconnectJob, retrying, starting,
                   dropStep, dropRun, overtaken>>

OnOpen(k) ==
    /\ sockets[k].state = "opening"
    /\ sockets' = [sockets EXCEPT ![k].state = "open"]
    /\ IF Stale(sockets[k].run)
       THEN UNCHANGED <<reconnectAttempt, shown>>
       ELSE reconnectAttempt' = 0 /\ shown' = "live"
    /\ UNCHANGED <<generation, sensors, sensor, socket, reconnectJob, retrying, starting,
                   dropStep, dropRun, overtaken, crossed>>

\* softDrop() of run: nothing if the run is over or another one is at work.
SoftDrop(run) ==
    IF Stale(run) \/ dropStep # "none"
    THEN UNCHANGED <<dropStep, dropRun, crossed>>
    ELSE /\ dropStep' = "close" /\ dropRun' = run
         /\ crossed' = (crossed \/ retrying # <<>>)

\* onDisconnected(): the connection or the attempt to make one failed.
OnSensorLost(k) ==
    /\ sensors[k].state \in {"scan", "linked"}
    /\ sensors' = [sensors EXCEPT ![k].state = "lost"]
    /\ SoftDrop(sensors[k].run)
    /\ UNCHANGED <<generation, sockets, fields, starting, shown, overtaken>>

\* onClosed(): the socket failed, or the close it was asked for is done.
OnClosed(k) ==
    /\ sockets[k].state \in {"opening", "open", "closing"}
    /\ sockets' = [sockets EXCEPT ![k].state = "closed"]
    /\ SoftDrop(sockets[k].run)
    /\ UNCHANGED <<generation, sensors, fields, starting, shown, overtaken>>

\* execute(): the socket takes no more frames, which the listener is not told of yet.
SendFails ==
    /\ socket # 0 /\ sockets[socket].state = "open"
    /\ SoftDrop(generation)
    /\ overtaken' = (overtaken \/ starting # "none")
    /\ UNCHANGED <<generation, sensors, sockets, fields, starting, shown>>

DropCloses ==
    /\ dropStep = "close"
    /\ dropStep' = "stop"
    /\ sockets' = SocketClosed(socket) /\ socket' = 0
    /\ UNCHANGED <<generation, sensors, sensor, reconnectAttempt, reconnectJob, retrying,
                   starting, dropRun, shown, overtaken, crossed>>

DropStops ==
    /\ dropStep = "stop"
    /\ dropStep' = "schedule"
    /\ sensors' = SensorStopped(sensor)
    /\ UNCHANGED <<generation, sockets, fields, starting, dropRun, shown, overtaken, crossed>>

ShouldGiveUp == reconnectAttempt >= MaxAttempts

\* scheduleReconnect(): gives up, or replaces the retry that waits.
DropSchedules ==
    /\ dropStep = "schedule"
    /\ dropStep' = "none" /\ dropRun' = 0
    /\ IF Stale(dropRun)
       THEN UNCHANGED <<reconnectAttempt, reconnectJob, shown>>
       ELSE IF ShouldGiveUp
       THEN shown' = "failed" /\ UNCHANGED <<reconnectAttempt, reconnectJob>>
       ELSE /\ shown' = "reconnecting"
            /\ reconnectAttempt' = reconnectAttempt + 1
            /\ reconnectJob' = dropRun
    /\ UNCHANGED <<generation, sensors, sockets, sensor, socket, retrying, starting,
                   overtaken, crossed>>

-----------------------------------------------------------------------------
\* The coroutine: past its delay and its test it can no longer be cancelled.
RetryTests ==
    /\ reconnectJob # 0
    /\ reconnectJob' = 0
    /\ retrying' = IF Stale(reconnectJob) THEN retrying ELSE Append(retrying, reconnectJob)
    /\ crossed' = (crossed \/ dropStep # "none")
    /\ UNCHANGED <<generation, sensors, sockets, sensor, socket, reconnectAttempt, starting,
                   dropStep, dropRun, shown, overtaken>>

RetryScans(k) ==
    /\ retrying' = RemoveAt(retrying, k)
    /\ Scans(retrying[k])
    /\ UNCHANGED <<generation, sockets, socket, reconnectAttempt, reconnectJob, starting,
                   dropStep, dropRun, overtaken, crossed>>

ServiceInit ==
    /\ generation = 0
    /\ sensors = <<>> /\ sockets = <<>>
    /\ sensor = 0 /\ socket = 0
    /\ reconnectAttempt = 0 /\ reconnectJob = 0 /\ retrying = <<>>
    /\ starting = "none"
    /\ dropStep = "none" /\ dropRun = 0
    /\ shown = "idle"
    /\ overtaken = FALSE /\ crossed = FALSE

ServiceNext ==
    \/ StartBumps \/ StartTearsDown \/ StartScans
    \/ \E k \in 1 .. Len(sensors) : OnConnected(k) \/ OnSensorLost(k)
    \/ \E k \in 1 .. Len(sockets) : OnOpen(k) \/ OnClosed(k)
    \/ SendFails
    \/ DropCloses \/ DropStops \/ DropSchedules
    \/ RetryTests \/ \E k \in 1 .. Len(retrying) : RetryScans(k)

ServiceSpec == ServiceInit /\ [][ServiceNext]_serviceVars

-----------------------------------------------------------------------------
AtRest == generation > 0 /\ starting = "none" /\ dropStep = "none" /\ retrying = <<>>

LiveSensor(k) == sensors[k].state \in {"scan", "linked"}
LiveSocket(k) == sockets[k].state \in {"opening", "open"}

ServiceTypeOK ==
    /\ generation \in 0 .. MaxStarts
    /\ sensor \in 0 .. Len(sensors) /\ socket \in 0 .. Len(sockets)
    /\ \A k \in 1 .. Len(sensors) :
           sensors[k] \in [run : 1 .. MaxStarts, state : {"scan", "linked", "lost", "stopped"}]
    /\ \A k \in 1 .. Len(sockets) :
           sockets[k] \in [run : 1 .. MaxStarts,
                           state : {"opening", "open", "closing", "closed"}]
    /\ reconnectAttempt \in 0 .. MaxAttempts
    /\ dropStep \in {"none", "close", "stop", "schedule"}

\* "NOT Idle, so the UI offers Retry": the service never just sits there.  With nobody
\* at work it scans, has a device and a socket for it, waits for a retry, or has told
\* the user that it gave up.
NeverStranded ==
    AtRest /\ ~overtaken /\ ~crossed =>
        \/ shown = "failed"
        \/ reconnectJob = generation
        \/ \E k \in 1 .. Len(sensors) :
               /\ sensors[k].run = generation
               /\ \/ sensors[k].state = "scan"
                  \/ sensors[k].state = "linked" /\ socket # 0 /\ LiveSocket(socket)

\* "A second drop while a retry is pending supersedes it": one device link and one
\* socket at a time, unless the retry was past its test already.
OneLinkAtATime ==
    ~overtaken /\ ~crossed =>
        /\ Cardinality({k \in 1 .. Len(sensors) : LiveSensor(k)}) <= 1
        /\ Cardinality({k \in 1 .. Len(sockets) : LiveSocket(k)}) <= 1
=============================================================================
