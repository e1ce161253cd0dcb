----------------------------- MODULE SensorLink -----------------------------
(***************************************************************************)
(* The phone's BLE central and its serial queue of GATT operations.        *)
(* Android allows one outstanding operation; SensorLink starts the next    *)
(* one from the callback of the one before.                                *)
(*                                                                         *)
(* The stack answers every operation it is given, and accepts every one:   *)
(* what goes wrong here is not the radio's fault.                          *)
(***************************************************************************)
EXTENDS Integers, Sequences

CONSTANT Commands   \* command frames the server may send

VARIABLES
    opQueue,      \* operations waiting
    opInFlight,
    gatt,         \* the operation the stack has not answered yet, <<>> if none
    phase,        \* "connecting", "subscribing" or "relaying" (onConnected has run)
    \* history
    asked,        \* command frames handed to writeCommand() on this link
    written       \* those the device has received

linkVars == <<opQueue, opInFlight, gatt, phase, asked, written>>

Audio == "subscribe audio"
AckOp == "subscribe ack"
Connected == "onConnected"

\* What drain() leaves of a queue: its head runs.  A subscription and a command
\* write go to the stack; listener.onConnected() runs here and now.
Drained(q) ==
    IF q = <<>>
    THEN [queue |-> <<>>, inFlight |-> FALSE, toStack |-> <<>>, connects |-> FALSE]
    ELSE [queue |-> Tail(q), inFlight |-> TRUE,
          toStack |-> IF Head(q) = Connected THEN <<>> ELSE <<Head(q)>>,
          connects |-> Head(q) = Connected]

\* enqueue() of operations, one after the other, with nothing in flight before them
\* or with the stack still busy: only the first can start.
Enqueued(ops) ==
    IF opInFlight
    THEN [queue |-> opQueue \o ops, inFlight |-> TRUE, toStack |-> gatt, connects |-> FALSE]
    ELSE Drained(opQueue \o ops)

Becomes(d) ==
    /\ opQueue' = d.queue
    /\ opInFlight' = d.inFlight
    /\ gatt' = d.toStack

\* onServicesDiscovered: subscribe to audio, then to acks, then report the link.
OnServicesDiscovered ==
    /\ phase = "connecting"
    /\ phase' = "subscribing"
    /\ Becomes(Enqueued(<<Audio, AckOp, Connected>>))
    /\ UNCHANGED <<asked, written>>

\* onDescriptorWrite and onCharacteristicWrite: nextOp().
OnWritten ==
    LET d == Drained(opQueue) IN
    /\ gatt # <<>>
    /\ written' = written \cup ({Head(gatt)} \cap Commands)
    /\ Becomes(d)
    /\ phase' = IF d.connects THEN "relaying" ELSE phase
    /\ UNCHANGED asked

\* writeCommand(): the socket that brings commands is opened by onConnected.
WriteCommand(c) ==
    /\ phase = "relaying"
    /\ c \notin asked
    /\ asked' = asked \cup {c}
    /\ Becomes(Enqueued(<<c>>))
    /\ UNCHANGED <<phase, written>>

\* The link drops; the service replaces this SensorLink by a new one.
OnDisconnected ==
    /\ phase # "connecting"
    /\ opQueue' = <<>> /\ opInFlight' = FALSE /\ gatt' = <<>>
    /\ phase' = "connecting"
    /\ asked' = {} /\ written' = {}

LinkInit ==
    /\ opQueue = <<>> /\ opInFlight = FALSE /\ gatt = <<>>
    /\ phase = "connecting"
    /\ asked = {} /\ written = {}

LinkNext ==
    \/ OnServicesDiscovered
    \/ OnWritten
    \/ \E c \in Commands : WriteCommand(c)
    \/ OnDisconnected

\* The stack answers, and services are discovered once it is connected.
LinkSpec ==
    /\ LinkInit
    /\ [][LinkNext]_linkVars
    /\ WF_linkVars(OnWritten)
    /\ WF_linkVars(OnServicesDiscovered)

-----------------------------------------------------------------------------
\* SensorLink.kt: "each op runs, its callback dequeues + runs the next": a command
\* handed to writeCommand() reaches the device, unless its link goes first.
CommandsWritten ==
    \A c \in Commands : c \in asked ~> (c \in written \/ phase = "connecting")
=============================================================================
