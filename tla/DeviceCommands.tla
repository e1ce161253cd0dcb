--------------------------- MODULE DeviceCommands ---------------------------
(***************************************************************************)
(* The wearable's side of the signed command channel: commands.c verifies  *)
(* a BLE write, deduplicates it by command_id in a ring of CMD_DEDUPE_N    *)
(* entries, hands it to the executor's queue and acks it; executor.c runs  *)
(* the queue on a task of its own, and request_buffer goes on to the       *)
(* drain's replay queue.  The button shares the executor queue.            *)
(*                                                                         *)
(* A command is its command_id; RequestOf says what it asks for once the   *)
(* signature and the JSON are accepted.  Three steps interleave: the       *)
(* NimBLE host task (CommandsHandle), the executor task (ExecutorTask) and *)
(* the button task (DispatchGesture), with the drain task emptying the     *)
(* replay queue.                                                           *)
(***************************************************************************)
EXTENDS Integers, Sequences

CONSTANTS
    Ids,          \* command_ids the server signs
    RequestOf,    \* what each command asks for, after executor_core's parsing
    Slots,        \* CMD_DEDUPE_N: entries of the dedupe ring
    QueueDepth,   \* EXECUTOR_QUEUE_DEPTH
    ReplayDepth,  \* DRAIN_REPLAY_QUEUE_DEPTH
    None          \* an empty dedupe slot (s_seen zeroed)

\* The requests executor_core tells apart.  "capture_photo" stands for every
\* request the executor hands to another task (photo, video, transfer,
\* snapshot cadence); "rejected" for BAD_PARAMS and UNKNOWN_TYPE, which are
\* queued all the same.
Requests ==
    {"start_audio", "stop_audio", "request_buffer", "capture_photo", "rejected"}

ASSUME SlotsAssumption == Slots \in Nat \ {0}
ASSUME DepthAssumption == QueueDepth \in Nat /\ ReplayDepth \in Nat
ASSUME RequestAssumption == RequestOf \in [Ids -> Requests]
ASSUME NoneAssumption == None \notin Ids

VARIABLES
    seen,      \* s_seen: the dedupe ring, slot -> command_id
    seenHead,  \* s_seen_head: the slot the next command_id overwrites
    execq,     \* s_queue: requests waiting for the executor task
    paused,    \* audio_gate: s_paused
    replayq,   \* requests waiting for the drain task
    \* history of the current boot
    log,       \* command_ids in the order they were remembered
    accepted,  \* command_ids whose request entered the executor queue
    devAcked      \* command_ids the device has acked

devVars == <<seen, seenHead, execq, paused, replayq, log, accepted, devAcked>>

-----------------------------------------------------------------------------
SeenIds == {seen[i] : i \in 0 .. Slots - 1}

\* Mutation: the scan stops one slot short.
AlreadySeenSkipsLast(id) == id \in {seen[i] : i \in 0 .. Slots - 2}

AlreadySeen(id) == id \in SeenIds

Remember(id) ==
    /\ seen' = [seen EXCEPT ![seenHead] = id]
    /\ seenHead' = IF seenHead + 1 = Slots THEN 0 ELSE seenHead + 1
    /\ log' = Append(log, id)

\* executor_submit and executor_dispatch_local: xQueueSend without waiting.
QueueFull == Len(execq) >= QueueDepth

Enqueue(req) == execq' = Append(execq, req)

\* commands_handle on a verified frame.  A frame that is too short, whose
\* signature does not verify, or whose JSON lacks command_id or type is
\* dropped without an ack and changes nothing: a stuttering step.
HandleDuplicate(id) ==
    /\ AlreadySeen(id)
    /\ devAcked' = devAcked \union {id}
    /\ UNCHANGED <<seen, seenHead, execq, paused, replayq, log, accepted>>

HandleAccepted(id) ==
    /\ ~AlreadySeen(id)
    /\ ~QueueFull
    /\ Remember(id)
    /\ Enqueue(RequestOf[id])
    /\ accepted' = accepted \union {id}
    /\ devAcked' = devAcked \union {id}
    /\ UNCHANGED <<paused, replayq>>

HandleQueueFull(id) ==
    /\ ~AlreadySeen(id)
    /\ QueueFull
    /\ Remember(id)
    /\ UNCHANGED <<execq, paused, replayq, accepted, devAcked>>

CommandsHandle(id) ==
    \/ HandleDuplicate(id)
    \/ HandleAccepted(id)
    \/ HandleQueueFull(id)

\* Mutation: a duplicate is dropped without the re-ack.
AcksOnlyNew(id) == ~AlreadySeen(id) /\ ~QueueFull

\* Does handling id now call the ack sink?
Acks(id) == AlreadySeen(id) \/ ~QueueFull

-----------------------------------------------------------------------------
\* executor_task: one request off the queue.
ExecutorTask ==
    /\ execq # <<>>
    /\ execq' = Tail(execq)
    /\ paused' = CASE Head(execq) = "start_audio" -> FALSE
                   [] Head(execq) = "stop_audio"  -> TRUE
                   [] OTHER                       -> paused
    /\ replayq' = IF Head(execq) = "request_buffer" /\ Len(replayq) < ReplayDepth
                  THEN Append(replayq, "request_buffer")
                  ELSE replayq
    /\ UNCHANGED <<seen, seenHead, log, accepted, devAcked>>

\* drain_task serves one replay request (the replay itself is in RingDrain).
ServeReplay ==
    /\ replayq # <<>>
    /\ replayq' = Tail(replayq)
    /\ UNCHANGED <<seen, seenHead, execq, paused, log, accepted, devAcked>>

\* dispatch_gesture: short press marks the moment, double press toggles
\* capture from the gate as it is now, long press takes a photo.
DispatchGesture(gesture) ==
    /\ \/ QueueFull /\ UNCHANGED execq
       \/ /\ ~QueueFull
          /\ Enqueue(CASE gesture = "short"  -> "request_buffer"
                       [] gesture = "double" ->
                            IF paused THEN "start_audio" ELSE "stop_audio"
                       [] gesture = "long"   -> "capture_photo")
    /\ UNCHANGED <<seen, seenHead, paused, replayq, log, accepted, devAcked>>

\* Power loss, or the button's very long press (deep sleep; the wake is a
\* reset): all of this is RAM.
Reboot ==
    /\ seen' = [i \in 0 .. Slots - 1 |-> None]
    /\ seenHead' = 0
    /\ execq' = <<>>
    /\ paused' = FALSE
    /\ replayq' = <<>>
    /\ log' = <<>>
    /\ accepted' = {}
    /\ devAcked' = {}

DevInit ==
    /\ seen = [i \in 0 .. Slots - 1 |-> None]
    /\ seenHead = 0
    /\ execq = <<>>
    /\ paused = FALSE
    /\ replayq = <<>>
    /\ log = <<>>
    /\ accepted = {}
    /\ devAcked = {}

DevNext ==
    \/ \E id \in Ids : CommandsHandle(id)
    \/ ExecutorTask
    \/ ServeReplay
    \/ \E g \in {"short", "double", "long"} : DispatchGesture(g)
    \/ Reboot

DevSpec == DevInit /\ [][DevNext]_devVars

-----------------------------------------------------------------------------
DevTypeOK ==
    /\ seen \in [0 .. Slots - 1 -> Ids \union {None}]
    /\ seenHead \in 0 .. Slots - 1
    /\ execq \in Seq(Requests)
    /\ paused \in BOOLEAN
    /\ replayq \in Seq({"request_buffer"})
    /\ log \in Seq(Ids)
    /\ accepted \in SUBSET Ids
    /\ devAcked \in SUBSET Ids

\* Both FreeRTOS queues stay within the depth they were created with, though
\* the BLE host task and the button task post to one of them independently.
QueuesBounded == Len(execq) <= QueueDepth /\ Len(replayq) <= ReplayDepth

\* The dedupe promise of commands.c, stated exactly: within one boot the same
\* command_id is taken as new a second time only after at least Slots other
\* commands were taken in between.
DedupeWindow ==
    \A i, j \in 1 .. Len(log) : i < j /\ log[i] = log[j] => j - i > Slots

\* The slot holding the k-th most recently remembered command_id.
SlotBack(k) == IF seenHead >= k THEN seenHead - k ELSE seenHead - k + Slots

\* The ring holds the latest command_ids in order, newest just behind the head.
RingMirrorsLog ==
    \A k \in 1 .. Slots :
        k <= Len(log) => seen[SlotBack(k)] = log[Len(log) + 1 - k]

\* A command the device has acked got into the executor queue in this boot
\* (commands.c: "accepted (enqueued -> ack)").
AckedWasAccepted == devAcked \subseteq accepted
=============================================================================
