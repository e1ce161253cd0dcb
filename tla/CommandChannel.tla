--------------------------- MODULE CommandChannel ---------------------------
(***************************************************************************)
(* The command channel end to end: the server's dispatcher and gateway     *)
(* (core.py: _on_hello, _on_command_ack, _pending_commands), the phone     *)
(* relay that forwards command frames down and acks up, and the wearable's *)
(* command handler.                                                        *)
(*                                                                         *)
(* The phone is a FIFO in each direction while the link is up; whatever is *)
(* in flight when either radio drops is lost, and so is a BLE notification *)
(* with no subscriber or no buffer (commands.c ignores the result of the   *)
(* ack).  The gateway pushes commands only in answer to a hello or to an   *)
(* ack; a command issued while the link is idle waits for the next one.    *)
(*                                                                         *)
(* The phone is taken at its word that it writes what it forwards; the     *)
(* queue it writes through is the subject of SensorLink.                   *)
(***************************************************************************)
EXTENDS DeviceCommands, CommandDispatcher

CONSTANTS
    MaxReboots,                  \* bound on reboots of the wearable
    MaxRestarts                  \* bound on restarts of the gateway

ASSUME OneCommandSet == CommandIds = Ids

VARIABLES
    up,        \* phone connected on both sides, hello processed
    down,      \* command frames between the gateway and the device
    upq,       \* acks between the device and the gateway
    reboots, restarts,
    \* history
    taken      \* times each command entered the executor queue

linkVars == <<up, down, upq>>
histVars == <<reboots, restarts, taken>>
vars == <<devVars, dispVars, linkVars, histVars>>

-----------------------------------------------------------------------------
\* A command enters the registry (agent, HTTP route or reconciler).  Issuing
\* does not touch the connection.
IssueCommand(c, k) ==
    /\ c \notin minted
    /\ Issue(c, k)
    /\ UNCHANGED <<devVars, linkVars, histVars>>

\* The relay (re)connects and says hello; the answer carries every pending
\* command.
Hello ==
    /\ ~up
    /\ up' = TRUE
    /\ down' = Pending
    /\ upq' = <<>>
    /\ UNCHANGED <<devVars, dispVars, histVars>>

\* Either radio drops: the frames in flight are gone.
Drop ==
    /\ up
    /\ up' = FALSE
    /\ down' = <<>>
    /\ upq' = <<>>
    /\ UNCHANGED <<devVars, dispVars, histVars>>

\* The device takes one command frame; its ack gets out (notified) or is lost.
DeviceReceives(notified) ==
    /\ down # <<>>
    /\ LET id == Head(down)
           enqueued == ~AlreadySeen(id) /\ ~QueueFull
       IN  /\ CommandsHandle(id)
           /\ upq' = IF notified /\ Acks(id) THEN Append(upq, id) ELSE upq
           /\ taken' = IF enqueued THEN [taken EXCEPT ![id] = @ + 1] ELSE taken
    /\ down' = Tail(down)
    /\ UNCHANGED <<dispVars, up, reboots, restarts>>

\* _on_command_ack: mark the command acked, answer with what is still pending.
OnCommandAck ==
    /\ upq # <<>>
    /\ Ack(Head(upq))
    /\ upq' = Tail(upq)
    /\ down' = down \o Pending'
    /\ UNCHANGED <<devVars, up, histVars>>

\* The executor task runs one request, or the drain serves a replay.
DeviceRuns ==
    /\ ExecutorTask \/ ServeReplay
    /\ UNCHANGED <<dispVars, linkVars, histVars>>

\* The button competes for the executor queue.
ButtonPressed ==
    /\ \E g \in {"short", "double", "long"} : DispatchGesture(g)
    /\ UNCHANGED <<dispVars, linkVars, histVars>>

ClockTicks ==
    /\ Tick
    /\ UNCHANGED <<devVars, linkVars, histVars>>

\* The wearable loses power or deep-sleeps; the BLE link goes with it.
DeviceReboots ==
    /\ reboots < MaxReboots
    /\ reboots' = reboots + 1
    /\ Reboot
    /\ up' = FALSE
    /\ down' = <<>>
    /\ upq' = <<>>
    /\ UNCHANGED <<dispVars, restarts, taken>>

\* The gateway process restarts; every socket closes.
GatewayRestarts ==
    /\ restarts < MaxRestarts
    /\ restarts' = restarts + 1
    /\ Restart
    /\ up' = FALSE
    /\ down' = <<>>
    /\ upq' = <<>>
    /\ UNCHANGED <<devVars, reboots, taken>>

Init ==
    /\ DevInit
    /\ DispInit
    /\ up = FALSE
    /\ down = <<>>
    /\ upq = <<>>
    /\ reboots = 0
    /\ restarts = 0
    /\ taken = [id \in Ids |-> 0]

Next ==
    \/ \E c \in Ids, k \in Keys \union {NoKey} : IssueCommand(c, k)
    \/ Hello
    \/ Drop
    \/ \E notified \in BOOLEAN : DeviceReceives(notified)
    \/ OnCommandAck
    \/ DeviceRuns
    \/ ButtonPressed
    \/ ClockTicks
    \/ DeviceReboots
    \/ GatewayRestarts

\* The relay retries a dropped link, the sockets and the tasks run.  Strong
\* fairness where a drop can take the step away again: a link that stays up
\* long enough, often enough, and a relay that writes what it forwards.
Fairness ==
    /\ WF_vars(Hello)
    /\ SF_vars(DeviceReceives(TRUE))
    /\ SF_vars(OnCommandAck)
    /\ WF_vars(DeviceRuns)

Spec == Init /\ [][Next]_vars
FairSpec == Spec /\ Fairness

-----------------------------------------------------------------------------
\* commands.h: the device "executes it at most once per command_id".  The
\* gateway re-offers every unacked command on each hello and each ack, so
\* duplicates are the normal case.  What the code keeps: while the dedupe ring
\* is no smaller than the set of commands in play, one boot of the wearable
\* takes each command at most once, through lost acks, reconnects, re-offers
\* and gateway restarts.
ExecutedOncePerBoot == \A c \in Ids : taken[c] <= 1 + reboots

\* With the relay reconnecting again and again, every command that is pending
\* ends up acked or expires, although acks and frames are lost on the way.
PendingSettles ==
    []<><<Hello>>_vars =>
        \A c \in Ids : (c \in Tracked) ~> (c \in acked \/ Expired(c))

=============================================================================
