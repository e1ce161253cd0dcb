-------------------------- MODULE MCDeviceCommands --------------------------
(* Small instance of DeviceCommands: a toggle pair and a buffer request     *)
(* compete for a short queue, the ring is smaller than the command set.     *)
EXTENDS DeviceCommands

CONSTANTS c1, c2, c3, c4, MaxRemembered

MCRequestOf ==
    [id \in Ids |-> CASE id = c1 -> "stop_audio"
                      [] id = c2 -> "request_buffer"
                      [] id = c3 -> "rejected"
                      [] OTHER   -> "start_audio"]

\* MaxRemembered bounds the number of commands taken as new in one boot.
MCDevNext ==
    \/ \E id \in Ids : /\ AlreadySeen(id) \/ Len(log) < MaxRemembered
                       /\ CommandsHandle(id)
    \/ ExecutorTask
    \/ ServeReplay
    \/ \E g \in {"short", "double", "long"} : DispatchGesture(g)
    \/ Reboot

MCDevSpec == DevInit /\ [][MCDevNext]_devVars
=============================================================================
