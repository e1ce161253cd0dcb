---------------------------- MODULE MCComponents -----------------------------
(***************************************************************************)
(* The safety of the remaining components, and of the wearable's tasks     *)
(* (MCWearable) on larger instances.  As there, components that share no   *)
(* state are followed one at a time.                                       *)
(***************************************************************************)
EXTENDS MCWearable, MCDeviceCommands, RingReplay, Vad, Button, DeviceBoot,
        GatewayConnection, RelayService

CONSTANT MaxReplayFrames   \* bound: frames recorded before and during a replay

onlyReplayVars == <<len, replay, start, next, end, chosen, packets, gone, tooLong>>

wearableVars == <<videoVars, mediaVars, radioVars, drainVars>>

Wearable ==
    /\ Recorder \/ Card \/ Radio \/ Drain
    /\ UNCHANGED <<onlyReplayVars, devVars, vadVars, buttonVars, bootVars, gatewayVars,
                   serviceVars>>

\* One request, of a recording that has begun to fill the ring.
Replay ==
    /\ Part("replay")
    /\ \/ w < MaxReplayFrames /\ \E k \in Kinds, n \in Lengths :
                                    (k = "gap" => n = 1) /\ ReplayPush(k, n)
       \/ w > 2 /\ end = 0 /\ \E want \in Windows : ReplayStarts(want)
       \/ ReplayStep
    /\ UNCHANGED <<videoVars, mediaVars, radioVars, devVars, vadVars, buttonVars, bootVars,
                   gatewayVars, serviceVars>>

Commands ==
    /\ Part("commands") /\ MCDevNext
    /\ UNCHANGED <<wearableVars, onlyReplayVars, vadVars, buttonVars, bootVars, gatewayVars,
                   serviceVars>>

VoiceGate ==
    /\ Part("voice gate") /\ VadNext
    /\ UNCHANGED <<wearableVars, onlyReplayVars, devVars, buttonVars, bootVars, gatewayVars,
                   serviceVars>>

Buttons ==
    /\ Part("button") /\ ButtonNext
    /\ UNCHANGED <<wearableVars, onlyReplayVars, devVars, vadVars, bootVars, gatewayVars,
                   serviceVars>>

Boot ==
    /\ Part("boot") /\ BootNext
    /\ UNCHANGED <<wearableVars, onlyReplayVars, devVars, vadVars, buttonVars, gatewayVars,
                   serviceVars>>

Gateway ==
    /\ Part("gateway") /\ GatewayNext
    /\ UNCHANGED <<wearableVars, onlyReplayVars, devVars, vadVars, buttonVars, bootVars,
                   serviceVars>>

Service ==
    /\ Part("service") /\ ServiceNext
    /\ UNCHANGED <<wearableVars, onlyReplayVars, devVars, vadVars, buttonVars, bootVars,
                   gatewayVars>>

MCAllInit ==
    /\ part \in {"video", "card", "radio", "drain", "replay", "commands", "voice gate",
                 "button", "boot", "gateway", "service"}
    /\ VideoInit /\ MediaInit /\ RadioInit /\ ReplayInit /\ DevInit /\ VadInit
    /\ ButtonInit /\ BootInit /\ GatewayInit /\ ServiceInit

MCAllNext ==
    \/ Wearable \/ Replay \/ Commands \/ VoiceGate \/ Buttons \/ Boot \/ Gateway \/ Service

MCSpec ==
    MCAllInit /\ [][MCAllNext]_<<part, wearableVars, onlyReplayVars, devVars, vadVars,
                                 buttonVars, bootVars, gatewayVars, serviceVars>>

\* Every component's state is of its type.
ComponentTypesOK ==
    /\ VideoTypeOK /\ MediaTypeOK /\ RadioTypeOK /\ DrainTypeOK /\ DevTypeOK
    /\ VadTypeOK /\ BootTypeOK /\ GatewayTypeOK /\ ServiceTypeOK
=============================================================================
