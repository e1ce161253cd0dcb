---------------------------- MODULE MCServerPhone ----------------------------
(***************************************************************************)
(* The two ends of the relayed link: the server's settings reconciler and  *)
(* its packet reassembler, and the phone's relay session.  They share no   *)
(* state (what the settings exchange with the device, and the packets that *)
(* arrive, are part of their own modules), so a run follows one of them,   *)
(* `part`, and leaves the others where they start.                         *)
(***************************************************************************)
EXTENDS SettingsReconciler, MCReassembler, MCRelaySession

VARIABLE part

MCVars == <<part, vars, reasmVars, MCSessVars>>

Part(p) == part = p /\ UNCHANGED part

Settings == Part("settings") /\ Next /\ UNCHANGED <<reasmVars, MCSessVars>>

Reassembly == Part("reassembler") /\ MCReasmNext /\ UNCHANGED <<vars, MCSessVars>>

Session == Part("session") /\ MCSessNext /\ UNCHANGED <<vars, reasmVars>>

MCInit ==
    /\ part \in {"settings", "reassembler", "session"}
    /\ Init /\ ReasmInit /\ MCSessInit

MCNext == Settings \/ Reassembly \/ Session

\* The relay keeps reconnecting, a healthy device keeps passing the guardrails,
\* and a link that is up often enough gets its frames and acks through.
SettingsFairness ==
    /\ SF_vars(part = "settings" /\ Hello(FALSE))
    /\ SF_vars(part = "settings" /\ DeviceReceives(TRUE))
    /\ SF_vars(part = "settings" /\ OnCommandAck)
    /\ SF_vars(part = "settings" /\ OnWakeTelemetry)

\* The device sends a chunk or a gap marker every 200 ms, the worker answers
\* and time passes; no session has to end.
ReassemblyFairness ==
    /\ WF_reasmVars(part = "reassembler" /\ Arrival)
    /\ WF_reasmVars(part = "reassembler" /\ (CheckGap \/ IngestFails))
    /\ WF_reasmVars(part = "reassembler" /\ ClockTicks)

\* Each thread of the phone keeps running.
SessionFairness ==
    /\ WF_sessVars(part = "session" /\ GattThread)
    /\ WF_sessVars(part = "session" /\ WsThread)
    /\ WF_sessVars(part = "session" /\ Dropping)

MCLiveSpec ==
    /\ MCInit
    /\ [][MCNext]_MCVars
    /\ SettingsFairness /\ ReassemblyFairness /\ SessionFairness

\* The state of both ends is of its type.
EndTypesOK == TypeOK /\ ReasmTypeOK /\ SessTypeOK
=============================================================================
