--------------------------- MODULE MCRelaySession ---------------------------
(* MaxChunk packets, MaxLinks sockets, MaxDrops drops, MaxAsked requests.     *)
EXTENDS RelaySession

CONSTANTS MaxChunk, MaxLinks, MaxDrops, MaxAsked

ASSUME MaxChunkAssumption == MaxChunk \in Nat

VARIABLES links, drops, requests

MCSessVars == <<sessVars, links, drops, requests>>

Counted == <<links, drops, requests>>

GattThread == Hold \/ Push \/ Send

WsThread == StartReads \/ StartClears \/ Execute

Dropping == StopClears \/ DropCloses

MCSessInit == SessInit /\ links = 0 /\ drops = 0 /\ requests = 0

MCSessNext ==
    \/ nextChunk <= MaxChunk /\ (OnDeviceAudio \/ BleLoses) /\ UNCHANGED Counted
    \/ GattThread /\ UNCHANGED Counted
    \/ OnOpen /\ UNCHANGED Counted
    \/ WsThread /\ UNCHANGED Counted
    \/ /\ requests < MaxAsked
       /\ requests' = requests + 1
       /\ \E from, to \in 1 .. MaxChunk : OnRequestChunks(from, to)
       /\ UNCHANGED <<links, drops>>
    \/ /\ drops < MaxDrops
       /\ drops' = drops + 1
       /\ \E t \in Threads : SoftDrop(t)
       /\ UNCHANGED <<links, requests>>
    \/ Dropping /\ UNCHANGED Counted
    \/ /\ links < MaxLinks
       /\ links' = links + 1
       /\ OnConnected
       /\ UNCHANGED <<drops, requests>>

MCSessSpec == MCSessInit /\ [][MCSessNext]_MCSessVars
=============================================================================
