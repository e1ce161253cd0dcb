-------------------------- MODULE Components_proofs --------------------------
(***************************************************************************)
(* The components of MCComponents side by side: each sees only steps of    *)
(* its own specification, and so keeps what was proved of it alone,        *)
(* whichever of them a behaviour follows.                                  *)
(***************************************************************************)
EXTENDS MCComponents, Device_proofs, Wearable_proofs, Audio_proofs, Link_proofs

-----------------------------------------------------------------------------
componentVars == <<part, wearableVars, onlyReplayVars, devVars, vadVars, buttonVars, bootVars,
                   gatewayVars, serviceVars>>

\* The audio task of the replay is the one that fills the ring for the drain; the
\* replay itself only reads.
LEMMA ReplayIsDrain == Replay => [DrainNext]_drainVars
<1> SUFFICES ASSUME Replay
             PROVE  [DrainNext]_drainVars
  OBVIOUS
<1>1. \/ \E k \in Kinds, n \in Lengths : ReplayPush(k, n)
      \/ \E want \in Windows : ReplayStarts(want)
      \/ ReplayStep
  BY DEF Replay
<1>2. ASSUME NEW k \in Kinds, NEW n \in Lengths, ReplayPush(k, n)
      PROVE  DrainNext
  BY <1>2 DEF ReplayPush, DrainNext
<1>3. ASSUME NEW want \in Windows, ReplayStarts(want)
      PROVE  UNCHANGED drainVars
  BY <1>3 DEF ReplayStarts
<1>4. ReplayStep => UNCHANGED drainVars
  BY DEF ReplayStep, ReplaySkips, ReplayCopies, ReplayFull, ReplayReadAll, ReplayShips
<1> QED
  BY <1>1, <1>2, <1>3, <1>4

\* A step of one component is a step of its specification and leaves the others alone.
Separate ==
    /\ [VideoNext]_videoVars /\ [MediaNext]_mediaVars /\ [RadioNext]_radioVars
    /\ [DrainNext]_drainVars /\ [DevNext]_devVars /\ [VadNext]_vadVars
    /\ [ButtonNext]_buttonVars /\ [BootNext]_bootVars /\ [GatewayNext]_gatewayVars
    /\ [ServiceNext]_serviceVars

LEMMA StepsAreSeparate == [MCAllNext]_componentVars => Separate
<1> SUFFICES ASSUME [MCAllNext]_componentVars
             PROVE  Separate
  OBVIOUS
<1>1. CASE Wearable /\ Recorder
  <2>1. /\ [VideoNext]_videoVars
        /\ UNCHANGED <<mediaVars, radioVars, drainVars, devVars, vadVars, buttonVars, bootVars,
                      gatewayVars, serviceVars>>
    BY <1>1 DEF Wearable, wearableVars, Recorder
  <2> QED
    BY <2>1 DEF Separate
<1>2. CASE Wearable /\ Card
  <2>1. /\ [MediaNext]_mediaVars
        /\ UNCHANGED <<videoVars, radioVars, drainVars, devVars, vadVars, buttonVars, bootVars,
                      gatewayVars, serviceVars>>
    BY <1>2 DEF Wearable, wearableVars, Card
  <2> QED
    BY <2>1 DEF Separate
<1>3. CASE Wearable /\ Radio
  <2>1. /\ [RadioNext]_radioVars
        /\ UNCHANGED <<videoVars, mediaVars, drainVars, devVars, vadVars, buttonVars, bootVars,
                      gatewayVars, serviceVars>>
    BY <1>3 DEF Wearable, wearableVars, Radio
  <2> QED
    BY <2>1 DEF Separate
<1>4. CASE Wearable /\ Drain
  <2>1. /\ [DrainNext]_drainVars
        /\ UNCHANGED <<videoVars, mediaVars, radioVars, devVars, vadVars, buttonVars, bootVars,
                      gatewayVars, serviceVars>>
    BY <1>4 DEF Wearable, wearableVars, Drain, MCDrainNext, Push, Waits, DrainNext
  <2> QED
    BY <2>1 DEF Separate
<1>5. CASE Commands
  <2>1. /\ [DevNext]_devVars
        /\ UNCHANGED <<videoVars, mediaVars, radioVars, drainVars, vadVars, buttonVars,
                      bootVars, gatewayVars, serviceVars>>
    BY <1>5 DEF Commands, wearableVars, MCDevNext, DevNext
  <2> QED
    BY <2>1 DEF Separate
<1>6. CASE VoiceGate
  <2>1. /\ [VadNext]_vadVars
        /\ UNCHANGED <<videoVars, mediaVars, radioVars, drainVars, devVars, buttonVars,
                      bootVars, gatewayVars, serviceVars>>
    BY <1>6 DEF VoiceGate, wearableVars
  <2> QED
    BY <2>1 DEF Separate
<1>7. CASE Buttons
  <2>1. /\ [ButtonNext]_buttonVars
        /\ UNCHANGED <<videoVars, mediaVars, radioVars, drainVars, devVars, vadVars, bootVars,
                      gatewayVars, serviceVars>>
    BY <1>7 DEF Buttons, wearableVars
  <2> QED
    BY <2>1 DEF Separate
<1>8. CASE Boot
  <2>1. /\ [BootNext]_bootVars
        /\ UNCHANGED <<videoVars, mediaVars, radioVars, drainVars, devVars, vadVars,
                      buttonVars, gatewayVars, serviceVars>>
    BY <1>8 DEF Boot, wearableVars
  <2> QED
    BY <2>1 DEF Separate
<1>9. CASE Gateway
  <2>1. /\ [GatewayNext]_gatewayVars
        /\ UNCHANGED <<videoVars, mediaVars, radioVars, drainVars, devVars, vadVars,
                      buttonVars, bootVars, serviceVars>>
    BY <1>9 DEF Gateway, wearableVars
  <2> QED
    BY <2>1 DEF Separate
<1>10. CASE Service
  <2>1. /\ [ServiceNext]_serviceVars
        /\ UNCHANGED <<videoVars, mediaVars, radioVars, drainVars, devVars, vadVars,
                      buttonVars, bootVars, gatewayVars>>
    BY <1>10 DEF Service, wearableVars
  <2> QED
    BY <2>1 DEF Separate
<1>11. CASE Replay
  <2>1. UNCHANGED <<videoVars, mediaVars, radioVars, devVars, vadVars, buttonVars, bootVars,
                   gatewayVars, serviceVars>>
    BY <1>11 DEF Replay
  <2> QED
    BY <1>11, <2>1, ReplayIsDrain DEF Separate
<1>12. CASE UNCHANGED componentVars
  BY <1>12 DEF componentVars, wearableVars, Separate
<1> QED
  BY <1>1, <1>2, <1>3, <1>4, <1>5, <1>6, <1>7, <1>8, <1>9, <1>10, <1>11, <1>12
     DEF MCAllNext, Wearable

-----------------------------------------------------------------------------
\* Side by side, each component behaves as its own specification says, so that every
\* theorem about it alone holds of the system the run of MCComponents explores.  The
\* replay, which has the ring in common with the drain, is below (ReplayKept).
THEOREM ComponentsImplemented ==
    MCSpec => /\ VideoSpec /\ MediaSpec /\ RadioSpec /\ DrainSpec /\ DevSpec
              /\ VadSpec /\ ButtonSpec /\ BootSpec /\ GatewaySpec /\ ServiceSpec
<1>1. MCAllInit => /\ VideoInit /\ MediaInit /\ RadioInit /\ DrainInit /\ DevInit
                   /\ VadInit /\ ButtonInit /\ BootInit /\ GatewayInit /\ ServiceInit
  BY DEF MCAllInit, ReplayInit
<1>2. MCSpec => MCAllInit /\ [][MCAllNext]_componentVars
  BY DEF MCSpec, componentVars
<1>3. [MCAllNext]_componentVars =>
          /\ [VideoNext]_videoVars /\ [MediaNext]_mediaVars /\ [RadioNext]_radioVars
          /\ [DrainNext]_drainVars /\ [DevNext]_devVars /\ [VadNext]_vadVars
          /\ [ButtonNext]_buttonVars /\ [BootNext]_bootVars /\ [GatewayNext]_gatewayVars
          /\ [ServiceNext]_serviceVars
  BY StepsAreSeparate DEF Separate
<1> QED
  BY <1>1, <1>2, <1>3, PTL
     DEF VideoSpec, MediaSpec, RadioSpec, DrainSpec, DevSpec, VadSpec, ButtonSpec, BootSpec,
         GatewaySpec, ServiceSpec

\* No task, callback or handler of any of these components takes its state out of its
\* type, in the system the run explores and for every value of its constants.
THEOREM ComponentTypesCorrect == MCSpec => []ComponentTypesOK
<1>1. /\ VideoTypeOK /\ MediaTypeOK /\ RadioTypeOK /\ DrainTypeOK /\ DevTypeOK
      /\ VadTypeOK /\ BootTypeOK /\ GatewayTypeOK /\ ServiceTypeOK
      => ComponentTypesOK
  BY DEF ComponentTypesOK
<1> QED
  BY <1>1, ComponentsImplemented, VideoTypeCorrect, MediaTypeCorrect, RadioTypeCorrect,
     DrainTypeCorrect, DevTypeCorrect, VadTypeCorrect, BootTypeCorrect, GatewayTypeCorrect,
     ServiceTypeCorrect, PTL

-----------------------------------------------------------------------------
\* No request has come.
NoRequest ==
    /\ replay = "none" /\ start = 0 /\ next = 0 /\ end = 0
    /\ chosen = <<>> /\ packets = <<>> /\ gone = {} /\ tooLong = {}

\* The drain writes what the replay reads, so the replay's invariant is kept where a
\* behaviour follows the replay; elsewhere there is no request to serve.
ReplayKept == IF part = "replay" THEN ReplayInv ELSE NoRequest

LEMMA ReplayKeptNext == ReplayKept /\ [MCAllNext]_componentVars => ReplayKept'
<1> SUFFICES ASSUME ReplayKept, [MCAllNext]_componentVars
             PROVE  ReplayKept'
  OBVIOUS
<1>1. CASE Replay
  <2>1. part = "replay" /\ part' = part /\ ReplayNext
    BY <1>1 DEF Replay, Part, ReplayNext
  <2> QED
    BY <2>1, ReplayInvNext DEF ReplayKept
<1>2. CASE \/ Wearable \/ Commands \/ VoiceGate \/ Buttons \/ Boot \/ Gateway \/ Service
  <2>1. part # "replay" /\ part' = part /\ UNCHANGED onlyReplayVars
    BY <1>2 DEF Wearable, Recorder, Card, Radio, Drain, Commands, VoiceGate, Buttons, Boot,
                Gateway, Service, Part
  <2> QED
    BY <2>1 DEF ReplayKept, NoRequest, onlyReplayVars
<1>3. CASE UNCHANGED componentVars
  <2>1. part' = part /\ UNCHANGED onlyReplayVars /\ UNCHANGED replayVars
    BY <1>3 DEF componentVars, onlyReplayVars, wearableVars, replayVars, drainVars
  <2> QED
    BY <2>1, ReplayInvNext DEF ReplayKept, NoRequest, onlyReplayVars
<1> QED
  BY <1>1, <1>2, <1>3 DEF MCAllNext

LEMMA NoRequestServed == NoRequest => RequestServed
<1> SUFFICES ASSUME NoRequest
             PROVE  RequestServed
  OBVIOUS
<1>1. Shipped = <<>>
  <2>1. Shipped = Joined(packets)
    BY DEF Shipped, Joined
  <2> QED
    BY <2>1, JoinedEmpty DEF NoRequest
<1>2. WindowReplayed
  <2>1. start .. end - 1 = {}
    BY DEF NoRequest
  <2> QED
    BY <1>1, <2>1 DEF WindowReplayed, NoRequest
<1>3. EndMarkedOnce
  BY DEF EndMarkedOnce, NoRequest
<1> QED
  BY <1>2, <1>3 DEF RequestServed

\* What the run of MCComponents checks, of the system it explores and for every value of
\* the constants: the invariants of the tasks, callbacks and handlers side by side, that
\* only a stop ends a recording, and that no boot repeats a boot id.
THEOREM ComponentsSafe ==
    MCSpec =>
      /\ EndedByStop /\ FreshBootId
      /\ [](/\ SoleRecorder /\ ListedWhenClosed /\ ListedIsWhole /\ UnfetchedListed
            /\ QuietWindow /\ VoicedAccounted /\ LostOnlyWhenLapped /\ RequestServed
            /\ DedupeWindow /\ FloorWithinHeard /\ GesturesAsDefined
            /\ VerifierIsInstalled /\ RebootSeesKey /\ EndedIsClosed /\ CarriedIsActive
            /\ RefusedOnlyInOverlap /\ HeardUnlessOverflow /\ NeverStranded
            /\ OneLinkAtATime)
<1>1. MCSpec => []RequestServed
  <2>1. MCAllInit => ReplayKept
    BY ReplayInvInit DEF MCAllInit, ReplayKept, NoRequest, ReplayInit
  <2>2. ReplayKept => RequestServed
    BY ReplayInvServes, NoRequestServed DEF ReplayKept
  <2>3. MCSpec => MCAllInit /\ [][MCAllNext]_componentVars
    BY DEF MCSpec, componentVars
  <2> QED
    BY <2>1, <2>2, <2>3, ReplayKeptNext, PTL
<1> QED
  BY <1>1, ComponentsImplemented, OneRecorder, ListedClipIsClosed, ListedFilesAreWhole,
     UnfetchedFilesAreListed, WindowIsQuiet, AccountsForVoice, LosesOnlyNearTheEnd,
     DedupeCorrect, FloorStaysWithinHeard, GesturesCorrect, VerifierStaysInstalled,
     RebootsSeeKey, LastOneCloses, CarriedStaysActive, RefusalNeedsOverlap,
     HelloIsHeardFirst, ServiceGoesOn, LinksAreSingle, OnlyStopsEnd, BootIdsFresh, PTL
==============================================================================
