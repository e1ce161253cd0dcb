-------------------------------- MODULE Vad ---------------------------------
(***************************************************************************)
(* The pendant's voice gate, vad_process_single_adaptive(), as the audio   *)
(* task runs it: one frame every 20 ms, none while stop_audio has the gate *)
(* paused (gated).  A frame is its mean energy; fixed-point factors are    *)
(* numerators over Q, and a shift right divides towards minus infinity.    *)
(***************************************************************************)
EXTENDS Integers

CONSTANTS
    FloorMin,         \* VAD_ENERGY_THRESHOLD_FLOOR
    Multiplier,       \* VAD_NOISE_MULTIPLIER
    AlphaDown,        \* VAD_NOISE_ALPHA_DOWN_Q16
    AlphaUp,          \* VAD_NOISE_ALPHA_UP_Q16
    Q,                \* 2^16
    Word,             \* 2^32
    HangoverFrames,   \* VAD_HANGOVER_FRAMES
    MaxEnergy,        \* of a frame: 2^30, every sample at full scale
    Energies          \* that occur

ASSUME VadAssumption ==
    /\ FloorMin \in 0 .. MaxEnergy /\ MaxEnergy \in Nat
    /\ Multiplier \in Nat \ {0}
    /\ Word \in Nat /\ MaxEnergy * Multiplier < Word
    /\ Q \in Nat \ {0}
    /\ AlphaDown \in 0 .. Q /\ AlphaUp \in 0 .. Q
    /\ HangoverFrames \in Nat
    /\ Energies \subseteq 0 .. MaxEnergy

VadStates == {"speech", "hangover", "gap"}

VARIABLES
    noise_floor,
    hangover_left,
    gated,         \* audio_gate
    tagged,        \* what the last frame was pushed as
    \* history
    sinceSpeech,   \* frames classified since the last one of speech
    quietest, loudest   \* of the seed and the frames the floor has followed

vadVars == <<noise_floor, hangover_left, gated, tagged, sinceSpeech, quietest, loudest>>

\* Long ago: no frame is that far back.
Never == HangoverFrames + 1

-----------------------------------------------------------------------------
\* The product is taken in 32 bits.
Threshold ==
    LET scaled == (noise_floor * Multiplier) % Word
    IN  IF scaled < FloorMin THEN FloorMin ELSE scaled

Shifted(n) == n \div Q

\* Mutation: a fall past the frame it follows.
UpdateOvershoots(delta, e) ==
    IF delta < 0 THEN Shifted(delta * (Q + AlphaDown))
    ELSE IF e < (noise_floor * 3) \div 2 THEN Shifted(delta * AlphaUp)
    ELSE 0

\* The step of the noise floor: fast down, slow up, not at all on a burst.
Update(delta, e) ==
    IF delta < 0 THEN Shifted(delta * AlphaDown)
    ELSE IF e < (noise_floor * 3) \div 2 THEN Shifted(delta * AlphaUp)
    ELSE 0

Follows(e) ==
    LET nf == noise_floor + Update(e - noise_floor, e)
    IN  noise_floor' = IF nf < 0 THEN 0 ELSE nf

Classified == IF sinceSpeech < Never THEN sinceSpeech + 1 ELSE Never

-----------------------------------------------------------------------------
Refill == HangoverFrames

Speech(e) ==
    /\ ~gated /\ e > Threshold
    /\ hangover_left' = Refill
    /\ tagged' = "speech"
    /\ sinceSpeech' = 0
    /\ UNCHANGED <<noise_floor, gated, quietest, loudest>>

Left == hangover_left - 1

\* The floor stays where it is.
Hangover(e) ==
    /\ ~gated /\ e <= Threshold
    /\ hangover_left > 0
    /\ hangover_left' = Left
    /\ tagged' = "hangover"
    /\ sinceSpeech' = Classified
    /\ UNCHANGED <<noise_floor, gated, quietest, loudest>>

Gap(e) ==
    /\ ~gated /\ e <= Threshold
    /\ hangover_left = 0
    /\ Follows(e)
    /\ tagged' = "gap"
    /\ sinceSpeech' = Classified
    /\ quietest' = IF e < quietest THEN e ELSE quietest
    /\ loudest' = IF e > loudest THEN e ELSE loudest
    /\ UNCHANGED <<hangover_left, gated>>

\* stop_audio: a gap marker without a look at the frame.
PausedFrame ==
    /\ gated
    /\ tagged' = "gap"
    /\ UNCHANGED <<noise_floor, hangover_left, gated, sinceSpeech, quietest, loudest>>

AudioGate ==
    /\ gated' = ~gated
    /\ UNCHANGED <<noise_floor, hangover_left, tagged, sinceSpeech, quietest, loudest>>

VadInit ==
    /\ noise_floor = FloorMin
    /\ hangover_left = 0
    /\ gated = FALSE
    /\ tagged = "gap"
    /\ sinceSpeech = Never
    /\ quietest = FloorMin
    /\ loudest = FloorMin

VadNext ==
    \/ \E e \in Energies : Speech(e) \/ Hangover(e) \/ Gap(e)
    \/ PausedFrame
    \/ AudioGate

VadSpec == VadInit /\ [][VadNext]_vadVars

-----------------------------------------------------------------------------
VadTypeOK ==
    /\ noise_floor \in Nat
    /\ hangover_left \in 0 .. HangoverFrames
    /\ gated \in BOOLEAN
    /\ tagged \in VadStates
    /\ sinceSpeech \in 0 .. Never
    /\ quietest \in Nat /\ loudest \in Nat

\* "asymmetric EMA": whatever the rounding, the floor never leaves the range of what
\* it has followed, so noise_floor * multiplier is never cut to 32 bits and a loud
\* room never wraps into a low threshold.
FloorWithinHeard ==
    /\ quietest <= noise_floor /\ noise_floor <= loudest
    /\ noise_floor * Multiplier < Word

\* "keep emitting (avoids clipping word tails)": the HangoverFrames frames classified
\* after one of speech are all emitted, and none later without new speech.  A pause
\* freezes the count.
TailKept == hangover_left = IF sinceSpeech > HangoverFrames THEN 0
                            ELSE HangoverFrames - sinceSpeech

\* The slow rise is cut off by the shift: once the floor is so low that half of it,
\* times AlphaUp, stays below one unit of Q, no room raises it again.  With the shipped
\* constants that is a floor of 1000, and the threshold is FloorMin for good.
LowFloorStaysLow ==
    [][noise_floor * AlphaUp < 2 * Q => noise_floor' <= noise_floor]_vadVars
=============================================================================
