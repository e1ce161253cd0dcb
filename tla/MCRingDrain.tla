---------------------------- MODULE MCRingDrain -----------------------------
(* The ring and its drain for recordings of up to MaxFrames frames.           *)
EXTENDS RingDrain

CONSTANT MaxFrames

Push == w < MaxFrames /\ \E k \in Kinds : AudioPush(k)

\* The last incomplete chunk waits for frames the bound does not let come.
Drained == w = MaxFrames /\ pc = "poll" /\ ~Available

Waits == Drained /\ UNCHANGED drainVars

MCDrainNext == Push \/ DrainStep \/ Waits
=============================================================================
