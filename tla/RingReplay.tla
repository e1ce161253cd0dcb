----------------------------- MODULE RingReplay -----------------------------
(***************************************************************************)
(* drain_replay(): a request_buffer command has the drain task send the    *)
(* last seconds of the ring again, between two live batches, while the     *)
(* audio task goes on pushing.  A step is one critical section of the ring *)
(* or one notification; the live drain waits in "poll".                    *)
(***************************************************************************)
EXTENDS RingDrain

CONSTANTS
    Lengths,     \* sizes of encoded frames
    Budget,      \* bytes of a packet's body
    Windows      \* windows that may be asked for, in frames

ASSUME ReplayAssumption ==
    /\ Lengths \subseteq Nat \ {0}
    /\ Budget \in Nat
    /\ Windows \subseteq Nat

VARIABLES
    len,         \* size of every frame ever pushed
    replay,      \* "none", "read" or "ship"
    start,       \* start_idx
    next,        \* the frame to read next, start_idx + i
    end,         \* start_idx + N
    chosen,      \* frames copied for the next packet
    packets,     \* sent for this request: their frames and the LAST_OF_REQ flag
    \* history
    gone,        \* frames of the window overwritten before they were read
    tooLong      \* frames no packet holds

replayVars == <<drainVars, len, replay, start, next, end, chosen, packets, gone, tooLong>>

Bytes(s) == LET sum[k \in 0 .. Len(s)] == IF k = 0 THEN 0 ELSE sum[k - 1] + 1 + len[s[k]]
            IN  sum[Len(s)]

Fits(f) == Bytes(chosen) + 1 + len[f] <= Budget

\* Frames of the window, capped by the ring and by what was recorded.
ReplayWindow(want) ==
    LET capped == IF want > RingFrames THEN RingFrames ELSE want
    IN  IF capped > w THEN w ELSE capped

-----------------------------------------------------------------------------
\* The audio task goes on.
ReplayPush(k, n) ==
    /\ AudioPush(k)
    /\ len' = [f \in 0 .. w |-> IF f = w THEN n ELSE len[f]]
    /\ UNCHANGED <<replay, start, next, end, chosen, packets, gone, tooLong>>

\* Takes a request from the queue.  With nothing recorded, one packet marks its end.
ReplayStarts(want) ==
    LET n == ReplayWindow(want) IN
    /\ replay = "none"
    /\ start' = w - n
    /\ next' = w - n
    /\ end' = w
    /\ replay' = IF n = 0 THEN "none" ELSE "read"
    /\ packets' = IF n = 0 THEN <<[frames |-> <<>>, last |-> TRUE]>> ELSE <<>>
    /\ gone' = {} /\ tooLong' = {}
    /\ UNCHANGED <<drainVars, len, chosen>>

Reads(f) == replay = "read" /\ next < end /\ f = next

\* Overwritten, or silent: left out.
ReplaySkips ==
    /\ Reads(next)
    /\ ~Readable(next) \/ ~Voiced(next)
    /\ next' = next + 1
    /\ gone' = IF Readable(next) THEN gone ELSE gone \cup {next}
    /\ UNCHANGED <<drainVars, len, replay, start, end, chosen, packets, tooLong>>

ReplayCopies ==
    /\ Reads(next)
    /\ Readable(next) /\ Voiced(next) /\ Fits(next)
    /\ chosen' = Append(chosen, next)
    /\ next' = next + 1
    /\ UNCHANGED <<drainVars, len, replay, start, end, packets, gone, tooLong>>

\* Mutation: the frame that does not fit any more is passed over.
PassesFull == next + 1

\* Where the reading goes on when the packet is full: at the frame that did not fit,
\* unless it alone is too long.
NextWhenFull == IF chosen = <<>> THEN next + 1 ELSE next

ReplayFull ==
    /\ Reads(next)
    /\ Readable(next) /\ Voiced(next) /\ ~Fits(next)
    /\ replay' = "ship"
    /\ next' = NextWhenFull
    /\ tooLong' = IF chosen = <<>> THEN tooLong \cup {next} ELSE tooLong
    /\ UNCHANGED <<drainVars, len, start, end, chosen, packets, gone>>

ReplayReadAll ==
    /\ replay = "read" /\ next = end
    /\ replay' = "ship"
    /\ UNCHANGED <<drainVars, len, start, next, end, chosen, packets, gone, tooLong>>

IsLast == next >= end

\* What was collected fits one packet; a span of silence makes an empty one.  The
\* notification's result is not looked at.
ReplayShips ==
    /\ replay = "ship"
    /\ packets' = Append(packets, [frames |-> chosen, last |-> IsLast])
    /\ chosen' = <<>>
    /\ replay' = IF next < end THEN "read" ELSE "none"
    /\ UNCHANGED <<drainVars, len, start, next, end, gone, tooLong>>

ReplayInit ==
    /\ DrainInit
    /\ len = [f \in 0 .. -1 |-> 0]
    /\ replay = "none"
    /\ start = 0 /\ next = 0 /\ end = 0
    /\ chosen = <<>>
    /\ packets = <<>>
    /\ gone = {} /\ tooLong = {}

ReplayStep == ReplaySkips \/ ReplayCopies \/ ReplayFull \/ ReplayReadAll \/ ReplayShips

ReplayNext ==
    \/ \E k \in Kinds, n \in Lengths : ReplayPush(k, n)
    \/ \E want \in Windows : ReplayStarts(want)
    \/ ReplayStep

ReplaySpec == ReplayInit /\ [][ReplayNext]_replayVars

-----------------------------------------------------------------------------
\* "with C6_FLAG_LAST_OF_REQ on the final packet": a finished request has it on its
\* last packet and on no other, whatever was silent, too long or overwritten.
EndMarkedOnce ==
    \A k \in 1 .. Len(packets) :
        packets[k].last <=> (replay = "none" /\ k = Len(packets))

Shipped == LET joined[k \in 0 .. Len(packets)] ==
                   IF k = 0 THEN <<>> ELSE joined[k - 1] \o packets[k].frames
           IN  joined[Len(packets)]

\* A finished request has sent, once and in order, every voiced frame of its window
\* that no packet is too small for and that was not overwritten meanwhile.
WindowReplayed ==
    replay = "none" =>
        /\ \A j, k \in 1 .. Len(Shipped) : j < k => Shipped[j] < Shipped[k]
        /\ {Shipped[k] : k \in 1 .. Len(Shipped)} =
               {f \in start .. end - 1 : Voiced(f)} \ (gone \cup tooLong)

\* What a request_buffer is answered with: the window, and where it ends.
RequestServed == WindowReplayed /\ EndMarkedOnce

\* "c6_frame_t frames[C6_FRAMES_PER_CHUNK]": the arrays hold what is collected.
FitsArrays == Len(chosen) <= Chunk
=============================================================================
