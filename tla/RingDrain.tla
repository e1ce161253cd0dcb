----------------------------- MODULE RingDrain ------------------------------
(***************************************************************************)
(* The pendant's audio ring and the two tasks on it: the audio task on     *)
(* core 1 pushes one frame every 20 ms, the drain task on core 0 reads     *)
(* forward from a cursor of its own, rewinds it at the onset of speech,    *)
(* and packs what it read into notifications.                              *)
(*                                                                         *)
(* A frame is its absolute index; a step is one critical section of the    *)
(* ring or one notification, so pushes fall between any two reads of a     *)
(* batch.  Speech and hangover are one kind, "voiced": the drain tells     *)
(* them apart nowhere.  chunk_seq, which only counts packets and which     *)
(* replays count on too, is left out: nothing here reads it.               *)
(***************************************************************************)
EXTENDS Integers, Sequences

CONSTANTS
    RingFrames,   \* RING_FRAMES
    Chunk,        \* C6_FRAMES_PER_CHUNK
    Preroll       \* VAD_PREROLL_FRAMES

ASSUME RingDrainAssumption ==
    /\ RingFrames \in Nat \ {0}
    /\ Chunk \in Nat \ {0}
    /\ Preroll \in Nat \ {0}

Kinds == {"gap", "voiced"}
Tags == {"none", "preroll", "voiced"}

VARIABLES
    w,           \* s_write_index
    kind,        \* vad_state of every frame ever pushed
    pc,          \* the drain task: "poll", "collect" or "emit"
    cursor,      \* next frame to read
    inSpeech,    \* the last batch ended voiced
    prerolled,   \* this batch starts with replayed frames
    base,        \* preroll_base
    i,           \* frames of this batch read so far
    batch,       \* frames collected and not packed yet, with their tags
    lastTag,     \* tag of the last frame collected, "none" if there is none
    \* history
    sent,        \* how often a frame's own bytes went into a packet
    lapped,      \* frames the drain passed after the ring had overtaken it
    oversize,    \* frames dropped because no packet holds them
    rewound      \* frames the cursor has been rewound from

drainVars == <<w, kind, pc, cursor, inSpeech, prerolled, base, i, batch, lastTag,
               sent, lapped, oversize, rewound>>

ringVars == <<w, kind>>

-----------------------------------------------------------------------------
\* Mutation: the window is one frame short.
ReadableShort(f) == f < w /\ w - f < RingFrames

\* ring_buffer_get(): f lies in the window [w - RingFrames, w).
Readable(f) == f < w /\ w - f <= RingFrames

Voiced(f) == kind[f] = "voiced"

\* Mutation: the rewind is a whole batch.
RewindByChunk(h) == IF h >= Chunk THEN h - Chunk ELSE 0

\* Where the preroll of an utterance that starts at frame h begins.
RewindTo(h) == IF h >= Preroll THEN h - Preroll ELSE 0

\* Mutation: the first replayed frame keeps its own state.
TagAfterFirst(f) == IF prerolled /\ f - base \in 1 .. Preroll THEN "preroll" ELSE "voiced"

\* The state a frame has in its packet's header.
Tag(f) == IF prerolled /\ f - base < Preroll THEN "preroll" ELSE "voiced"

-----------------------------------------------------------------------------
\* The audio task: a voiced frame, or a gap marker for silence and while the
\* gate is paused.  A frame that fails to encode pushes nothing.
AudioPush(k) ==
    /\ w' = w + 1
    /\ kind' = [f \in 0 .. w |-> IF f = w THEN k ELSE kind[f]]
    /\ sent' = [f \in 0 .. w |-> IF f = w THEN 0 ELSE sent[f]]
    /\ UNCHANGED <<pc, cursor, inSpeech, prerolled, base, i, batch, lastTag,
                   lapped, oversize, rewound>>

\* The head of the batch starts an utterance whose preroll is still in the ring.
Onset(h) ==
    /\ ~inSpeech
    /\ Readable(h) /\ Voiced(h)
    /\ RewindTo(h) < h
    /\ Readable(RewindTo(h))

\* A full chunk waits in the ring.
Available == w - cursor >= Chunk

StartsBatch(c, rewinds) ==
    /\ pc = "poll"
    /\ pc' = "collect"
    /\ cursor' = c
    /\ base' = c
    /\ prerolled' = rewinds
    /\ i' = 0
    /\ batch' = <<>>
    /\ lastTag' = "none"
    /\ UNCHANGED <<ringVars, inSpeech, sent, lapped, oversize>>

\* One pass of the drain loop up to the batch.  The rewind only makes more frames
\* available, so the second test of the chunk size never fails; a push between the
\* reads can only take the preroll out of the ring, as one before them would.
Rewind ==
    /\ Available
    /\ Onset(cursor)
    /\ StartsBatch(RewindTo(cursor), TRUE)
    /\ rewound' = rewound \cup {cursor}

ReadOn ==
    /\ Available
    /\ ~Onset(cursor)
    /\ StartsBatch(cursor, FALSE)
    /\ UNCHANGED rewound

\* Reads one frame of the batch; silence is left out of the packet.
Collect ==
    LET f == cursor + i IN
    /\ pc = "collect" /\ i < Chunk
    /\ Readable(f)
    /\ i' = i + 1
    /\ IF Voiced(f)
       THEN batch' = Append(batch, [frame |-> f, tag |-> Tag(f)]) /\ lastTag' = Tag(f)
       ELSE UNCHANGED <<batch, lastTag>>
    /\ UNCHANGED <<ringVars, pc, cursor, inSpeech, prerolled, base,
                   sent, lapped, oversize, rewound>>

\* The frame is gone: the rest of the batch is given up, readable or not.
Overrun ==
    /\ pc = "collect" /\ i < Chunk
    /\ ~Readable(cursor + i)
    /\ pc' = "emit"
    /\ lapped' = lapped \cup (cursor + i .. cursor + Chunk - 1)
    /\ UNCHANGED <<ringVars, cursor, inSpeech, prerolled, base, i, batch, lastTag,
                   sent, oversize, rewound>>

Collected ==
    /\ pc = "collect" /\ i = Chunk
    /\ pc' = "emit"
    /\ UNCHANGED <<ringVars, cursor, inSpeech, prerolled, base, i, batch, lastTag,
                   sent, lapped, oversize, rewound>>

\* Mutation: a frame is skipped between two packets.
UnpackedLess(n) == SubSeq(batch, n + 2, Len(batch))

\* What a packet of the next n frames leaves.
Unpacked(n) == SubSeq(batch, n + 1, Len(batch))

\* c6_write_packet() of the next n frames, handed to the link once or, while its
\* buffers are full, up to four times.  The frames are pointers into the ring, so
\* a slot written since then puts a newer frame's bytes under the old header.
Emit(n) ==
    LET inPacket == {batch[k].frame : k \in 1 .. n}
        own == {f \in inPacket : Readable(f)}
    IN  /\ pc = "emit"
        /\ n <= Len(batch)
        /\ batch' = Unpacked(n)
        /\ sent' = [f \in DOMAIN sent |-> IF f \in own THEN sent[f] + 1 ELSE sent[f]]
        /\ lapped' = lapped \cup (inPacket \ own)
        /\ UNCHANGED <<ringVars, pc, cursor, inSpeech, prerolled, base, i, lastTag,
                       oversize, rewound>>

\* One frame alone exceeds the MTU.
DropOversize ==
    /\ pc = "emit"
    /\ batch # <<>>
    /\ batch' = Tail(batch)
    /\ oversize' = oversize \cup {Head(batch).frame}
    /\ UNCHANGED <<ringVars, pc, cursor, inSpeech, prerolled, base, i, lastTag,
                   sent, lapped, rewound>>

\* has_audio and the last frame's state, for the next batch's preroll decision.
EndsInSpeech == lastTag = "voiced"

\* The batch is packed, as an empty packet if it was all silence.
Advance ==
    /\ pc = "emit"
    /\ batch = <<>>
    /\ pc' = "poll"
    /\ cursor' = cursor + Chunk
    /\ inSpeech' = EndsInSpeech
    /\ UNCHANGED <<ringVars, prerolled, base, i, batch, lastTag,
                   sent, lapped, oversize, rewound>>

DrainInit ==
    /\ w = 0
    /\ kind = [f \in 0 .. -1 |-> "gap"]
    /\ pc = "poll"
    /\ cursor = 0
    /\ inSpeech = FALSE
    /\ prerolled = FALSE
    /\ base = 0
    /\ i = 0
    /\ batch = <<>>
    /\ lastTag = "none"
    /\ sent = [f \in 0 .. -1 |-> 0]
    /\ lapped = {}
    /\ oversize = {}
    /\ rewound = {}

DrainStep ==
    \/ Rewind \/ ReadOn
    \/ Collect \/ Overrun \/ Collected
    \/ \E n \in 1 .. Chunk : Emit(n)
    \/ DropOversize
    \/ Advance

DrainNext == DrainStep \/ \E k \in Kinds : AudioPush(k)

DrainSpec == DrainInit /\ [][DrainNext]_drainVars

-----------------------------------------------------------------------------
\* The state of the ring and of the drain task.
DrainTypeOK ==
    /\ w \in Nat
    /\ kind \in [0 .. w - 1 -> Kinds]
    /\ pc \in {"poll", "collect", "emit"}
    /\ cursor \in Nat
    /\ inSpeech \in BOOLEAN
    /\ prerolled \in BOOLEAN
    /\ base \in Nat
    /\ i \in 0 .. Chunk
    /\ batch \in Seq([frame : 0 .. w - 1, tag : Tags \ {"none"}])
    /\ lastTag \in Tags
    /\ sent \in [0 .. w - 1 -> Nat]
    /\ lapped \in SUBSET (0 .. w - 1)
    /\ oversize \in SUBSET (0 .. w - 1)
    /\ rewound \in SUBSET (0 .. w - 1)

\* The cursor never passes the write index, so "write_idx - cursor" does not wrap
\* around, and no batch asks the ring for a frame that is not written yet: the
\* "should not happen" of the collecting loop is never that.
CursorBehind ==
    /\ cursor <= w
    /\ pc # "poll" => cursor + Chunk <= w

\* Every voiced frame behind the cursor went out with its own bytes, was too large
\* for a packet, or was passed when the ring had overtaken the drain: rewinding,
\* tagging and packing lose nothing.
VoicedAccounted ==
    \A f \in 0 .. w - 1 :
        (pc = "poll" /\ f < cursor /\ Voiced(f)) =>
            \/ sent[f] > 0
            \/ f \in lapped
            \/ f \in oversize

\* A drain that stays a chunk inside the ring's window loses nothing to the
\* producer: giving up the rest of a batch costs no frame that is further than
\* that from being overwritten.
LostOnlyWhenLapped == \A f \in lapped : w - f > RingFrames - Chunk + 1

\* What replaying history costs.  A frame goes out twice at most, and the second time
\* its packet's header says preroll; an onset is one transition, so the cursor is rewound
\* from it once.  The last is true once the recording is Preroll frames old; before that
\* the rewind is clamped to frame 0, and an onset right after a silent first chunk is
\* replayed again and again, until the ring overwrites frame 0.
RepeatsOnce ==
    [][/\ \A f \in 0 .. w - 1 :
              sent[f] > 0 /\ sent'[f] > sent[f] =>
                  sent'[f] = 2 /\ Head(batch).tag = "preroll"
       /\ cursor' < cursor /\ cursor >= Preroll => cursor \notin rewound]_drainVars
=============================================================================
