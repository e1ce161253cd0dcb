----------------------------- MODULE MCWearable -----------------------------
(***************************************************************************)
(* The wearable's background tasks: the video recorder, the SD card behind *)
(* the transfer server, the radio that Bluetooth and Wi-Fi take turns on,  *)
(* and the audio drain.  They share no state, so a behaviour of the        *)
(* wearable is one of each: a run follows one of them, `part`, and leaves  *)
(* the others where they start.                                            *)
(***************************************************************************)
EXTENDS VideoCapture, MediaCard, TransferWindow, MCRingDrain

VARIABLE part

MCVars == <<part, videoVars, mediaVars, radioVars, drainVars>>

Part(p) == part = p /\ UNCHANGED part

\* A race of two starts breaks what follows: no command comes after one.
Recorder ==
    /\ Part("video")
    /\ VideoNext
    /\ raced => \A c \in Callers : call[c] = "idle" => call'[c] = "idle"
    /\ UNCHANGED <<mediaVars, radioVars, drainVars>>

Card == Part("card") /\ MediaNext /\ UNCHANGED <<videoVars, radioVars, drainVars>>

Radio == Part("radio") /\ RadioNext /\ UNCHANGED <<videoVars, mediaVars, drainVars>>

Drain == Part("drain") /\ MCDrainNext /\ UNCHANGED <<videoVars, mediaVars, radioVars>>

MCInit ==
    /\ part \in {"video", "card", "radio", "drain"}
    /\ VideoInit /\ MediaInit /\ RadioInit /\ DrainInit

MCNext == Recorder \/ Card \/ Radio \/ Drain

\* The scheduler runs every task; a capture may hang, a command need not come.
RecorderFairness ==
    /\ \A c \in Callers : WF_videoVars(part = "video" /\ CallerStep(c))
    /\ \A h \in Helpers : WF_videoVars(part = "video" /\ (DurationOver(h) \/ StopStep(h)))
    /\ \A v \in VideoTasks :
           WF_videoVars(/\ part = "video"
                        /\ Loop(v) \/ Close(v) \/ List(v) \/ Unset(v) \/ Notify(v))

\* The tasks run, and a phone that is there for ever comes back to every window: it
\* reads the manifest, fetches what it lists and posts what it has not posted yet.
CardFairness ==
    /\ \A wr \in Writers : WF_mediaVars(part = "card" /\ WriterStep(wr))
    /\ WF_mediaVars(part = "card" /\ HandlerStep)
    /\ SF_mediaVars(part = "card" /\ GetManifest)
    /\ SF_mediaVars(part = "card" /\ \E f \in Files \ fetched : GetItem(f))
    /\ SF_mediaVars(part = "card" /\ \E f \in noticed : PostConsumed({f}))

\* Both tasks run, and a termination that was asked for comes to its end.
RadioFairness ==
    /\ WF_radioVars(part = "radio" /\ HostStep)
    /\ WF_radioVars(part = "radio" /\ TransferStep)
    /\ WF_radioVars(part = "radio" /\ conn = "ending" /\ LinkEnds)

\* The encoder and the drain are scheduled for ever, each on a core of its own.
DrainFairness ==
    /\ WF_drainVars(part = "drain" /\ Push)
    /\ WF_drainVars(part = "drain" /\ DrainStep)

MCLiveSpec ==
    /\ MCInit
    /\ [][MCNext]_MCVars
    /\ RecorderFairness /\ CardFairness /\ RadioFairness /\ DrainFairness

\* The drain gets past every frame for good, however often it rewinds: the loop on
\* an onset at the start of the recording ends when the ring overwrites its preroll.
EveryFramePassed ==
    part = "drain" => \A f \in 0 .. MaxFrames - Chunk : <>[](cursor > f)
=============================================================================
