---------------------------- MODULE VideoCapture ----------------------------
(***************************************************************************)
(* Video clips on the pendant.  video_start() runs on the executor or on a *)
(* record task, video_stop() on a record or a stop task, and every clip    *)
(* has a video task of its own; all share unlocked globals.  A step ends   *)
(* where a task may block (the card, the camera) or where another task can *)
(* see the difference.  A clip is its s_seq; its file, its path and its    *)
(* manifest line are all named by it.                                      *)
(***************************************************************************)
EXTENDS Naturals, FiniteSets

CONSTANTS
    Helpers,      \* record and stop tasks that may be alive at once
    Executor,     \* the task that executes commands
    VideoTasks,   \* video tasks that may be alive at once
    Clips,        \* 0 .. n, the clips of one boot
    NoOne         \* NULL

ASSUME VideoAssumption ==
    /\ Executor \notin Helpers
    /\ NoOne \notin Helpers \cup {Executor} \cup VideoTasks \cup Clips
    /\ Clips \subseteq Nat

Callers == Helpers \cup {Executor}

VARIABLES
    s_recording, s_task, s_stop_waiter, s_file, s_path, s_seq,
    call,        \* where each caller is in video_start() or video_stop()
    notified,    \* callers with a notification pending
    video,       \* where each video task is
    waiter,      \* the waiter a video task has read
    open,        \* clips whose file is open
    listed,      \* how many manifest lines each clip has
    \* history
    raced        \* a start began while another start or a teardown was under way

videoVars == <<s_recording, s_task, s_stop_waiter, s_file, s_path, s_seq,
               call, notified, video, waiter, open, listed, raced>>

clipVars == <<s_file, s_path, s_seq, open, listed>>

Starting(c) == call[c] \in {"name", "open", "arm", "spawn"}

Alive(v) == video[v] # "dead"

\* A video task past its teardown: it no longer owns s_task.
Leaving(v) == video[v] \in {"unset", "notify"}

Moves(c, step) == call' = [call EXCEPT ![c] = step]

Runs(v, step) == video' = [video EXCEPT ![v] = step]

\* Where a caller goes on once video_start() has succeeded: a record task sleeps
\* through the clip and then stops it.
Started(c) == IF c = Executor THEN "idle" ELSE "delay"

-----------------------------------------------------------------------------
\* The executor calls video_start(), or spawns a record task that does.
Command(c) ==
    /\ call[c] = "idle"
    /\ Moves(c, "start")
    /\ UNCHANGED <<s_recording, s_task, s_stop_waiter, clipVars, notified, video,
                   waiter, raced>>

\* video_stop_async(): a stop task.
StopAsync(h) ==
    /\ call[h] = "idle"
    /\ Moves(h, "stop")
    /\ UNCHANGED <<s_recording, s_task, s_stop_waiter, clipVars, notified, video,
                   waiter, raced>>

\* A second start while one records is ignored, and succeeds.
StartIgnored(c) ==
    /\ call[c] = "start"
    /\ s_recording
    /\ Moves(c, Started(c))
    /\ UNCHANGED <<s_recording, s_task, s_stop_waiter, clipVars, notified, video,
                   waiter, raced>>

\* Mutation: a video task that is still alive does not stop a new start.
NotRefused == FALSE

\* The previous video task has not torn down yet.
Refused == s_task # NoOne

\* Refused, or the card does not mount: a record task ends here.
StartFails(c) ==
    /\ call[c] = "start"
    /\ ~s_recording
    /\ Moves(c, "idle")
    /\ UNCHANGED <<s_recording, s_task, s_stop_waiter, clipVars, notified, video,
                   waiter, raced>>

\* Past the guards, and past sd_store_mount().
StartPasses(c) ==
    /\ call[c] = "start"
    /\ ~s_recording
    /\ ~Refused
    /\ Moves(c, "name")
    /\ raced' = (raced \/ \E d \in Callers : Starting(d)
                       \/ \E v \in VideoTasks : Leaving(v))
    /\ UNCHANGED <<s_recording, s_task, s_stop_waiter, clipVars, notified, video,
                   waiter>>

\* The clip's name; ensure_dir() may then wait for the card.
StartNames(c) ==
    /\ call[c] = "name"
    /\ s_seq \in Clips
    /\ s_path' = s_seq
    /\ s_seq' = s_seq + 1
    /\ Moves(c, "open")
    /\ UNCHANGED <<s_recording, s_task, s_stop_waiter, s_file, open, listed,
                   notified, video, waiter, raced>>

StartOpens(c) ==
    /\ call[c] = "open"
    /\ s_file' = s_path
    /\ open' = open \cup {s_path}
    /\ Moves(c, "arm")
    /\ UNCHANGED <<s_recording, s_task, s_stop_waiter, s_path, s_seq, listed,
                   notified, video, waiter, raced>>

StartCannotOpen(c) ==
    /\ call[c] = "open"
    /\ s_file' = NoOne
    /\ Moves(c, "idle")
    /\ UNCHANGED <<s_recording, s_task, s_stop_waiter, s_path, s_seq, open, listed,
                   notified, video, waiter, raced>>

StartArms(c) ==
    /\ call[c] = "arm"
    /\ s_recording' = TRUE
    /\ Moves(c, "spawn")
    /\ UNCHANGED <<s_task, s_stop_waiter, clipVars, notified, video, waiter, raced>>

\* The video task; FreeRTOS sets the handle before the task can run.
StartSpawns(c, v) ==
    /\ call[c] = "spawn"
    /\ video[v] = "dead"
    /\ s_stop_waiter' = NoOne
    /\ s_task' = v
    /\ Runs(v, "loop")
    /\ Moves(c, Started(c))
    /\ UNCHANGED <<s_recording, clipVars, notified, waiter, raced>>

\* No memory for the task.
StartCannotSpawn(c) ==
    /\ call[c] = "spawn"
    /\ s_stop_waiter' = NoOne
    /\ s_recording' = FALSE
    /\ open' = open \ {s_file}
    /\ s_file' = NoOne
    /\ Moves(c, "idle")
    /\ UNCHANGED <<s_task, s_path, s_seq, listed, notified, video, waiter, raced>>

-----------------------------------------------------------------------------
\* The record task's delay is over.
DurationOver(h) ==
    /\ call[h] = "delay"
    /\ Moves(h, "stop")
    /\ UNCHANGED <<s_recording, s_task, s_stop_waiter, clipVars, notified, video,
                   waiter, raced>>

\* The guard of video_stop(); a helper that has nothing to stop ends.
StopChecks(h) ==
    /\ call[h] = "stop"
    /\ Moves(h, IF s_recording THEN "flag" ELSE "idle")
    /\ notified' = IF s_recording THEN notified ELSE notified \ {h}
    /\ UNCHANGED <<s_recording, s_task, s_stop_waiter, clipVars, video, waiter, raced>>

StopFlags(h) ==
    /\ call[h] = "flag"
    /\ s_stop_waiter' = h
    /\ s_recording' = FALSE
    /\ Moves(h, "drain")
    /\ UNCHANGED <<s_task, clipVars, notified, video, waiter, raced>>

\* A stale notification is thrown away, and so is the video task's own if it has
\* been that quick.
StopDrains(h) ==
    /\ call[h] = "drain"
    /\ notified' = notified \ {h}
    /\ Moves(h, "wait")
    /\ UNCHANGED <<s_recording, s_task, s_stop_waiter, clipVars, video, waiter, raced>>

\* Mutation: the wait has no end of its own.
StopReturnsNotified(h) ==
    /\ call[h] = "wait" /\ h \in notified
    /\ s_stop_waiter' = NoOne
    /\ notified' = notified \ {h}
    /\ Moves(h, "idle")
    /\ UNCHANGED <<s_recording, s_task, clipVars, video, waiter, raced>>

\* Notified, or 5 s are over: the camera driver's call has no timeout of its own.
StopReturns(h) ==
    /\ call[h] = "wait"
    /\ s_stop_waiter' = NoOne
    /\ notified' = notified \ {h}
    /\ Moves(h, "idle")
    /\ UNCHANGED <<s_recording, s_task, clipVars, video, waiter, raced>>

-----------------------------------------------------------------------------
\* One pass of the capture loop up to camera_capture_jpeg(), which may hang.
Loop(v) ==
    /\ video[v] = "loop"
    /\ Runs(v, IF s_recording THEN "capture" ELSE "close")
    /\ UNCHANGED <<s_recording, s_task, s_stop_waiter, clipVars, call, notified,
                   waiter, raced>>

\* Mutation: a bad frame ends the recording.
CapturedEnds(v) ==
    /\ video[v] = "capture"
    /\ Runs(v, "loop")
    /\ s_recording' \in {s_recording, FALSE}
    /\ UNCHANGED <<s_task, s_stop_waiter, clipVars, call, notified, waiter, raced>>

\* The frame goes into s_file and may be cut short, or there was no frame.
Captured(v) ==
    /\ video[v] = "capture"
    /\ Runs(v, "loop")
    /\ UNCHANGED <<s_recording, s_task, s_stop_waiter, clipVars, call, notified,
                   waiter, raced>>

\* Mutation: the handle is dropped, the file is not closed.
CloseForgets(v) ==
    /\ video[v] = "close"
    /\ s_file' = NoOne
    /\ Runs(v, "list")
    /\ UNCHANGED <<s_recording, s_task, s_stop_waiter, s_path, s_seq, open, listed, call,
                   notified, waiter, raced>>

Close(v) ==
    /\ video[v] = "close"
    /\ open' = open \ {s_file}
    /\ s_file' = NoOne
    /\ Runs(v, "list")
    /\ UNCHANGED <<s_recording, s_task, s_stop_waiter, s_path, s_seq, listed, call,
                   notified, waiter, raced>>

\* sd_store_append() of the manifest line, which may fail; then the waiter is read
\* and the handle cleared by the task that owns it.
List(v) ==
    /\ video[v] = "list"
    /\ \/ listed' = [listed EXCEPT ![s_path] = @ + 1]
       \/ UNCHANGED listed
    /\ waiter' = [waiter EXCEPT ![v] = s_stop_waiter]
    /\ s_task' = IF s_task = v THEN NoOne ELSE s_task
    /\ Runs(v, "unset")
    /\ UNCHANGED <<s_recording, s_stop_waiter, s_file, s_path, s_seq, open, call,
                   notified, raced>>

\* "belt-and-braces; video_stop already set this"
Unset(v) ==
    /\ video[v] = "unset"
    /\ s_recording' = FALSE
    /\ Runs(v, "notify")
    /\ UNCHANGED <<s_task, s_stop_waiter, clipVars, call, notified, waiter, raced>>

\* The waiter the task has read, if there is one and it is still there.
Woken(v) == {c \in Callers : c = waiter[v] /\ call[c] # "idle"}

\* Notifies the waiter and ends.
Notify(v) ==
    /\ video[v] = "notify"
    /\ notified' = notified \cup Woken(v)
    /\ waiter' = [waiter EXCEPT ![v] = NoOne]
    /\ Runs(v, "dead")
    /\ UNCHANGED <<s_recording, s_task, s_stop_waiter, clipVars, call, raced>>

-----------------------------------------------------------------------------
VideoInit ==
    /\ s_recording = FALSE
    /\ s_task = NoOne
    /\ s_stop_waiter = NoOne
    /\ s_file = NoOne
    /\ s_path = NoOne
    /\ s_seq = 0
    /\ call = [c \in Callers |-> "idle"]
    /\ notified = {}
    /\ video = [v \in VideoTasks |-> "dead"]
    /\ waiter = [v \in VideoTasks |-> NoOne]
    /\ open = {}
    /\ listed = [k \in Clips |-> 0]
    /\ raced = FALSE

CallerStep(c) ==
    \/ StartIgnored(c) \/ StartFails(c) \/ StartPasses(c) \/ StartNames(c)
    \/ StartOpens(c) \/ StartCannotOpen(c) \/ StartArms(c)
    \/ \E v \in VideoTasks : StartSpawns(c, v)
    \/ StartCannotSpawn(c)

StopStep(h) == StopChecks(h) \/ StopFlags(h) \/ StopDrains(h) \/ StopReturns(h)

VideoStep(v) == Loop(v) \/ Captured(v) \/ Close(v) \/ List(v) \/ Unset(v) \/ Notify(v)

VideoNext ==
    \/ \E c \in Callers : Command(c) \/ CallerStep(c)
    \/ \E h \in Helpers : StopAsync(h) \/ DurationOver(h) \/ StopStep(h)
    \/ \E v \in VideoTasks : VideoStep(v)

VideoSpec == VideoInit /\ [][VideoNext]_videoVars

-----------------------------------------------------------------------------
\* The globals of video_capture.c and the tasks on them.
VideoTypeOK ==
    /\ s_recording \in BOOLEAN
    /\ s_task \in VideoTasks \cup {NoOne}
    /\ s_stop_waiter \in Callers \cup {NoOne}
    /\ s_file \in Clips \cup {NoOne}
    /\ s_path \in Clips \cup {NoOne}
    /\ s_seq \in Nat
    /\ call \in [Callers -> {"idle", "start", "name", "open", "arm", "spawn", "delay",
                             "stop", "flag", "drain", "wait"}]
    /\ notified \subseteq Callers
    /\ video \in [VideoTasks -> {"dead", "loop", "capture", "close", "list", "unset",
                                 "notify"}]
    /\ waiter \in [VideoTasks -> Callers \cup {NoOne}]
    /\ open \subseteq Clips
    /\ listed \in [Clips -> Nat]
    /\ raced \in BOOLEAN

\* "two tasks corrupting each other is worse": unless two starts ran into each other,
\* one video task at most is recording or tearing down, it is the one s_task names,
\* and its file is open for as long as it may write into it, however stops time out
\* and cameras hang.
SoleRecorder ==
    ~raced =>
        \A v \in VideoTasks : (Alive(v) /\ ~Leaving(v)) =>
            /\ s_task = v
            /\ video[v] # "list" => s_file \in open /\ s_file = s_path

\* A manifest line names a clip that is closed, and a clip has one at most: a phone
\* that reads the manifest never fetches a clip that is still being written.
ListedWhenClosed ==
    ~raced => \A k \in Clips : listed[k] > 0 => listed[k] = 1 /\ k \notin open

\* video_stop() and the record task come to an end even when the camera hangs.
StopsReturn == \A h \in Helpers : call[h] = "stop" ~> call[h] = "idle"

\* "single producer (video_stop sets it false)": unless two starts ran into each other, a
\* recording ends by a stop or because its task could not be created; a task that a stop
\* gave up on does not end the recording after its own.
EndedByStop ==
    [][(s_recording /\ ~s_recording' /\ ~raced) =>
        \E c \in Callers : call[c] \in {"flag", "spawn"} /\ call'[c] # call[c]]_videoVars
=============================================================================
