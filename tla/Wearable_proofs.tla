-------------------------- MODULE Wearable_proofs ---------------------------
(***************************************************************************)
(* The pendant's radio window, its video clips and its media card, for any *)
(* set of tasks, clips and files and any number of windows, connections    *)
(* and crashes.                                                            *)
(*                                                                         *)
(* The properties are about one moment of a protocol between tasks: none   *)
(* of them is inductive.  Each is strengthened to say where every task is  *)
(* at each step: what is off already at each step of the suspension        *)
(* (Suspended), which task owns the clip (Owner, ClipFiles), and where the *)
(* line of a file is while the manifest is rewritten (OwedListed).         *)
(***************************************************************************)
EXTENDS VideoCapture, MediaCard, TransferWindow, Filter_proofs

-----------------------------------------------------------------------------
\* The steps of the transfer task at which the link is suspended.
SuspendedSteps ==
    {"adv stop", "terminate", "start", "window", "stop server", "stop wifi", "resume"}

\* The flag follows the transfer task, Wi-Fi is up in the window only, and with each
\* step of the suspension one more thing is off for good.
Suspended ==
    /\ s_suspended <=> transfer \in SuspendedSteps
    /\ wifi => transfer \in {"window", "stop server", "stop wifi"}
    /\ ~slipped /\ s_suspended =>
           /\ host = "idle"
           /\ transfer # "adv stop" => adv = "off"
           /\ transfer \notin {"adv stop", "terminate"} => conn # "up"

\* A counter below its bound can be counted up.
LEMMA CountsUp == \A n \in Nat : \A k \in 0 .. n : k < n => k + 1 \in 0 .. n
  OBVIOUS

\* The type invariant in three parts: the flags, the events, and the rest.
RadioFlags ==
    /\ s_suspended \in BOOLEAN /\ s_conn_handle \in BOOLEAN
    /\ s_audio_subscribed \in BOOLEAN /\ wifi \in BOOLEAN /\ server \in BOOLEAN
    /\ slipped \in BOOLEAN

GapEvents == {"connected", "connect failed", "disconnected", "subscribed", "adv complete"}

RadioEvents == gapEvents \in Seq(GapEvents)

RadioSteps ==
    /\ adv \in {"off", "fast", "slow"}
    /\ conn \in {"none", "up", "ending"}
    /\ host \in {"idle", "restart", "downshift"}
    /\ transfer \in {"none", "stop ambient", "suspend", "adv stop", "terminate", "start",
                     "window", "stop server", "stop wifi", "resume", "adv start",
                     "start ambient"}
    /\ interval \in Intervals \cup {0}
    /\ flushes \in 0 .. MaxFlushes
    /\ connects \in 0 .. MaxConnects

\* A flag is copied, set, cleared or computed.
LEMMA RadioFlagsNext == RadioFlags /\ [RadioNext]_radioVars => RadioFlags'
<1> SUFFICES ASSUME RadioFlags, [RadioNext]_radioVars
             PROVE  RadioFlags'
  OBVIOUS
<1> USE DEF RadioFlags, bleVars, windowVars
<1>1. ASSUME NEW ok \in BOOLEAN, PhoneConnects(ok)
      PROVE  RadioFlags'
  BY <1>1 DEF PhoneConnects, Reports
<1>2. ASSUME NEW seconds \in Intervals, SetInterval(seconds)
      PROVE  RadioFlags'
  BY <1>2 DEF SetInterval
<1>3. CASE PhoneSubscribes
  BY <1>3 DEF PhoneSubscribes, Reports
<1>4. CASE LinkEnds
  BY <1>4 DEF LinkEnds, Reports
<1>5. CASE FastElapses
  BY <1>5 DEF FastElapses, Reports
<1>6. CASE OnConnect
  BY <1>6 DEF OnConnect, Handles
<1>7. CASE OnConnectFailed
  BY <1>7 DEF OnConnectFailed, Handles, AdvertisesAgain
<1>8. CASE OnDisconnected
  BY <1>8 DEF OnDisconnected, Handles, AdvertisesAgain, LinkCleared
<1>9. CASE OnSubscribed
  BY <1>9 DEF OnSubscribed, Handles
<1>10. CASE OnAdvComplete
  BY <1>10 DEF OnAdvComplete, Handles
<1>11. CASE HostRestarts
  BY <1>11 DEF HostRestarts, AdvStarts, AdvBusy
<1>12. CASE HostDownshifts
  BY <1>12 DEF HostDownshifts, AdvStarts, AdvBusy
<1>13. CASE TransferFlush
  BY <1>13 DEF TransferFlush
<1>14. CASE StopAmbient
  BY <1>14 DEF StopAmbient, Window
<1>15. CASE SuspendFlag
  BY <1>15 DEF SuspendFlag, Window
<1>16. CASE SuspendAdv
  BY <1>16 DEF SuspendAdv, Window
<1>17. CASE SuspendConn
  BY <1>17 DEF SuspendConn, Window
<1>18. CASE Start
  BY <1>18 DEF Start
<1>19. CASE WindowOver
  BY <1>19 DEF WindowOver, Window
<1>20. CASE StopServer
  BY <1>20 DEF StopServer, Window
<1>21. CASE StopWifi
  BY <1>21 DEF StopWifi, Window
<1>22. CASE ResumeFlag
  BY <1>22 DEF ResumeFlag, Window
<1>23. CASE ResumeAdv
  BY <1>23 DEF ResumeAdv, ResumeAdvStart, Window, AdvStarts, AdvBusy
<1>24. CASE StartAmbient
  BY <1>24 DEF StartAmbient, Window, DefaultInterval
<1>25. CASE UNCHANGED radioVars
  BY <1>25 DEF radioVars
<1> QED
  BY <1>1, <1>2, <1>3, <1>4, <1>5, <1>6, <1>7, <1>8, <1>9, <1>10, <1>11, <1>12, <1>13,
     <1>14, <1>15, <1>16, <1>17, <1>18, <1>19, <1>20, <1>21, <1>22, <1>23, <1>24, <1>25
     DEF RadioNext, HostStep, TransferStep

\* Every step is to a step of its task, and the bounds are kept.
LEMMA RadioStepsNext == RadioSteps /\ [RadioNext]_radioVars => RadioSteps'
<1> SUFFICES ASSUME RadioSteps, [RadioNext]_radioVars
             PROVE  RadioSteps'
  OBVIOUS
<1> USE WindowAssumption DEF RadioSteps, bleVars, windowVars
<1>1. ASSUME NEW ok \in BOOLEAN, PhoneConnects(ok)
      PROVE  RadioSteps'
  <2>1. connects' \in 0 .. MaxConnects
    BY <1>1, CountsUp, Zenon DEF PhoneConnects
  <2>2. conn' \in {"none", "up"} /\ adv' = "off"
    BY <1>1 DEF PhoneConnects
  <2>3. UNCHANGED <<host, transfer, interval, flushes>>
    BY <1>1 DEF PhoneConnects
  <2> QED
    BY <2>1, <2>2, <2>3
<1>2. ASSUME NEW seconds \in Intervals, SetInterval(seconds)
      PROVE  RadioSteps'
  BY <1>2 DEF SetInterval
<1>3. CASE PhoneSubscribes
  BY <1>3 DEF PhoneSubscribes, Reports
<1>4. CASE LinkEnds
  BY <1>4 DEF LinkEnds, Reports
<1>5. CASE FastElapses
  BY <1>5 DEF FastElapses, Reports
<1>6. CASE OnConnect
  BY <1>6 DEF OnConnect, Handles
<1>7. CASE OnConnectFailed
  BY <1>7 DEF OnConnectFailed, Handles, AdvertisesAgain
<1>8. CASE OnDisconnected
  BY <1>8 DEF OnDisconnected, Handles, AdvertisesAgain, LinkCleared
<1>9. CASE OnSubscribed
  BY <1>9 DEF OnSubscribed, Handles
<1>10. CASE OnAdvComplete
  BY <1>10 DEF OnAdvComplete, Handles
<1>11. CASE HostRestarts
  BY <1>11 DEF HostRestarts, AdvStarts, AdvBusy
<1>12. CASE HostDownshifts
  BY <1>12 DEF HostDownshifts, AdvStarts, AdvBusy
<1>13. CASE TransferFlush
  <2>1. flushes' \in 0 .. MaxFlushes
    BY <1>13, CountsUp, Zenon DEF TransferFlush
  <2>2. transfer' \in {transfer, "stop ambient"}
    BY <1>13 DEF TransferFlush
  <2>3. UNCHANGED <<adv, conn, host, interval, connects>>
    BY <1>13 DEF TransferFlush
  <2> QED
    BY <2>1, <2>2, <2>3
<1>14. CASE StopAmbient
  BY <1>14 DEF StopAmbient, Window
<1>15. CASE SuspendFlag
  BY <1>15 DEF SuspendFlag, Window
<1>16. CASE SuspendAdv
  BY <1>16 DEF SuspendAdv, Window
<1>17. CASE SuspendConn
  BY <1>17 DEF SuspendConn, Window
<1>18. CASE Start
  BY <1>18 DEF Start
<1>19. CASE WindowOver
  BY <1>19 DEF WindowOver, Window
<1>20. CASE StopServer
  BY <1>20 DEF StopServer, Window
<1>21. CASE StopWifi
  BY <1>21 DEF StopWifi, Window
<1>22. CASE ResumeFlag
  BY <1>22 DEF ResumeFlag, Window
<1>23. CASE ResumeAdv
  BY <1>23 DEF ResumeAdv, ResumeAdvStart, Window, AdvStarts, AdvBusy
<1>24. CASE StartAmbient
  BY <1>24 DEF StartAmbient, Window, DefaultInterval
<1>25. CASE UNCHANGED radioVars
  BY <1>25 DEF radioVars
<1> QED
  BY <1>1, <1>2, <1>3, <1>4, <1>5, <1>6, <1>7, <1>8, <1>9, <1>10, <1>11, <1>12, <1>13,
     <1>14, <1>15, <1>16, <1>17, <1>18, <1>19, <1>20, <1>21, <1>22, <1>23, <1>24, <1>25
     DEF RadioNext, HostStep, TransferStep

\* An event is appended or taken off.
LEMMA RadioEventsNext == RadioEvents /\ [RadioNext]_radioVars => RadioEvents'
<1> SUFFICES ASSUME RadioEvents, [RadioNext]_radioVars
             PROVE  RadioEvents'
  OBVIOUS
<1> USE DEF bleVars
<1>1. CASE \E e \in GapEvents : Reports(e)
  BY <1>1 DEF RadioEvents, Reports
<1>2. CASE \E e \in GapEvents : Handles(e)
  BY <1>2 DEF RadioEvents, Handles
<1>3. CASE UNCHANGED gapEvents
  BY <1>3 DEF RadioEvents
<1>4. (\E ok \in BOOLEAN : PhoneConnects(ok)) \/ PhoneSubscribes \/ LinkEnds \/ FastElapses
          => \E e \in GapEvents : Reports(e)
  BY DEF PhoneConnects, PhoneSubscribes, LinkEnds, FastElapses, GapEvents
<1>5. OnConnect \/ OnConnectFailed \/ OnDisconnected \/ OnSubscribed \/ OnAdvComplete
          => \E e \in GapEvents : Handles(e)
  BY
     DEF OnConnect, OnConnectFailed, OnDisconnected, OnSubscribed, OnAdvComplete,
         GapEvents
<1>6. HostRestarts \/ HostDownshifts => UNCHANGED gapEvents
  BY DEF HostRestarts, HostDownshifts
<1>7. TransferFlush \/ (\E seconds \in Intervals : SetInterval(seconds)) => UNCHANGED gapEvents
  BY DEF TransferFlush, SetInterval
<1>8. TransferStep => UNCHANGED gapEvents
  BY
     DEF TransferStep, StopAmbient, SuspendFlag, SuspendAdv, SuspendConn, Start,
         WindowOver,
         StopServer, StopWifi, ResumeFlag, ResumeAdv, StartAmbient
<1>9. UNCHANGED radioVars => UNCHANGED gapEvents
  BY DEF radioVars
<1> QED
  BY <1>1, <1>2, <1>3, <1>4, <1>5, <1>6, <1>7, <1>8, <1>9 DEF RadioNext, HostStep

\* The link, the window and the timer keep their types.
LEMMA RadioTypeNext == RadioTypeOK /\ [RadioNext]_radioVars => RadioTypeOK'
<1>1. RadioTypeOK <=> RadioFlags /\ RadioEvents /\ RadioSteps
  BY DEF RadioTypeOK, RadioFlags, RadioEvents, RadioSteps, GapEvents
<1>2. RadioTypeOK' <=> RadioFlags' /\ RadioEvents' /\ RadioSteps'
  BY DEF RadioTypeOK, RadioFlags, RadioEvents, RadioSteps, GapEvents
<1> QED
  BY <1>1, <1>2, RadioFlagsNext, RadioEventsNext, RadioStepsNext

\* Nothing the controller reports undoes a step of the suspension: gap_event() reads
\* the flag before it decides to advertise, and a phone cannot connect to a pendant
\* that does not advertise.
LEMMA SuspendedNext == RadioTypeOK /\ Suspended /\ [RadioNext]_radioVars => Suspended'
<1> SUFFICES ASSUME RadioTypeOK, Suspended, [RadioNext]_radioVars
             PROVE  Suspended'
  OBVIOUS
<1> USE DEF RadioTypeOK, Suspended, SuspendedSteps, bleVars, windowVars
<1>1. ASSUME NEW ok \in BOOLEAN, PhoneConnects(ok)
      PROVE  Suspended'
  BY <1>1 DEF PhoneConnects, Reports
<1>2. ASSUME NEW seconds \in Intervals, SetInterval(seconds)
      PROVE  Suspended'
  BY <1>2 DEF SetInterval
<1>3. CASE PhoneSubscribes
  BY <1>3 DEF PhoneSubscribes, Reports
<1>4. CASE LinkEnds
  BY <1>4 DEF LinkEnds, Reports
<1>5. CASE FastElapses
  BY <1>5 DEF FastElapses, Reports
<1>6. CASE OnConnect
  BY <1>6 DEF OnConnect, Handles
<1>7. CASE OnConnectFailed
  BY <1>7 DEF OnConnectFailed, Handles, AdvertisesAgain
<1>8. CASE OnDisconnected
  BY <1>8 DEF OnDisconnected, Handles, AdvertisesAgain, LinkCleared
<1>9. CASE OnSubscribed
  BY <1>9 DEF OnSubscribed, Handles
<1>10. CASE OnAdvComplete
  BY <1>10 DEF OnAdvComplete, Handles
<1>11. CASE HostRestarts
  BY <1>11 DEF HostRestarts, AdvStarts, AdvBusy
<1>12. CASE HostDownshifts
  BY <1>12 DEF HostDownshifts, AdvStarts, AdvBusy
<1>13. CASE TransferFlush
  BY <1>13 DEF TransferFlush
<1>14. CASE StopAmbient
  BY <1>14 DEF StopAmbient, Window
<1>15. CASE SuspendFlag
  BY <1>15 DEF SuspendFlag, Window
<1>16. CASE SuspendAdv
  BY <1>16 DEF SuspendAdv, Window
<1>17. CASE SuspendConn
  BY <1>17 DEF SuspendConn, Window
<1>18. CASE Start
  BY <1>18 DEF Start
<1>19. CASE WindowOver
  BY <1>19 DEF WindowOver, Window
<1>20. CASE StopServer
  BY <1>20 DEF StopServer, Window
<1>21. CASE StopWifi
  BY <1>21 DEF StopWifi, Window
<1>22. CASE ResumeFlag
  BY <1>22 DEF ResumeFlag, Window
<1>23. CASE ResumeAdv
  BY <1>23 DEF ResumeAdv, ResumeAdvStart, Window, AdvStarts, AdvBusy
<1>24. CASE StartAmbient
  BY <1>24 DEF StartAmbient, Window, DefaultInterval
<1>25. CASE UNCHANGED radioVars
  BY <1>25 DEF radioVars
<1> QED
  BY <1>1, <1>2, <1>3, <1>4, <1>5, <1>6, <1>7, <1>8, <1>9, <1>10, <1>11, <1>12, <1>13,
     <1>14, <1>15, <1>16, <1>17, <1>18, <1>19, <1>20, <1>21, <1>22, <1>23, <1>24, <1>25
     DEF RadioNext, HostStep, TransferStep

\* The type invariant and the course of the suspension hold of every behaviour.
LEMMA RadioInv == RadioSpec => [](RadioTypeOK /\ Suspended)
<1>1. RadioInit => RadioTypeOK
  <2> HAVE RadioInit
  <2>1. flushes \in 0 .. MaxFlushes /\ connects \in 0 .. MaxConnects
        /\ interval \in Intervals \cup {0}
    BY WindowAssumption DEF RadioInit, DefaultInterval
  <2>2. RadioFlags
    BY DEF RadioInit, RadioFlags
  <2>3. RadioEvents
    BY DEF RadioInit, RadioEvents
  <2>4. RadioSteps
    BY <2>1 DEF RadioInit, RadioSteps
  <2> QED
    BY <2>2, <2>3, <2>4 DEF RadioTypeOK, RadioFlags, RadioEvents, RadioSteps, GapEvents
<1>2. RadioInit => Suspended
  BY DEF RadioInit, Suspended, SuspendedSteps
<1> QED
  BY <1>1, <1>2, RadioTypeNext, SuspendedNext, PTL DEF RadioSpec

\* The radio, the window and the timer have their types, for any intervals and any
\* number of windows and connections.
THEOREM RadioTypeCorrect == RadioSpec => []RadioTypeOK
  BY RadioInv, PTL

\* While Wi-Fi has the radio, BLE is silent: no order of disconnections, failed
\* connections and ends of advertising phases makes gap_event() advertise again.
THEOREM WindowIsQuiet == RadioSpec => []QuietWindow
<1>1. RadioTypeOK /\ Suspended => QuietWindow
  BY DEF RadioTypeOK, Suspended, SuspendedSteps, QuietWindow
<1> QED
  BY <1>1, RadioInv, PTL

-----------------------------------------------------------------------------
\* The task records or tears down: it owns the clip.
Records(v) == video[v] \in {"loop", "capture", "close", "list"}

\* Unless two starts ran into each other, one start is under way at most, and only
\* while no video task is alive; a task that records is the one s_task names, and from
\* the end of its loop on nothing sets s_recording again.
Owner ==
    ~raced =>
        /\ \A c, d \in Callers : Starting(c) /\ Starting(d) => c = d
        /\ \A c \in Callers : Starting(c) => \A v \in VideoTasks : video[v] = "dead"
        /\ \A v \in VideoTasks : Records(v) => s_task = v
        /\ \A v \in VideoTasks :
               video[v] \in {"close", "list", "unset", "notify"} => ~s_recording

\* A clip is named once: no line is of a clip that comes later.
ClipNumbers ==
    /\ s_path \in Clips => s_path < s_seq
    /\ \A k \in Clips : k >= s_seq => listed[k] = 0
    /\ \A c \in Callers : call[c] \in {"open", "arm", "spawn"} => s_path \in Clips
    /\ \A v \in VideoTasks : Records(v) => s_path \in Clips

\* A caller or a task that has the clip's file open.
HoldsFile(c) == call[c] \in {"arm", "spawn"}
WritesClip(v) == video[v] \in {"loop", "capture", "close"}

\* The one open file is that of the clip under way, which is not listed yet.
ClipFiles ==
    ~raced =>
        /\ \A c \in Callers : HoldsFile(c) => s_file = s_path /\ open = {s_path}
        /\ \A v \in VideoTasks : WritesClip(v) => s_file = s_path /\ open = {s_path}
        /\ open # {} => \/ \E c \in Callers : HoldsFile(c)
                        \/ \E v \in VideoTasks : WritesClip(v)
        /\ \A c \in Callers : call[c] \in {"open", "arm", "spawn"} => listed[s_path] = 0
        /\ \A v \in VideoTasks : Records(v) => listed[s_path] = 0
        /\ \A k \in Clips : listed[k] > 0 => listed[k] = 1 /\ k \notin open

\* The type invariant in two parts: the flags, and the rest.
VideoFlags == s_recording \in BOOLEAN /\ raced \in BOOLEAN

VideoRest ==
    /\ s_task \in VideoTasks \cup {NoOne}
    /\ s_stop_waiter \in Callers \cup {NoOne}
    /\ s_file \in Clips \cup {NoOne}
    /\ s_path \in Clips \cup {NoOne}
    /\ s_seq \in Nat
    /\ call \in [Callers -> {"idle", "start", "name", "open", "arm", "spawn", "delay",
                             "stop", "flag", "drain", "wait"}]
    /\ notified \subseteq Callers
    /\ video \in [VideoTasks -> {"dead", "loop", "capture", "close", "list", "unset",
                                 "notify"}]
    /\ waiter \in [VideoTasks -> Callers \cup {NoOne}]
    /\ open \subseteq Clips
    /\ listed \in [Clips -> Nat]

\* A flag is copied, set, cleared or computed.
LEMMA VideoFlagsNext == VideoFlags /\ [VideoNext]_videoVars => VideoFlags'
<1> SUFFICES ASSUME VideoFlags, [VideoNext]_videoVars
             PROVE  VideoFlags'
  OBVIOUS
<1> USE DEF VideoFlags
<1>1. ASSUME NEW c \in Callers, Command(c)
      PROVE  VideoFlags'
  BY <1>1 DEF Command, Moves
<1>2. ASSUME NEW c \in Callers, StartIgnored(c)
      PROVE  VideoFlags'
  BY <1>2 DEF StartIgnored, Moves, Started
<1>3. ASSUME NEW c \in Callers, StartFails(c)
      PROVE  VideoFlags'
  BY <1>3 DEF StartFails, Moves
<1>4. ASSUME NEW c \in Callers, StartPasses(c)
      PROVE  VideoFlags'
  BY <1>4 DEF StartPasses, Refused, Moves
<1>5. ASSUME NEW c \in Callers, StartNames(c)
      PROVE  VideoFlags'
  BY <1>5 DEF StartNames, Moves
<1>6. ASSUME NEW c \in Callers, StartOpens(c)
      PROVE  VideoFlags'
  BY <1>6 DEF StartOpens, Moves
<1>7. ASSUME NEW c \in Callers, StartCannotOpen(c)
      PROVE  VideoFlags'
  BY <1>7 DEF StartCannotOpen, Moves
<1>8. ASSUME NEW c \in Callers, StartArms(c)
      PROVE  VideoFlags'
  BY <1>8 DEF StartArms, Moves
<1>9. ASSUME NEW c \in Callers, NEW v \in VideoTasks, StartSpawns(c, v)
      PROVE  VideoFlags'
  BY <1>9 DEF StartSpawns, Moves, Runs, Started
<1>10. ASSUME NEW c \in Callers, StartCannotSpawn(c)
       PROVE  VideoFlags'
  BY <1>10 DEF StartCannotSpawn, Moves
<1>11. ASSUME NEW h \in Helpers, StopAsync(h)
       PROVE  VideoFlags'
  BY <1>11 DEF StopAsync, Moves
<1>12. ASSUME NEW h \in Helpers, DurationOver(h)
       PROVE  VideoFlags'
  BY <1>12 DEF DurationOver, Moves
<1>13. ASSUME NEW h \in Helpers, StopChecks(h)
       PROVE  VideoFlags'
  BY <1>13 DEF StopChecks, Moves
<1>14. ASSUME NEW h \in Helpers, StopFlags(h)
       PROVE  VideoFlags'
  BY <1>14 DEF StopFlags, Moves
<1>15. ASSUME NEW h \in Helpers, StopDrains(h)
       PROVE  VideoFlags'
  BY <1>15 DEF StopDrains, Moves
<1>16. ASSUME NEW h \in Helpers, StopReturns(h)
       PROVE  VideoFlags'
  BY <1>16 DEF StopReturns, Moves
<1>17. ASSUME NEW v \in VideoTasks, Loop(v)
       PROVE  VideoFlags'
  BY <1>17 DEF Loop, Runs
<1>18. ASSUME NEW v \in VideoTasks, Captured(v)
       PROVE  VideoFlags'
  BY <1>18 DEF Captured, Runs
<1>19. ASSUME NEW v \in VideoTasks, Close(v)
       PROVE  VideoFlags'
  BY <1>19 DEF Close, Runs
<1>20. ASSUME NEW v \in VideoTasks, List(v)
       PROVE  VideoFlags'
  BY <1>20 DEF List, Runs
<1>21. ASSUME NEW v \in VideoTasks, Unset(v)
       PROVE  VideoFlags'
  BY <1>21 DEF Unset, Runs
<1>22. ASSUME NEW v \in VideoTasks, Notify(v)
       PROVE  VideoFlags'
  BY <1>22 DEF Notify, Runs
<1>23. CASE UNCHANGED videoVars
  BY <1>23 DEF videoVars
<1> QED
  BY <1>1, <1>2, <1>3, <1>4, <1>5, <1>6, <1>7, <1>8, <1>9, <1>10, <1>11, <1>12, <1>13,
     <1>14, <1>15, <1>16, <1>17, <1>18, <1>19, <1>20, <1>21, <1>22, <1>23 DEF VideoNext,
     CallerStep, StopStep, VideoStep

\* A file is opened only once its clip has a name.
LEMMA VideoRestNext == VideoRest /\ ClipNumbers /\ [VideoNext]_videoVars => VideoRest'
<1> SUFFICES ASSUME VideoRest, ClipNumbers, [VideoNext]_videoVars
             PROVE  VideoRest'
  OBVIOUS
<1> USE VideoAssumption DEF VideoRest, clipVars, Callers
<1>1. ASSUME NEW c \in Callers, Command(c)
      PROVE  VideoRest'
  BY <1>1 DEF Command, Moves
<1>2. ASSUME NEW c \in Callers, StartIgnored(c)
      PROVE  VideoRest'
  BY <1>2 DEF StartIgnored, Moves, Started
<1>3. ASSUME NEW c \in Callers, StartFails(c)
      PROVE  VideoRest'
  BY <1>3 DEF StartFails, Moves
<1>4. ASSUME NEW c \in Callers, StartPasses(c)
      PROVE  VideoRest'
  BY <1>4 DEF StartPasses, Refused, Moves
<1>5. ASSUME NEW c \in Callers, StartNames(c)
      PROVE  VideoRest'
  BY <1>5 DEF StartNames, Moves
<1>6. ASSUME NEW c \in Callers, StartOpens(c)
      PROVE  VideoRest'
  BY <1>6 DEF StartOpens, Moves, ClipNumbers
<1>7. ASSUME NEW c \in Callers, StartCannotOpen(c)
      PROVE  VideoRest'
  BY <1>7 DEF StartCannotOpen, Moves
<1>8. ASSUME NEW c \in Callers, StartArms(c)
      PROVE  VideoRest'
  BY <1>8 DEF StartArms, Moves
<1>9. ASSUME NEW c \in Callers, NEW v \in VideoTasks, StartSpawns(c, v)
      PROVE  VideoRest'
  BY <1>9 DEF StartSpawns, Moves, Runs, Started
<1>10. ASSUME NEW c \in Callers, StartCannotSpawn(c)
       PROVE  VideoRest'
  BY <1>10 DEF StartCannotSpawn, Moves
<1>11. ASSUME NEW h \in Helpers, StopAsync(h)
       PROVE  VideoRest'
  BY <1>11 DEF StopAsync, Moves
<1>12. ASSUME NEW h \in Helpers, DurationOver(h)
       PROVE  VideoRest'
  BY <1>12 DEF DurationOver, Moves
<1>13. ASSUME NEW h \in Helpers, StopChecks(h)
       PROVE  VideoRest'
  BY <1>13 DEF StopChecks, Moves
<1>14. ASSUME NEW h \in Helpers, StopFlags(h)
       PROVE  VideoRest'
  BY <1>14 DEF StopFlags, Moves
<1>15. ASSUME NEW h \in Helpers, StopDrains(h)
       PROVE  VideoRest'
  BY <1>15 DEF StopDrains, Moves
<1>16. ASSUME NEW h \in Helpers, StopReturns(h)
       PROVE  VideoRest'
  BY <1>16 DEF StopReturns, Moves
<1>17. ASSUME NEW v \in VideoTasks, Loop(v)
       PROVE  VideoRest'
  BY <1>17 DEF Loop, Runs
<1>18. ASSUME NEW v \in VideoTasks, Captured(v)
       PROVE  VideoRest'
  BY <1>18 DEF Captured, Runs
<1>19. ASSUME NEW v \in VideoTasks, Close(v)
       PROVE  VideoRest'
  BY <1>19 DEF Close, Runs
<1>20. ASSUME NEW v \in VideoTasks, List(v)
       PROVE  VideoRest'
  BY <1>20 DEF List, Runs
<1>21. ASSUME NEW v \in VideoTasks, Unset(v)
       PROVE  VideoRest'
  BY <1>21 DEF Unset, Runs
<1>22. ASSUME NEW v \in VideoTasks, Notify(v)
       PROVE  VideoRest'
  BY <1>22 DEF Notify, Runs, Woken
<1>23. CASE UNCHANGED videoVars
  BY <1>23 DEF videoVars
<1> QED
  BY <1>1, <1>2, <1>3, <1>4, <1>5, <1>6, <1>7, <1>8, <1>9, <1>10, <1>11, <1>12, <1>13,
     <1>14, <1>15, <1>16, <1>17, <1>18, <1>19, <1>20, <1>21, <1>22, <1>23 DEF VideoNext,
     CallerStep, StopStep, VideoStep

\* Names are handed out in order, and a line is of the clip named last.
LEMMA ClipNumbersNext == VideoRest /\ ClipNumbers /\ [VideoNext]_videoVars => ClipNumbers'
<1> SUFFICES ASSUME VideoRest, ClipNumbers, [VideoNext]_videoVars
             PROVE  ClipNumbers'
  OBVIOUS
<1> USE VideoAssumption DEF VideoRest, clipVars, Callers, ClipNumbers, Records
<1>1. ASSUME NEW c \in Callers, Command(c)
      PROVE  ClipNumbers'
  BY <1>1 DEF Command, Moves
<1>2. ASSUME NEW c \in Callers, StartIgnored(c)
      PROVE  ClipNumbers'
  BY <1>2 DEF StartIgnored, Moves, Started
<1>3. ASSUME NEW c \in Callers, StartFails(c)
      PROVE  ClipNumbers'
  BY <1>3 DEF StartFails, Moves
<1>4. ASSUME NEW c \in Callers, StartPasses(c)
      PROVE  ClipNumbers'
  BY <1>4 DEF StartPasses, Refused, Moves
<1>5. ASSUME NEW c \in Callers, StartNames(c)
      PROVE  ClipNumbers'
  BY <1>5 DEF StartNames, Moves
<1>6. ASSUME NEW c \in Callers, StartOpens(c)
      PROVE  ClipNumbers'
  BY <1>6 DEF StartOpens, Moves
<1>7. ASSUME NEW c \in Callers, StartCannotOpen(c)
      PROVE  ClipNumbers'
  BY <1>7 DEF StartCannotOpen, Moves
<1>8. ASSUME NEW c \in Callers, StartArms(c)
      PROVE  ClipNumbers'
  BY <1>8 DEF StartArms, Moves
<1>9. ASSUME NEW c \in Callers, NEW v \in VideoTasks, StartSpawns(c, v)
      PROVE  ClipNumbers'
  BY <1>9 DEF StartSpawns, Moves, Runs, Started
<1>10. ASSUME NEW c \in Callers, StartCannotSpawn(c)
       PROVE  ClipNumbers'
  BY <1>10 DEF StartCannotSpawn, Moves
<1>11. ASSUME NEW h \in Helpers, StopAsync(h)
       PROVE  ClipNumbers'
  BY <1>11 DEF StopAsync, Moves
<1>12. ASSUME NEW h \in Helpers, DurationOver(h)
       PROVE  ClipNumbers'
  BY <1>12 DEF DurationOver, Moves
<1>13. ASSUME NEW h \in Helpers, StopChecks(h)
       PROVE  ClipNumbers'
  BY <1>13 DEF StopChecks, Moves
<1>14. ASSUME NEW h \in Helpers, StopFlags(h)
       PROVE  ClipNumbers'
  BY <1>14 DEF StopFlags, Moves
<1>15. ASSUME NEW h \in Helpers, StopDrains(h)
       PROVE  ClipNumbers'
  BY <1>15 DEF StopDrains, Moves
<1>16. ASSUME NEW h \in Helpers, StopReturns(h)
       PROVE  ClipNumbers'
  BY <1>16 DEF StopReturns, Moves
<1>17. ASSUME NEW v \in VideoTasks, Loop(v)
       PROVE  ClipNumbers'
  BY <1>17 DEF Loop, Runs
<1>18. ASSUME NEW v \in VideoTasks, Captured(v)
       PROVE  ClipNumbers'
  BY <1>18 DEF Captured, Runs
<1>19. ASSUME NEW v \in VideoTasks, Close(v)
       PROVE  ClipNumbers'
  BY <1>19 DEF Close, Runs
<1>20. ASSUME NEW v \in VideoTasks, List(v)
       PROVE  ClipNumbers'
  BY <1>20 DEF List, Runs
<1>21. ASSUME NEW v \in VideoTasks, Unset(v)
       PROVE  ClipNumbers'
  BY <1>21 DEF Unset, Runs
<1>22. ASSUME NEW v \in VideoTasks, Notify(v)
       PROVE  ClipNumbers'
  BY <1>22 DEF Notify, Runs
<1>23. CASE UNCHANGED videoVars
  BY <1>23 DEF videoVars
<1> QED
  BY <1>1, <1>2, <1>3, <1>4, <1>5, <1>6, <1>7, <1>8, <1>9, <1>10, <1>11, <1>12, <1>13,
     <1>14, <1>15, <1>16, <1>17, <1>18, <1>19, <1>20, <1>21, <1>22, <1>23 DEF VideoNext,
     CallerStep, StopStep, VideoStep

\* Nothing but two starts that run into each other takes the clip from its task.
LEMMA OwnerNext == VideoFlags /\ VideoRest /\ Owner /\ [VideoNext]_videoVars => Owner'
<1> SUFFICES ASSUME VideoFlags, VideoRest, Owner, [VideoNext]_videoVars
             PROVE  Owner'
  OBVIOUS
<1> USE VideoAssumption DEF VideoFlags, VideoRest, clipVars, Callers, Owner, Records, Starting
<1>1. ASSUME NEW c \in Callers, Command(c)
      PROVE  Owner'
  BY <1>1 DEF Command, Moves
<1>2. ASSUME NEW c \in Callers, StartIgnored(c)
      PROVE  Owner'
  BY <1>2 DEF StartIgnored, Moves, Started
<1>3. ASSUME NEW c \in Callers, StartFails(c)
      PROVE  Owner'
  BY <1>3 DEF StartFails, Moves
<1>4. ASSUME NEW c \in Callers, StartPasses(c)
      PROVE  Owner'
  <2> SUFFICES ASSUME ~raced'
               PROVE  Owner'
    BY DEF Owner
  <2>1. c \in Callers /\ ~raced /\ \A d \in Callers : ~Starting(d)
    BY <1>4 DEF StartPasses
  <2>2. \A v \in VideoTasks : ~Leaving(v)
    BY <1>4, <2>1 DEF StartPasses
  <2>3. s_task = NoOne /\ ~s_recording
    BY <1>4 DEF StartPasses, Refused
  <2>4. \A v \in VideoTasks : video[v] = "dead"
    BY <2>1, <2>2, <2>3 DEF Leaving
  <2>5. \A d \in Callers : Starting(d)' => d = c
    BY <1>4, <2>1 DEF StartPasses, Moves
  <2>6. UNCHANGED <<s_task, s_recording, video>>
    BY <1>4 DEF StartPasses
  <2> QED
    BY <2>4, <2>5, <2>6
<1>5. ASSUME NEW c \in Callers, StartNames(c)
      PROVE  Owner'
  BY <1>5 DEF StartNames, Moves
<1>6. ASSUME NEW c \in Callers, StartOpens(c)
      PROVE  Owner'
  BY <1>6 DEF StartOpens, Moves
<1>7. ASSUME NEW c \in Callers, StartCannotOpen(c)
      PROVE  Owner'
  BY <1>7 DEF StartCannotOpen, Moves
<1>8. ASSUME NEW c \in Callers, StartArms(c)
      PROVE  Owner'
  BY <1>8 DEF StartArms, Moves
<1>9. ASSUME NEW c \in Callers, NEW v \in VideoTasks, StartSpawns(c, v)
      PROVE  Owner'
  BY <1>9 DEF StartSpawns, Moves, Runs, Started
<1>10. ASSUME NEW c \in Callers, StartCannotSpawn(c)
       PROVE  Owner'
  BY <1>10 DEF StartCannotSpawn, Moves
<1>11. ASSUME NEW h \in Helpers, StopAsync(h)
       PROVE  Owner'
  BY <1>11 DEF StopAsync, Moves
<1>12. ASSUME NEW h \in Helpers, DurationOver(h)
       PROVE  Owner'
  BY <1>12 DEF DurationOver, Moves
<1>13. ASSUME NEW h \in Helpers, StopChecks(h)
       PROVE  Owner'
  BY <1>13 DEF StopChecks, Moves
<1>14. ASSUME NEW h \in Helpers, StopFlags(h)
       PROVE  Owner'
  BY <1>14 DEF StopFlags, Moves
<1>15. ASSUME NEW h \in Helpers, StopDrains(h)
       PROVE  Owner'
  BY <1>15 DEF StopDrains, Moves
<1>16. ASSUME NEW h \in Helpers, StopReturns(h)
       PROVE  Owner'
  BY <1>16 DEF StopReturns, Moves
<1>17. ASSUME NEW v \in VideoTasks, Loop(v)
       PROVE  Owner'
  BY <1>17 DEF Loop, Runs
<1>18. ASSUME NEW v \in VideoTasks, Captured(v)
       PROVE  Owner'
  BY <1>18 DEF Captured, Runs
<1>19. ASSUME NEW v \in VideoTasks, Close(v)
       PROVE  Owner'
  BY <1>19 DEF Close, Runs
<1>20. ASSUME NEW v \in VideoTasks, List(v)
       PROVE  Owner'
  BY <1>20 DEF List, Runs
<1>21. ASSUME NEW v \in VideoTasks, Unset(v)
       PROVE  Owner'
  BY <1>21 DEF Unset, Runs
<1>22. ASSUME NEW v \in VideoTasks, Notify(v)
       PROVE  Owner'
  BY <1>22 DEF Notify, Runs
<1>23. CASE UNCHANGED videoVars
  BY <1>23 DEF videoVars
<1> QED
  BY <1>1, <1>2, <1>3, <1>4, <1>5, <1>6, <1>7, <1>8, <1>9, <1>10, <1>11, <1>12, <1>13,
     <1>14, <1>15, <1>16, <1>17, <1>18, <1>19, <1>20, <1>21, <1>22, <1>23 DEF VideoNext,
     CallerStep, StopStep, VideoStep

\* The clip keeps its file from its start to its end, and is listed after that.
LEMMA ClipFilesNext ==
    VideoFlags /\ VideoRest /\ ClipNumbers /\ Owner /\ ClipFiles /\ [VideoNext]_videoVars
    => ClipFiles'
<1> SUFFICES ASSUME VideoFlags, VideoRest, ClipNumbers, Owner, ClipFiles, [VideoNext]_videoVars
             PROVE  ClipFiles'
  OBVIOUS
<1> USE VideoAssumption DEF VideoFlags, VideoRest, clipVars, Callers, Owner, Records, Starting,
        ClipNumbers, ClipFiles, HoldsFile, WritesClip
<1>1. ASSUME NEW c \in Callers, Command(c)
      PROVE  ClipFiles'
  BY <1>1 DEF Command, Moves
<1>2. ASSUME NEW c \in Callers, StartIgnored(c)
      PROVE  ClipFiles'
  BY <1>2 DEF StartIgnored, Moves, Started
<1>3. ASSUME NEW c \in Callers, StartFails(c)
      PROVE  ClipFiles'
  BY <1>3 DEF StartFails, Moves
<1>4. ASSUME NEW c \in Callers, StartPasses(c)
      PROVE  ClipFiles'
  BY <1>4 DEF StartPasses, Refused, Moves
<1>5. ASSUME NEW c \in Callers, StartNames(c)
      PROVE  ClipFiles'
  BY <1>5 DEF StartNames, Moves
<1>6. ASSUME NEW c \in Callers, StartOpens(c)
      PROVE  ClipFiles'
  BY <1>6 DEF StartOpens, Moves
<1>7. ASSUME NEW c \in Callers, StartCannotOpen(c)
      PROVE  ClipFiles'
  BY <1>7 DEF StartCannotOpen, Moves
<1>8. ASSUME NEW c \in Callers, StartArms(c)
      PROVE  ClipFiles'
  BY <1>8 DEF StartArms, Moves
<1>9. ASSUME NEW c \in Callers, NEW v \in VideoTasks, StartSpawns(c, v)
      PROVE  ClipFiles'
  BY <1>9 DEF StartSpawns, Moves, Runs, Started
<1>10. ASSUME NEW c \in Callers, StartCannotSpawn(c)
       PROVE  ClipFiles'
  BY <1>10 DEF StartCannotSpawn, Moves
<1>11. ASSUME NEW h \in Helpers, StopAsync(h)
       PROVE  ClipFiles'
  BY <1>11 DEF StopAsync, Moves
<1>12. ASSUME NEW h \in Helpers, DurationOver(h)
       PROVE  ClipFiles'
  BY <1>12 DEF DurationOver, Moves
<1>13. ASSUME NEW h \in Helpers, StopChecks(h)
       PROVE  ClipFiles'
  BY <1>13 DEF StopChecks, Moves
<1>14. ASSUME NEW h \in Helpers, StopFlags(h)
       PROVE  ClipFiles'
  BY <1>14 DEF StopFlags, Moves
<1>15. ASSUME NEW h \in Helpers, StopDrains(h)
       PROVE  ClipFiles'
  BY <1>15 DEF StopDrains, Moves
<1>16. ASSUME NEW h \in Helpers, StopReturns(h)
       PROVE  ClipFiles'
  BY <1>16 DEF StopReturns, Moves
<1>17. ASSUME NEW v \in VideoTasks, Loop(v)
       PROVE  ClipFiles'
  BY <1>17 DEF Loop, Runs
<1>18. ASSUME NEW v \in VideoTasks, Captured(v)
       PROVE  ClipFiles'
  BY <1>18 DEF Captured, Runs
<1>19. ASSUME NEW v \in VideoTasks, Close(v)
       PROVE  ClipFiles'
  BY <1>19 DEF Close, Runs
<1>20. ASSUME NEW v \in VideoTasks, List(v)
       PROVE  ClipFiles'
  BY <1>20 DEF List, Runs
<1>21. ASSUME NEW v \in VideoTasks, Unset(v)
       PROVE  ClipFiles'
  BY <1>21 DEF Unset, Runs
<1>22. ASSUME NEW v \in VideoTasks, Notify(v)
       PROVE  ClipFiles'
  BY <1>22 DEF Notify, Runs
<1>23. CASE UNCHANGED videoVars
  BY <1>23 DEF videoVars
<1> QED
  BY <1>1, <1>2, <1>3, <1>4, <1>5, <1>6, <1>7, <1>8, <1>9, <1>10, <1>11, <1>12, <1>13,
     <1>14, <1>15, <1>16, <1>17, <1>18, <1>19, <1>20, <1>21, <1>22, <1>23 DEF VideoNext,
     CallerStep, StopStep, VideoStep

\* Everything the video tasks keep.
VideoInv == VideoFlags /\ VideoRest /\ ClipNumbers /\ Owner /\ ClipFiles

\* It holds of every behaviour.
LEMMA VideoInvariant == VideoSpec => []VideoInv
<1>1. VideoInit => VideoInv
  <2> SUFFICES ASSUME VideoInit
               PROVE  VideoInv
    OBVIOUS
  <2>1. VideoFlags
    BY DEF VideoInit, VideoFlags
  <2>2. VideoRest
    BY DEF VideoInit, VideoRest
  <2>3. ClipNumbers
    BY VideoAssumption DEF VideoInit, ClipNumbers, Records
  <2>4. Owner
    BY DEF VideoInit, Owner, Starting, Records
  <2>5. ClipFiles
    BY DEF VideoInit, ClipFiles, HoldsFile, WritesClip, Records
  <2> QED
    BY <2>1, <2>2, <2>3, <2>4, <2>5 DEF VideoInv
<1>2. VideoInv /\ [VideoNext]_videoVars => VideoInv'
  BY VideoFlagsNext, VideoRestNext, ClipNumbersNext, OwnerNext, ClipFilesNext
     DEF VideoInv
<1> QED
  BY <1>1, <1>2, PTL DEF VideoSpec

\* The globals of video_capture.c have their types, for any number of tasks and clips.
THEOREM VideoTypeCorrect == VideoSpec => []VideoTypeOK
<1>1. VideoInv => VideoTypeOK
  BY DEF VideoInv, VideoFlags, VideoRest, VideoTypeOK
<1> QED
  BY <1>1, VideoInvariant, PTL

\* Unless two starts run into each other, video_start() never creates a task beside one
\* that still records, and the task's file stays open under it.
THEOREM OneRecorder == VideoSpec => []SoleRecorder
<1>1. VideoInv => SoleRecorder
  BY
     DEF VideoInv, VideoFlags, VideoRest, Owner, ClipFiles, Records, WritesClip,
         SoleRecorder,
         Alive, Leaving
<1> QED
  BY <1>1, VideoInvariant, PTL

\* The manifest line of a clip is appended once and after its file is closed.
THEOREM ListedClipIsClosed == VideoSpec => []ListedWhenClosed
<1>1. VideoInv => ListedWhenClosed
  BY DEF VideoInv, ClipFiles, ListedWhenClosed
<1> QED
  BY <1>1, VideoInvariant, PTL

\* Only a stop, or a start that cannot create its task, ends a recording: the second
\* clearing of s_recording at the end of the video task never finds it set.
THEOREM OnlyStopsEnd == VideoSpec => EndedByStop
<1> DEFINE Ends == (s_recording /\ ~s_recording' /\ ~raced) =>
                       \E c \in Callers : call[c] \in {"flag", "spawn"} /\ call'[c] # call[c]
<1>1. VideoInv /\ [VideoNext]_videoVars => Ends
  <2> SUFFICES ASSUME VideoInv, [VideoNext]_videoVars, s_recording, ~s_recording', ~raced
               PROVE  \E c \in Callers : call[c] \in {"flag", "spawn"} /\ call'[c] # call[c]
    OBVIOUS
  <2> USE DEF VideoInv, VideoRest, Callers
  <2>1. ASSUME NEW c \in Callers, StartCannotSpawn(c)
        PROVE  call[c] = "spawn" /\ call'[c] = "idle"
    BY <2>1 DEF StartCannotSpawn, Moves
  <2>2. ASSUME NEW h \in Helpers, StopFlags(h)
        PROVE  h \in Callers /\ call[h] = "flag" /\ call'[h] = "drain"
    BY <2>2 DEF StopFlags, Moves
  <2>3. ASSUME NEW v \in VideoTasks, Unset(v)
        PROVE  FALSE
    BY <2>3 DEF Unset, Owner
  <2>4. ASSUME NEW c \in Callers, Command(c) \/ StartIgnored(c) \/ StartFails(c)
                   \/ StartPasses(c) \/ StartNames(c) \/ StartOpens(c) \/ StartCannotOpen(c)
                   \/ StartArms(c) \/ \E v \in VideoTasks : StartSpawns(c, v)
        PROVE  FALSE
    BY <2>4 DEF Command, StartIgnored, StartFails, StartPasses, StartNames, StartOpens,
                StartCannotOpen, StartArms, StartSpawns
  <2>5. ASSUME NEW h \in Helpers, StopAsync(h) \/ DurationOver(h) \/ StopChecks(h)
                   \/ StopDrains(h) \/ StopReturns(h)
        PROVE  FALSE
    BY <2>5 DEF StopAsync, DurationOver, StopChecks, StopDrains, StopReturns
  <2>6. ASSUME NEW v \in VideoTasks, Loop(v) \/ Captured(v) \/ Close(v) \/ List(v) \/ Notify(v)
        PROVE  FALSE
    BY <2>6 DEF Loop, Captured, Close, List, Notify
  <2>7. CASE UNCHANGED videoVars
    BY <2>7 DEF videoVars
  <2> QED
    BY <2>1, <2>2, <2>3, <2>4, <2>5, <2>6, <2>7
       DEF VideoNext, CallerStep, StopStep, VideoStep
<1>2. VideoInv /\ [VideoNext]_videoVars => [Ends]_videoVars
  BY <1>1
<1> HIDE DEF Ends
<1>3. VideoSpec => [][Ends]_videoVars
  BY <1>2, VideoInvariant, PTL DEF VideoSpec
<1> QED
  BY <1>3 DEF Ends, EndedByStop

-----------------------------------------------------------------------------
\* A line appended is the only new one.
LEMMA LinesAppend ==
  ASSUME NEW F, NEW s \in Seq(F), NEW f \in F
  PROVE  Append(s, f) \in Seq(F) /\ Lines(Append(s, f)) = Lines(s) \cup {f}
<1> DEFINE t == Append(s, f)
<1>1. t \in Seq(F) /\ Len(t) = Len(s) + 1 /\ t[Len(s) + 1] = f
  OBVIOUS
<1>2. \A i \in 1 .. Len(s) : t[i] = s[i]
  OBVIOUS
<1>3. DOMAIN t = 1 .. Len(s) + 1 /\ DOMAIN s = 1 .. Len(s) /\ Len(s) \in Nat
  BY <1>1
<1> HIDE DEF t
<1>4. Lines(t) = Lines(s) \cup {f}
  <2>1. ASSUME NEW x \in Lines(t)
        PROVE  x \in Lines(s) \cup {f}
    <3>1. PICK i \in 1 .. Len(s) + 1 : x = t[i]
      BY <1>3 DEF Lines, ToSet
    <3>2. CASE i = Len(s) + 1
      BY <1>1, <3>1, <3>2
    <3>3. CASE i # Len(s) + 1
      BY <1>2, <1>3, <3>1, <3>3 DEF Lines, ToSet
    <3> QED
      BY <3>2, <3>3
  <2>2. ASSUME NEW x \in Lines(s)
        PROVE  x \in Lines(t)
    <3>1. PICK i \in 1 .. Len(s) : x = s[i]
      BY <1>3 DEF Lines, ToSet
    <3> QED
      BY <1>2, <1>3, <3>1 DEF Lines, ToSet
  <2>3. f \in Lines(t)
    BY <1>1, <1>3 DEF Lines, ToSet
  <2> QED
    BY <2>1, <2>2, <2>3
<1> QED
  BY <1>1, <1>4 DEF t

\* The handler's loop keeps the lines that were not posted.
LEMMA KeptLines ==
  ASSUME NEW F, NEW s \in Seq(F), NEW keep
  PROVE  Filter(s, keep) \in Seq(F) /\ Lines(Filter(s, keep)) = Lines(s) \cap keep
<1>1. \A t \in Seq(F) : DOMAIN t = 1 .. Len(t)
  OBVIOUS
<1>2. \A t \in Seq(F) : Lines(t) = Elements(t)
  BY <1>1 DEF Lines, ToSet, Elements
<1>3. Filter(s, keep) \in Seq(F) /\ Elements(Filter(s, keep)) = Elements(s) \cap keep
  BY FilterCorrect
<1> QED
  BY <1>2, <1>3

\* A sequence cut in two has the lines of both parts.
LEMMA LinesCut ==
  ASSUME NEW F, NEW s \in Seq(F), NEW n \in 0 .. Len(s)
  PROVE  /\ SubSeq(s, 1, n) \in Seq(F) /\ SubSeq(s, n + 1, Len(s)) \in Seq(F)
         /\ Lines(s) = Lines(SubSeq(s, 1, n)) \cup Lines(SubSeq(s, n + 1, Len(s)))
<1> DEFINE a == SubSeq(s, 1, n)
           b == SubSeq(s, n + 1, Len(s))
<1>1. a \in Seq(F) /\ DOMAIN a = 1 .. n /\ \A i \in 1 .. n : a[i] = s[i]
  OBVIOUS
<1>2. b \in Seq(F) /\ DOMAIN b = 1 .. Len(s) - n
      /\ \A i \in 1 .. Len(s) - n : b[i] = s[n + i]
  OBVIOUS
<1>3. DOMAIN s = 1 .. Len(s) /\ Len(s) \in Nat /\ n \in Nat
  OBVIOUS
<1> HIDE DEF a, b
<1>4. ASSUME NEW x \in Lines(s)
      PROVE  x \in Lines(a) \cup Lines(b)
  <2>1. PICK i \in 1 .. Len(s) : x = s[i]
    BY <1>3 DEF Lines, ToSet
  <2>2. CASE i <= n
    BY <1>1, <1>3, <2>1, <2>2 DEF Lines, ToSet
  <2>3. CASE i > n
    <3>1. i - n \in 1 .. Len(s) - n /\ n + (i - n) = i
      BY <1>3, <2>3
    <3>2. b[i - n] = x
      BY <1>2, <2>1, <3>1
    <3> QED
      BY <1>2, <3>1, <3>2 DEF Lines, ToSet
  <2> QED
    BY <1>3, <2>2, <2>3
<1>5. Lines(a) \subseteq Lines(s)
  BY <1>1, <1>3 DEF Lines, ToSet
<1>6. Lines(b) \subseteq Lines(s)
  <2>1. \A i \in 1 .. Len(s) - n : n + i \in 1 .. Len(s)
    BY <1>3
  <2> QED
    BY <1>2, <1>3, <2>1 DEF Lines, ToSet
<1> QED
  BY <1>1, <1>2, <1>4, <1>5, <1>6 DEF a, b

\* Lines are of the sequence's set.
LEMMA LinesIn == \A F : \A s \in Seq(F) : Lines(s) \subseteq F
  BY DEF Lines, ToSet

\* sd_store_read_manifest() reads lines of the manifest, all of them if they fit.
LEMMA WholeLines ==
  ASSUME NEW F, NEW s \in Seq(F)
  PROVE  /\ Whole(s) \in Seq(F)
         /\ Lines(Whole(s)) \subseteq Lines(s)
         /\ Len(s) <= Cap => Lines(Whole(s)) = Lines(s)
<1> DEFINE n == IF Len(s) <= Cap THEN Len(s) ELSE Cap
<1>1. n \in 0 .. Len(s)
  BY MediaAssumption
<1>2. Whole(s) = SubSeq(s, 1, n)
  BY DEF Whole
<1>3. Len(s) <= Cap => Whole(s) = s
  BY <1>2
<1> HIDE DEF n
<1>4. SubSeq(s, 1, n) \in Seq(F) /\ Lines(SubSeq(s, 1, n)) \subseteq Lines(s)
  BY <1>1, LinesCut
<1> QED
  BY <1>2, <1>3, <1>4

-----------------------------------------------------------------------------
\* A file that may be listed: it is whole, or the phone has it.
Safe == card \cup fetched

\* Whatever is a line, is going to be one, or is posted.
LinesSafe ==
    /\ Lines(manifest) \subseteq Safe
    /\ Lines(buffer) \subseteq Safe
    /\ \A wr \in Writers : writing[wr] # NoFile => writing[wr] \in Safe
    /\ names.all \subseteq fetched /\ names.left \subseteq fetched

\* What the phone still has to get.
Owed == card \ (fetched \cup excused)

AboutToBeListed == {writing[wr] : wr \in Writers}

\* A file owed is on the manifest until it is truncated, and in the lines that the
\* handler holds from its read of the manifest on.
OwedListed ==
    /\ http # "fill" => Owed \subseteq Lines(manifest) \cup AboutToBeListed
    /\ Rewriting => Owed \subseteq Lines(buffer) \cup AboutToBeListed

\* Files, lines and names stay what they are.
LEMMA MediaTypeNext == MediaTypeOK /\ [MediaNext]_mediaVars => MediaTypeOK'
<1> SUFFICES ASSUME MediaTypeOK, [MediaNext]_mediaVars
             PROVE  MediaTypeOK'
  OBVIOUS
<1> USE MediaAssumption DEF MediaTypeOK, httpVars, phoneVars
<1>1. ASSUME NEW wr \in Writers, Capture(wr)
      PROVE  MediaTypeOK'
  <2>1. captured' \in 0 .. MaxFiles /\ captured' \in Files
    BY <1>1 DEF Capture, Files
  <2>2. card' \subseteq Files /\ writing' \in [Writers -> Files \cup {NoFile}]
    BY <1>1, <2>1 DEF Capture, Stored
  <2> QED
    BY <1>1, <2>1, <2>2 DEF Capture
<1>2. ASSUME NEW wr \in Writers, AppendLine(wr)
      PROVE  MediaTypeOK'
  <2>1. writing[wr] \in Files
    BY <1>2 DEF AppendLine
  <2>2. manifest' \in Seq(Files)
    BY <1>2, <2>1 DEF AppendLine
  <2>3. excused' \subseteq Files \cup {NoFile}
    BY <1>2, <2>1 DEF AppendLine
  <2>4. writing' \in [Writers -> Files \cup {NoFile}]
    BY <1>2 DEF AppendLine
  <2> QED
    BY <1>2, <2>2, <2>3, <2>4 DEF AppendLine
<1>3. ASSUME NEW wr \in Writers, AppendFails(wr)
      PROVE  MediaTypeOK'
  BY <1>3 DEF AppendFails
<1>4. CASE GetManifest
  <2>1. Lines(Whole(manifest)) \subseteq Files
    BY WholeLines, LinesIn
  <2> QED
    BY <1>4, <2>1 DEF GetManifest
<1>5. ASSUME NEW f \in Files, GetItem(f)
      PROVE  MediaTypeOK'
  BY <1>5 DEF GetItem
<1>6. ASSUME NEW posted \in SUBSET fetched, PostConsumed(posted)
      PROVE  MediaTypeOK'
  BY <1>6 DEF PostConsumed
<1>7. ASSUME NEW f \in Files, DeleteOne(f)
      PROVE  MediaTypeOK'
  BY <1>7 DEF DeleteOne
<1>8. ASSUME NEW atLineEnd \in BOOLEAN, ReadManifest(atLineEnd)
      PROVE  MediaTypeOK'
  <2>1. Whole(manifest) \in Seq(Files)
    BY WholeLines
  <2>2. Filter(Whole(manifest), Lines(manifest) \ names.all) \in Seq(Files)
    BY <2>1, KeptLines
  <2>3. buffer' \in Seq(Files)
    <3>1. buffer' \in {<<>>, Filter(Whole(manifest), Lines(manifest) \ names.all)}
      BY <1>8 DEF ReadManifest, Answers
    <3>2. <<>> \in Seq(Files)
      OBVIOUS
    <3> QED
      BY <2>2, <3>1, <3>2, Zenon
  <2>4. excused' \subseteq Files \cup {NoFile}
    <3>1. Lines(manifest) \subseteq Files
      BY LinesIn
    <3> QED
      BY <1>8, <3>1 DEF ReadManifest
  <2>5. names' \in [all : SUBSET Files, left : SUBSET Files]
    BY <1>8 DEF ReadManifest, Answers, NoNames
  <2>6. http' \in {"idle", "truncate"}
    BY <1>8 DEF ReadManifest, Answers
  <2> QED
    BY <1>8, <2>3, <2>4, <2>5, <2>6 DEF ReadManifest
<1>9. CASE Truncate
  BY <1>9 DEF Truncate
<1>10. CASE CannotTruncate
  BY <1>10 DEF CannotTruncate, Answers, NoNames
<1>11. ASSUME NEW n \in 0 .. Len(buffer), Fill(n)
       PROVE  MediaTypeOK'
  <2>1. SubSeq(buffer, 1, n) \in Seq(Files)
        /\ SubSeq(buffer, n + 1, Len(buffer)) \in Seq(Files)
    BY LinesCut
  <2>2. Lines(SubSeq(buffer, n + 1, Len(buffer))) \subseteq Files
    BY <2>1, LinesIn
  <2> QED
    BY <1>11, <2>1, <2>2 DEF Fill, Answers, NoNames
<1>12. CASE Crash
  <2>1. Lines(buffer) \subseteq Files
    BY LinesIn
  <2>2. excused' \subseteq Files \cup {NoFile}
    BY <1>12, <2>1 DEF Crash
  <2>3. crashes' \in 0 .. MaxCrashes
    BY <1>12 DEF Crash
  <2>4. writing' \in [Writers -> Files \cup {NoFile}]
    BY <1>12 DEF Crash
  <2> QED
    BY <1>12, <2>2, <2>3, <2>4 DEF Crash, Answers, NoNames
<1>13. CASE UNCHANGED mediaVars
  BY <1>13 DEF mediaVars
<1> QED
  BY <1>1, <1>2, <1>3, <1>4, <1>5, <1>6, <1>7, <1>8, <1>9, <1>10, <1>11, <1>12, <1>13
     DEF MediaNext, WriterStep, HandlerStep

\* Only posted files are deleted, and the phone has what it posts.
LEMMA LinesSafeNext == MediaTypeOK /\ LinesSafe /\ [MediaNext]_mediaVars => LinesSafe'
<1> SUFFICES ASSUME MediaTypeOK, LinesSafe, [MediaNext]_mediaVars
             PROVE  LinesSafe'
  OBVIOUS
<1> USE DEF LinesSafe, Safe, httpVars, phoneVars
<1>1. ASSUME NEW wr \in Writers, Capture(wr)
      PROVE  LinesSafe'
  BY <1>1 DEF Capture, Stored, MediaTypeOK
<1>2. ASSUME NEW wr \in Writers, AppendLine(wr)
      PROVE  LinesSafe'
  <2>1. writing[wr] \in Files /\ writing[wr] \in Safe
    BY <1>2 DEF AppendLine, MediaTypeOK
  <2>2. Lines(manifest') = Lines(manifest) \cup {writing[wr]}
    BY <1>2, <2>1, LinesAppend DEF AppendLine, MediaTypeOK
  <2> QED
    BY <1>2, <2>1, <2>2 DEF AppendLine, MediaTypeOK
<1>3. ASSUME NEW wr \in Writers, AppendFails(wr)
      PROVE  LinesSafe'
  BY <1>3 DEF AppendFails, MediaTypeOK
<1>4. CASE GetManifest
  BY <1>4 DEF GetManifest
<1>5. ASSUME NEW f \in Files, GetItem(f)
      PROVE  LinesSafe'
  BY <1>5 DEF GetItem
<1>6. ASSUME NEW posted \in SUBSET fetched, PostConsumed(posted)
      PROVE  LinesSafe'
  BY <1>6 DEF PostConsumed
<1>7. ASSUME NEW f \in Files, DeleteOne(f)
      PROVE  LinesSafe'
  BY <1>7 DEF DeleteOne, MediaTypeOK
<1>8. ASSUME NEW atLineEnd \in BOOLEAN, ReadManifest(atLineEnd)
      PROVE  LinesSafe'
  <2>1. Whole(manifest) \in Seq(Files) /\ Lines(Whole(manifest)) \subseteq Lines(manifest)
    BY WholeLines DEF MediaTypeOK
  <2>2. Lines(Filter(Whole(manifest), Lines(manifest) \ names.all)) \subseteq Lines(manifest)
    BY <2>1, KeptLines
  <2>3. Lines(<<>>) = {}
    BY DEF Lines, ToSet
  <2>4. Lines(buffer') \subseteq Safe
    BY <1>8, <2>2, <2>3 DEF ReadManifest, Answers
  <2>5. names' \in {names, NoNames}
    BY <1>8 DEF ReadManifest, Answers
  <2> QED
    BY <1>8, <2>4, <2>5 DEF ReadManifest, NoNames
<1>9. CASE Truncate
  <2>1. Lines(<<>>) = {}
    BY DEF Lines, ToSet
  <2> QED
    BY <1>9, <2>1 DEF Truncate
<1>10. CASE CannotTruncate
  <2>1. Lines(<<>>) = {}
    BY DEF Lines, ToSet
  <2> QED
    BY <1>10, <2>1 DEF CannotTruncate, Answers, NoNames
<1>11. ASSUME NEW n \in 0 .. Len(buffer), Fill(n)
       PROVE  LinesSafe'
  <2>1. Lines(<<>>) = {}
    BY DEF Lines, ToSet
  <2>2. Lines(SubSeq(buffer, 1, n)) \subseteq Lines(buffer)
    BY LinesCut DEF MediaTypeOK
  <2> QED
    BY <1>11, <2>1, <2>2 DEF Fill, Answers, NoNames
<1>12. CASE Crash
  <2>1. Lines(<<>>) = {}
    BY DEF Lines, ToSet
  <2> QED
    BY <1>12, <2>1 DEF Crash, Answers, NoNames
<1>13. CASE UNCHANGED mediaVars
  BY <1>13 DEF mediaVars
<1> QED
  BY <1>1, <1>2, <1>3, <1>4, <1>5, <1>6, <1>7, <1>8, <1>9, <1>10, <1>11, <1>12, <1>13
     DEF MediaNext, WriterStep, HandlerStep

\* A file owed leaves the manifest only for the rewrite, and comes back with it.
LEMMA OwedListedNext ==
    MediaTypeOK /\ LinesSafe /\ OwedListed /\ [MediaNext]_mediaVars => OwedListed'
<1> SUFFICES ASSUME MediaTypeOK, LinesSafe, OwedListed, [MediaNext]_mediaVars
             PROVE  OwedListed'
  OBVIOUS
<1> USE DEF OwedListed, Owed, AboutToBeListed, Rewriting, httpVars, phoneVars
<1>1. ASSUME NEW wr \in Writers, Capture(wr)
      PROVE  OwedListed'
  <2>1. UNCHANGED <<manifest, buffer, http, fetched, excused>>
    BY <1>1 DEF Capture
  <2>2. CASE UNCHANGED <<writing, card>>
    BY <2>1, <2>2
  <2>3. CASE writing' = [writing EXCEPT ![wr] = captured']
        /\ card' = card \cup {captured'}
    <3>1. writing[wr] = NoFile /\ writing'[wr] = captured'
      BY <1>1, <2>3 DEF Capture, MediaTypeOK
    <3>2. \A x \in Writers : x # wr => writing'[x] = writing[x]
      BY <2>3 DEF MediaTypeOK
    <3>3. NoFile \notin card
      BY DEF MediaTypeOK, NoFile, Files
    <3>4. AboutToBeListed \ {NoFile} \subseteq AboutToBeListed'
          /\ captured' \in AboutToBeListed'
      BY <3>1, <3>2
    <3>5. Owed' \subseteq Owed \cup {captured'} /\ NoFile \notin Owed
      BY <2>1, <2>3, <3>3
    <3> QED
      BY <2>1, <3>4, <3>5
  <2> QED
    BY <1>1, <2>2, <2>3 DEF Capture, Stored
<1>2. ASSUME NEW wr \in Writers, AppendLine(wr)
      PROVE  OwedListed'
  <2>1. Lines(manifest') = Lines(manifest) \cup {writing[wr]}
    BY <1>2, LinesAppend DEF AppendLine, MediaTypeOK
  <2>2. AboutToBeListed \subseteq AboutToBeListed' \cup {writing[wr]}
    BY <1>2 DEF AppendLine, MediaTypeOK
  <2> QED
    BY <1>2, <2>1, <2>2 DEF AppendLine, MediaTypeOK
<1>3. ASSUME NEW wr \in Writers, AppendFails(wr)
      PROVE  OwedListed'
  <2>1. AboutToBeListed \subseteq AboutToBeListed' \cup {writing[wr]}
    BY <1>3 DEF AppendFails, MediaTypeOK
  <2> QED
    BY <1>3, <2>1 DEF AppendFails, MediaTypeOK
<1>4. CASE GetManifest
  BY <1>4 DEF GetManifest
<1>5. ASSUME NEW f \in Files, GetItem(f)
      PROVE  OwedListed'
  BY <1>5 DEF GetItem
<1>6. ASSUME NEW posted \in SUBSET fetched, PostConsumed(posted)
      PROVE  OwedListed'
  BY <1>6 DEF PostConsumed
<1>7. ASSUME NEW f \in Files, DeleteOne(f)
      PROVE  OwedListed'
  BY <1>7 DEF DeleteOne
<1>8. ASSUME NEW atLineEnd \in BOOLEAN, ReadManifest(atLineEnd)
      PROVE  OwedListed'
  <2>1. Owed \subseteq Lines(manifest) \cup AboutToBeListed
    BY <1>8 DEF ReadManifest
  <2>2. UNCHANGED <<manifest, card, writing, fetched>> /\ http' # "fill"
        /\ Owed' \subseteq Owed
    BY <1>8 DEF ReadManifest, Answers
  <2>3. CASE http' = "idle"
    BY <2>1, <2>2, <2>3
  <2>4. CASE http' = "truncate"
    <3>1. ~Truncated(atLineEnd)
          /\ buffer' = Filter(Whole(manifest), Lines(manifest) \ names.all)
      BY <1>8, <2>4 DEF ReadManifest, Answers
    <3>2. Whole(manifest) \in Seq(Files)
          /\ Lines(Whole(manifest)) \subseteq Lines(manifest)
      BY WholeLines DEF MediaTypeOK
    <3>3. Lines(buffer') = Lines(Whole(manifest)) \ names.all
      BY <3>1, <3>2, KeptLines
    <3>4. Lines(manifest) \ Lines(Whole(manifest)) \subseteq excused'
      <4>1. CASE atLineEnd
        BY <1>8, <4>1 DEF ReadManifest
      <4>2. CASE ~atLineEnd
        <5>1. Len(manifest) <= Cap
          BY <3>1, <4>2, MediaAssumption DEF Truncated, MediaTypeOK
        <5> QED
          BY <5>1, WholeLines DEF MediaTypeOK
      <4> QED
        BY <4>1, <4>2
    <3>5. names.all \subseteq fetched
      BY DEF LinesSafe
    <3> QED
      BY <2>1, <2>2, <2>4, <3>3, <3>4, <3>5
  <2> QED
    BY <1>8, <2>3, <2>4 DEF ReadManifest, Answers
<1>9. CASE Truncate
  BY <1>9 DEF Truncate
<1>10. CASE CannotTruncate
  BY <1>10 DEF CannotTruncate, Answers, NoNames
<1>11. ASSUME NEW n \in 0 .. Len(buffer), Fill(n)
       PROVE  OwedListed'
  <2>1. Lines(buffer) = Lines(SubSeq(buffer, 1, n)) \cup Lines(SubSeq(buffer, n + 1, Len(buffer)))
    BY LinesCut DEF MediaTypeOK
  <2> QED
    BY <1>11, <2>1 DEF Fill, Answers, NoNames
<1>12. CASE Crash
  BY <1>12 DEF Crash, Answers, NoNames
<1>13. CASE UNCHANGED mediaVars
  BY <1>13 DEF mediaVars
<1> QED
  BY <1>1, <1>2, <1>3, <1>4, <1>5, <1>6, <1>7, <1>8, <1>9, <1>10, <1>11, <1>12, <1>13
     DEF MediaNext, WriterStep, HandlerStep

\* What the card, its writers, the handler and the phone keep.
MediaInv == MediaTypeOK /\ LinesSafe /\ OwedListed

\* It holds of every behaviour.
LEMMA MediaInvariant == MediaSpec => []MediaInv
<1>1. MediaInit => MediaInv
  <2> SUFFICES ASSUME MediaInit
               PROVE  MediaInv
    OBVIOUS
  <2>1. Lines(<<>>) = {}
    BY DEF Lines, ToSet
  <2>2. MediaTypeOK
    BY MediaAssumption DEF MediaInit, MediaTypeOK, NoNames
  <2>3. LinesSafe
    BY <2>1 DEF MediaInit, LinesSafe, NoNames
  <2>4. OwedListed
    BY DEF MediaInit, OwedListed, Owed, Rewriting
  <2> QED
    BY <2>2, <2>3, <2>4 DEF MediaInv
<1>2. MediaInv /\ [MediaNext]_mediaVars => MediaInv'
  BY MediaTypeNext, LinesSafeNext, OwedListedNext DEF MediaInv
<1> QED
  BY <1>1, <1>2, PTL DEF MediaSpec

\* The card, the manifest and the phone's view have their types, for any number of
\* files, lines, names and crashes.
THEOREM MediaTypeCorrect == MediaSpec => []MediaTypeOK
<1>1. MediaInv => MediaTypeOK
  BY DEF MediaInv
<1> QED
  BY <1>1, MediaInvariant, PTL

\* However captures, requests and losses of power fall, a manifest line names a whole
\* file or one the phone has.
THEOREM ListedFilesAreWhole == MediaSpec => []ListedIsWhole
<1>1. MediaInv => ListedIsWhole
  BY DEF MediaInv, LinesSafe, Safe, ListedIsWhole
<1> QED
  BY <1>1, MediaInvariant, PTL

\* A photo the phone still has to get has a line, except for the named reasons.
THEOREM UnfetchedFilesAreListed == MediaSpec => []UnfetchedListed
<1>1. MediaInv => UnfetchedListed
  BY
     DEF MediaInv, MediaTypeOK, OwedListed, Owed, AboutToBeListed, Rewriting,
         UnfetchedListed
<1> QED
  BY <1>1, MediaInvariant, PTL
=============================================================================
