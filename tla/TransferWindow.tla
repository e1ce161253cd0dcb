--------------------------- MODULE TransferWindow ---------------------------
(***************************************************************************)
(* The pendant's radio: its BLE link, the Wi-Fi window in which a phone    *)
(* fetches photos, and the ambient capture timer the window turns off.     *)
(* Three tasks meet here: the NimBLE host task runs gap_event(), the       *)
(* transfer task runs the window and is not pinned to a core, the executor *)
(* starts the window and sets the capture interval.                        *)
(*                                                                         *)
(* The controller (external) reports what happened to it as events, in     *)
(* order.  gap_event() reads s_suspended in one step and advertises in the *)
(* next.  Advertising fails only while a connection is being terminated.   *)
(***************************************************************************)
EXTENDS Naturals, Sequences

CONSTANTS
    Intervals,    \* capture intervals a command may set
    MaxFlushes,   \* bound: windows opened
    MaxConnects   \* bound: connections the phone attempts

ASSUME WindowAssumption ==
    /\ Intervals \subseteq Nat
    /\ MaxFlushes \in Nat
    /\ MaxConnects \in Nat

\* SNAPSHOT_INTERVAL_S, which s_resume_interval starts as and stays: off.
DefaultInterval == 0

VARIABLES
    adv,           \* the controller: "off", "fast" or "slow"
    conn,          \* the controller: "none", "up" or "ending"
    gapEvents,     \* reported and not handled yet
    host,          \* gap_event() has decided to advertise: "restart", "downshift"
    s_suspended,
    s_conn_handle, \* a connection is on record
    s_audio_subscribed,
    transfer,      \* the transfer task's next step, "none" without one
    wifi,          \* the access point is up
    server,        \* the HTTP server is up
    interval,      \* of the capture timer, 0 when it is stopped
    flushes, connects,
    \* history
    slipped        \* gap_event() had decided to advertise, or the phone had connected,
                   \* when the flag went up

bleVars == <<adv, conn, gapEvents, host, s_conn_handle, s_audio_subscribed, connects>>
windowVars == <<transfer, wifi, server, interval, flushes>>
radioVars == <<bleVars, windowVars, s_suspended, slipped>>

Reports(e) == gapEvents' = Append(gapEvents, e)

-----------------------------------------------------------------------------
\* The controller.  A connection ends advertising, as does one that fails.
PhoneConnects(ok) ==
    /\ adv # "off" /\ conn = "none"
    /\ connects < MaxConnects
    /\ connects' = connects + 1
    /\ adv' = "off"
    /\ conn' = IF ok THEN "up" ELSE "none"
    /\ Reports(IF ok THEN "connected" ELSE "connect failed")
    /\ UNCHANGED <<host, s_conn_handle, s_audio_subscribed, windowVars, s_suspended,
                   slipped>>

PhoneSubscribes ==
    /\ conn = "up"
    /\ ~s_audio_subscribed /\ s_conn_handle /\ gapEvents = <<>>
    /\ Reports("subscribed")
    /\ UNCHANGED <<adv, conn, host, s_conn_handle, s_audio_subscribed, connects,
                   windowVars, s_suspended, slipped>>

\* The phone leaves or the link is lost, or a termination is done.
LinkEnds ==
    /\ conn # "none"
    /\ conn' = "none"
    /\ Reports("disconnected")
    /\ UNCHANGED <<adv, host, s_conn_handle, s_audio_subscribed, connects, windowVars,
                   s_suspended, slipped>>

\* The fast advertising window elapsed without a connection.
FastElapses ==
    /\ adv = "fast"
    /\ adv' = "off"
    /\ Reports("adv complete")
    /\ UNCHANGED <<conn, host, s_conn_handle, s_audio_subscribed, connects, windowVars,
                   s_suspended, slipped>>

\* ble_gap_adv_start(): EALREADY when it is advertising, EBUSY at worst while a
\* connection is ending.
AdvStarts(speed) == adv' = IF adv = "off" THEN speed ELSE adv

AdvBusy == conn = "ending" /\ adv = "off" /\ UNCHANGED adv

-----------------------------------------------------------------------------
Handles(e) ==
    /\ host = "idle"
    /\ gapEvents # <<>> /\ Head(gapEvents) = e
    /\ gapEvents' = Tail(gapEvents)
    /\ UNCHANGED <<adv, conn, connects, windowVars, s_suspended, slipped>>

\* Mutation: it advertises again whatever comes.
AlwaysAdvertises == host' = "restart"

\* The re-advertising paths, unless the link is suspended.
AdvertisesAgain == host' = IF s_suspended THEN "idle" ELSE "restart"

OnConnect ==
    /\ Handles("connected")
    /\ s_conn_handle' = TRUE
    /\ UNCHANGED <<host, s_audio_subscribed>>

OnConnectFailed ==
    /\ Handles("connect failed")
    /\ AdvertisesAgain
    /\ UNCHANGED <<s_conn_handle, s_audio_subscribed>>

LinkCleared == s_conn_handle' = FALSE /\ s_audio_subscribed' = FALSE

OnDisconnected ==
    /\ Handles("disconnected")
    /\ LinkCleared
    /\ AdvertisesAgain

OnSubscribed ==
    /\ Handles("subscribed")
    /\ s_audio_subscribed' = TRUE
    /\ UNCHANGED <<host, s_conn_handle>>

OnAdvComplete ==
    /\ Handles("adv complete")
    /\ host' = IF ~s_suspended /\ ~s_conn_handle THEN "downshift" ELSE "idle"
    /\ UNCHANGED <<s_conn_handle, s_audio_subscribed>>

\* start_advertising(); a failure is logged.
HostRestarts ==
    /\ host = "restart"
    /\ host' = "idle"
    /\ AdvStarts("fast") \/ AdvBusy
    /\ UNCHANGED <<conn, gapEvents, s_conn_handle, s_audio_subscribed, connects,
                   windowVars, s_suspended, slipped>>

\* The slow phase; if it does not start, the fast one is tried again.
HostDownshifts ==
    /\ host = "downshift"
    /\ \/ AdvStarts("slow") /\ host' = "idle"
       \/ AdvBusy /\ host' = "restart"
    /\ UNCHANGED <<conn, gapEvents, s_conn_handle, s_audio_subscribed, connects,
                   windowVars, s_suspended, slipped>>

-----------------------------------------------------------------------------
Window(from, to) == transfer = from /\ transfer' = to

\* transfer_flush(): refused while a window is open.
TransferFlush ==
    /\ flushes < MaxFlushes
    /\ flushes' = flushes + 1
    /\ transfer' = IF transfer = "none" THEN "stop ambient" ELSE transfer
    /\ UNCHANGED <<bleVars, wifi, server, interval, s_suspended, slipped>>

\* snapshot_set_interval() by a command.
SetInterval(seconds) ==
    /\ interval' = seconds
    /\ UNCHANGED <<bleVars, transfer, wifi, server, flushes, s_suspended, slipped>>

StopAmbient ==
    /\ Window("stop ambient", "suspend")
    /\ interval' = 0
    /\ UNCHANGED <<bleVars, wifi, server, flushes, s_suspended, slipped>>

\* ble_link_suspend(): the flag, the advertising, the connection.
SuspendFlag ==
    /\ Window("suspend", "adv stop")
    /\ s_suspended' = TRUE
    /\ slipped' = (slipped \/ host # "idle")
    /\ UNCHANGED <<bleVars, wifi, server, interval, flushes>>

SuspendAdv ==
    /\ Window("adv stop", "terminate")
    /\ adv' = "off"
    /\ UNCHANGED <<conn, gapEvents, host, s_conn_handle, s_audio_subscribed, connects,
                   wifi, server, interval, flushes, s_suspended, slipped>>

\* ble_gap_terminate() of the connection on record: one that has not been reported yet
\* is not terminated.
SuspendConn ==
    /\ Window("terminate", "start")
    /\ conn' = IF s_conn_handle /\ conn = "up" THEN "ending" ELSE conn
    /\ slipped' = (slipped \/ (conn = "up" /\ ~s_conn_handle))
    /\ UNCHANGED <<adv, gapEvents, host, s_conn_handle, s_audio_subscribed, connects,
                   wifi, server, interval, flushes, s_suspended>>

\* The card, Wi-Fi and the HTTP server, any of which may not come up.
Start ==
    /\ transfer = "start"
    /\ \/ wifi' = FALSE /\ server' = FALSE /\ transfer' = "stop server"
       \/ wifi' = TRUE /\ server' = FALSE /\ transfer' = "stop server"
       \/ wifi' = TRUE /\ server' = TRUE /\ transfer' = "window"
    /\ UNCHANGED <<bleVars, interval, flushes, s_suspended, slipped>>

\* The 600 s are over, or the manifest is empty.
WindowOver ==
    /\ Window("window", "stop server")
    /\ UNCHANGED <<bleVars, wifi, server, interval, flushes, s_suspended, slipped>>

StopServer ==
    /\ Window("stop server", "stop wifi")
    /\ server' = FALSE
    /\ UNCHANGED <<bleVars, wifi, interval, flushes, s_suspended, slipped>>

StopWifi ==
    /\ Window("stop wifi", "resume")
    /\ wifi' = FALSE
    /\ UNCHANGED <<bleVars, server, interval, flushes, s_suspended, slipped>>

\* ble_link_resume(): the flag, then the advertising.
ResumeFlag ==
    /\ Window("resume", "adv start")
    /\ s_suspended' = FALSE
    /\ slipped' = FALSE
    /\ UNCHANGED <<bleVars, wifi, server, interval, flushes>>

\* Mutation: the resumed link waits for the next event.
NoAdvStart == UNCHANGED adv

ResumeAdvStart == AdvStarts("fast") \/ AdvBusy

ResumeAdv ==
    /\ Window("adv start", "start ambient")
    /\ ResumeAdvStart
    /\ UNCHANGED <<conn, gapEvents, host, s_conn_handle, s_audio_subscribed, connects,
                   wifi, server, interval, flushes, s_suspended, slipped>>

StartAmbient ==
    /\ Window("start ambient", "none")
    /\ interval' = DefaultInterval
    /\ UNCHANGED <<bleVars, wifi, server, flushes, s_suspended, slipped>>

-----------------------------------------------------------------------------
\* on_sync() has advertised.
RadioInit ==
    /\ adv = "fast"
    /\ conn = "none"
    /\ gapEvents = <<>>
    /\ host = "idle"
    /\ s_suspended = FALSE
    /\ s_conn_handle = FALSE
    /\ s_audio_subscribed = FALSE
    /\ transfer = "none"
    /\ wifi = FALSE
    /\ server = FALSE
    /\ interval = DefaultInterval
    /\ flushes = 0
    /\ connects = 0
    /\ slipped = FALSE

HostStep ==
    \/ OnConnect \/ OnConnectFailed \/ OnDisconnected \/ OnSubscribed \/ OnAdvComplete
    \/ HostRestarts \/ HostDownshifts

TransferStep ==
    \/ StopAmbient
    \/ SuspendFlag \/ SuspendAdv \/ SuspendConn
    \/ Start \/ WindowOver
    \/ StopServer \/ StopWifi
    \/ ResumeFlag \/ ResumeAdv
    \/ StartAmbient

RadioNext ==
    \/ \E ok \in BOOLEAN : PhoneConnects(ok)
    \/ PhoneSubscribes \/ LinkEnds \/ FastElapses
    \/ HostStep
    \/ TransferFlush
    \/ \E seconds \in Intervals : SetInterval(seconds)
    \/ TransferStep

RadioSpec == RadioInit /\ [][RadioNext]_radioVars

-----------------------------------------------------------------------------
\* The link, the window and the timer.
RadioTypeOK ==
    /\ adv \in {"off", "fast", "slow"}
    /\ conn \in {"none", "up", "ending"}
    /\ gapEvents \in Seq({"connected", "connect failed", "disconnected", "subscribed",
                          "adv complete"})
    /\ host \in {"idle", "restart", "downshift"}
    /\ s_suspended \in BOOLEAN
    /\ s_conn_handle \in BOOLEAN
    /\ s_audio_subscribed \in BOOLEAN
    /\ transfer \in {"none", "stop ambient", "suspend", "adv stop", "terminate", "start",
                     "window", "stop server", "stop wifi", "resume", "adv start",
                     "start ambient"}
    /\ wifi \in BOOLEAN
    /\ server \in BOOLEAN
    /\ interval \in Intervals \cup {0}
    /\ flushes \in 0 .. MaxFlushes
    /\ connects \in 0 .. MaxConnects
    /\ slipped \in BOOLEAN

\* While Wi-Fi has the radio the pendant neither advertises nor keeps a phone, whatever
\* the disconnection, a failed connection or the end of an advertising phase brings in
\* the meantime; only what slipped past the flag when it was raised may.
QuietWindow ==
    (wifi /\ ~slipped) => s_suspended /\ adv = "off" /\ conn # "up" /\ host = "idle"

\* The pendant can be found again: whatever the window met, it ends advertising or with
\* a phone.
Reachable ==
    [](transfer # "none" => <>(transfer = "none" /\ (adv # "off" \/ conn = "up")))
=============================================================================
