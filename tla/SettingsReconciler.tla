------------------------- MODULE SettingsReconciler -------------------------
(***************************************************************************)
(* Desired settings converge on the device (settings/reconciler.py with    *)
(* http/routes/settings.py, gateway/core.py and commands/dispatcher.py).   *)
(*                                                                         *)
(* The user changes the settings document; a hello from the relay, or a    *)
(* PUT that changes the audio toggle, runs reconcile(), which issues at    *)
(* most one command under a key that names the target; the device acks,    *)
(* and the ack updates the last-known device state that the next           *)
(* reconcile() compares against.                                           *)
(*                                                                         *)
(* The dispatcher is reduced to what reconcile() sees of it: the commands  *)
(* not yet acked, which key maps to which command, and expiry.  A command  *)
(* id is fresh when no component can still refer to it.  The device        *)
(* executes a command when it takes the frame and deduplicates by id.      *)
(***************************************************************************)
EXTENDS Integers, Sequences, Functions, Filtering

CONSTANTS
    Ids,            \* command ids in play at one time
    Intervals,      \* snapshot cadences the user may choose
    ServerDefault,  \* default of snapshot_interval_s in settings/model.py
    DeviceDefault,  \* SNAPSHOT_INTERVAL_S, what the device boots with
    Absent,         \* no value
    MaxPuts,        \* bound on PUT /settings
    MaxExpiries,    \* bound on commands that outlive their time to live
    MaxResets,      \* bound on device resets
    MaxPresses      \* bound on double presses of the button

ASSUME DefaultsAssumption == {ServerDefault, DeviceDefault} \subseteq Intervals
ASSUME AbsentAssumption == Absent \notin Ids /\ Absent \notin Intervals

Keys == {"audio:on", "audio:off", "sleep", "interval"}

VARIABLES
    desired,   \* capture settings: audio_enabled, sleep_mode, snapshot_interval_s
    known,     \* last-known device state: audio, sleep, interval (Absent = no ack)
    body,      \* command id -> [type, seconds], Absent when the id is fresh
    order,     \* unacked commands in issue order
    idem,      \* key -> the unacked command that holds it
    expired,   \* unacked commands past expires_at
    up,        \* the relay has said hello
    down, upq, \* command frames and acks in flight
    audio,     \* device: capturing (the gate is open)
    interval,  \* device: snapshot cadence
    done,      \* device: ids in the dedupe ring
    woken,     \* device: woke by button, not yet reported
    puts, expiries, resets, presses

serverVars == <<desired, known>>
cmdVars == <<body, order, idem, expired>>
linkVars == <<up, down, upq>>
deviceVars == <<audio, interval, done, woken>>
countVars == <<puts, expiries, resets, presses>>
vars == <<serverVars, cmdVars, linkVars, deviceVars, countVars>>

-----------------------------------------------------------------------------
\* ids.new(): an id nobody can still refer to.
Fresh(c) == c \notin Range(order) \union Range(down) \union Range(upq)

\* dispatcher.pending()
Pending(ord) == Filter(ord, Ids \ expired)

\* The assumed cadence when no ack is on record.
KnownInterval == IF known.interval = Absent THEN ServerDefault ELSE known.interval

\* Mutations: the gate's last-known value is never compared, or only looked up.
AudioNeverConverged(d) == FALSE
AudioConvergedOnceKnown(d) == known.audio # Absent

\* "known is not None and bool(known) == desired.audio_enabled"
AudioConverged(d) == known.audio = d.audio

\* Mutation: issue() does not look the key up.
NeverHeld(k) == FALSE

\* issue() finds an unacked command under the key.
Held(k) == idem[k] # Absent

\* What reconcile() decides to issue: a command and its key, or nothing.
\* Sleep first, then the snapshot cadence, then the audio gate.
Nothing == [type |-> Absent, seconds |-> Absent, key |-> Absent]

Decision(d) ==
    CASE d.sleep /\ known.sleep = TRUE -> Nothing
      [] d.sleep /\ known.sleep # TRUE ->
           [type |-> "sleep", seconds |-> Absent, key |-> "sleep"]
      [] ~d.sleep /\ KnownInterval # d.interval ->
           [type |-> "set_snapshot_interval", seconds |-> d.interval,
            key |-> "interval"]
      [] ~d.sleep /\ KnownInterval = d.interval /\ AudioConverged(d) -> Nothing
      [] OTHER -> IF d.audio
                  THEN [type |-> "start_audio", seconds |-> Absent, key |-> "audio:on"]
                  ELSE [type |-> "stop_audio", seconds |-> Absent, key |-> "audio:off"]

\* reconcile() against the document d: nothing to do, refused by a guardrail
\* (battery floor, capability), absorbed by the unacked holder of the key, or
\* issued as a new command.  A fresh id is in no dedupe ring; that there is one is
\* the bound Ids puts on the commands in play.
ReconcileIdle(d) ==
    /\ Decision(d) = Nothing
    /\ UNCHANGED <<cmdVars, done>>

ReconcileRefused(d) ==
    /\ Decision(d) # Nothing
    /\ UNCHANGED <<cmdVars, done>>

ReconcileAbsorbed(d) ==
    /\ Decision(d) # Nothing
    /\ Held(Decision(d).key)
    /\ UNCHANGED <<cmdVars, done>>

ReconcileIssues(d) ==
    LET what == Decision(d)
        c == CHOOSE id \in Ids : Fresh(id)
    IN  /\ what # Nothing
        /\ ~Held(what.key)
        /\ \E id \in Ids : Fresh(id)
        /\ body' = [body EXCEPT ![c] = [type |-> what.type, seconds |-> what.seconds]]
        /\ order' = Append(order, c)
        /\ idem' = [idem EXCEPT ![what.key] = c]
        /\ done' = done \ {c}
        /\ UNCHANGED expired

Reconcile(d) ==
    ReconcileIdle(d) \/ ReconcileAbsorbed(d) \/ ReconcileIssues(d)

-----------------------------------------------------------------------------
Documents == [audio : BOOLEAN, sleep : BOOLEAN, interval : Intervals]

\* put_settings: save the merged document; reconcile only when the audio
\* toggle changed.  Nothing is pushed to an open connection.
PutSettings(d) ==
    /\ puts < MaxPuts
    /\ puts' = puts + 1
    /\ desired' = d
    /\ IF d.audio # desired.audio
       THEN Reconcile(d) \/ ReconcileRefused(d)
       ELSE UNCHANGED <<cmdVars, done>>
    /\ UNCHANGED <<known, linkVars, audio, interval, woken, expiries, resets, presses>>

\* _on_hello: reconcile, then answer with every pending command.
Hello(refused) ==
    /\ ~up
    /\ up' = TRUE
    /\ IF refused THEN ReconcileRefused(desired) ELSE Reconcile(desired)
    /\ down' = Pending(order')
    /\ upq' = <<>>
    /\ UNCHANGED <<serverVars, audio, interval, woken, countVars>>

Drop ==
    /\ up
    /\ up' = FALSE
    /\ down' = <<>>
    /\ upq' = <<>>
    /\ UNCHANGED <<serverVars, cmdVars, deviceVars, countVars>>

\* The device takes a frame: a new command is executed, a known one is only
\* re-acked.  It has no "sleep": the type is unknown, acked and ignored.
DeviceReceives(notified) ==
    /\ down # <<>>
    /\ LET c == Head(down)
           new == c \notin done
       IN  /\ done' = done \union {c}
           /\ audio' = CASE new /\ body[c].type = "start_audio" -> TRUE
                         [] new /\ body[c].type = "stop_audio" -> FALSE
                         [] OTHER -> audio
           /\ interval' = IF new /\ body[c].type = "set_snapshot_interval"
                          THEN body[c].seconds ELSE interval
           /\ upq' = IF notified THEN Append(upq, c) ELSE upq
    /\ down' = Tail(down)
    /\ UNCHANGED <<serverVars, cmdVars, up, woken, countVars>>

\* note_acked: the cadence recorded is the one desired now.
NoteAcked(type) ==
    known' = CASE type = "sleep" -> [known EXCEPT !.sleep = TRUE]
               [] type = "set_snapshot_interval" ->
                    [known EXCEPT !.interval = desired.interval]
               [] OTHER -> [known EXCEPT !.audio = (type = "start_audio")]

\* _on_command_ack: the type is looked up among the pending commands, so an ack
\* of an expired or an already acked command moves no known state.
OnCommandAck ==
    /\ upq # <<>>
    /\ LET c == Head(upq)
           rest == Filter(order, Ids \ {c})
       IN  /\ IF c \in Range(Pending(order)) THEN NoteAcked(body[c].type)
                                             ELSE UNCHANGED known
           /\ order' = rest
           /\ idem' = [k \in Keys |-> IF idem[k] = c THEN Absent ELSE idem[k]]
           /\ expired' = expired \ {c}
           /\ down' = down \o Pending(rest)
    /\ upq' = Tail(upq)
    /\ UNCHANGED <<desired, body, up, deviceVars, countVars>>

\* A command outlives its time to live without an ack.
Expire ==
    /\ expiries < MaxExpiries
    /\ expiries' = expiries + 1
    /\ \E c \in Range(order) \ expired : expired' = expired \union {c}
    /\ UNCHANGED <<serverVars, body, order, idem, linkVars, deviceVars, puts,
                   resets, presses>>

\* Power loss, or deep sleep ended by the button (wake).
DeviceResets(wake) ==
    /\ resets < MaxResets
    /\ resets' = resets + 1
    /\ audio' = TRUE
    /\ interval' = DeviceDefault
    /\ done' = {}
    /\ woken' = wake
    /\ up' = FALSE
    /\ down' = <<>>
    /\ upq' = <<>>
    /\ UNCHANGED <<serverVars, cmdVars, puts, expiries, presses>>

\* The double press toggles the gate on the device alone.
DoublePress ==
    /\ presses < MaxPresses
    /\ presses' = presses + 1
    /\ audio' = ~audio
    /\ UNCHANGED <<serverVars, cmdVars, linkVars, interval, done, woken, puts,
                   expiries, resets>>

\* _on_telemetry with wake_reason "button": the press wins over sleep_mode.
OnWakeTelemetry ==
    /\ up
    /\ woken
    /\ woken' = FALSE
    /\ desired' = [desired EXCEPT !.sleep = FALSE]
    /\ known' = IF known.sleep = TRUE THEN [known EXCEPT !.sleep = FALSE] ELSE known
    /\ UNCHANGED <<cmdVars, linkVars, audio, interval, done, countVars>>

Init ==
    /\ desired = [audio |-> TRUE, sleep |-> FALSE, interval |-> ServerDefault]
    /\ known = [audio |-> Absent, sleep |-> Absent, interval |-> Absent]
    /\ body = [c \in Ids |-> Absent]
    /\ order = <<>>
    /\ idem = [k \in Keys |-> Absent]
    /\ expired = {}
    /\ up = FALSE
    /\ down = <<>>
    /\ upq = <<>>
    /\ audio = TRUE
    /\ interval = DeviceDefault
    /\ done = {}
    /\ woken = FALSE
    /\ puts = 0 /\ expiries = 0 /\ resets = 0 /\ presses = 0

Next ==
    \/ \E d \in Documents : d # desired /\ PutSettings(d)
    \/ \E refused \in BOOLEAN : Hello(refused)
    \/ Drop
    \/ \E notified \in BOOLEAN : DeviceReceives(notified)
    \/ OnCommandAck
    \/ Expire
    \/ \E wake \in BOOLEAN : DeviceResets(wake)
    \/ DoublePress
    \/ OnWakeTelemetry

\* The relay keeps reconnecting, a healthy device keeps passing the guardrails,
\* and a link that is up often enough gets its frames and acks through.
Fairness ==
    /\ SF_vars(Hello(FALSE))
    /\ SF_vars(DeviceReceives(TRUE))
    /\ SF_vars(OnCommandAck)
    /\ SF_vars(OnWakeTelemetry)

Spec == Init /\ [][Next]_vars
FairSpec == Spec /\ Fairness

-----------------------------------------------------------------------------
TypeOK ==
    /\ desired \in Documents
    /\ known \in [audio : BOOLEAN \union {Absent}, sleep : BOOLEAN \union {Absent},
                  interval : Intervals \union {Absent}]
    /\ Range(order) \subseteq Ids /\ Range(down) \subseteq Ids /\ Range(upq) \subseteq Ids
    /\ idem \in [Keys -> Ids \union {Absent}]
    /\ expired \subseteq Range(order)
    /\ up \in BOOLEAN /\ audio \in BOOLEAN /\ woken \in BOOLEAN
    /\ interval \in Intervals
    /\ done \subseteq Ids

\* Two unacked commands never ask for the same thing, through racing PUTs,
\* flapping links and expiries (reconciler.py: "Two reconciles racing toward the
\* same state dedupe into one command").
NoDuplicateInFlight ==
    \A i, j \in 1 .. Len(order) :
        body[order[i]].type = body[order[j]].type => i = j

\* The mismatch guard of reconcile(): once the user stops changing settings, a
\* link that goes on flapping makes the server issue no more commands ("a
\* command storm proportional to link quality").
NoCommandStorm == <>[][Len(order') <= Len(order)]_vars

\* The relay comes and goes for ever.
Reconnects == []<>up /\ []<>~up

\* The device's audio gate ends up where the user left the toggle, provided the
\* relay keeps reconnecting (settings/model.py: "the server issues
\* start_audio/stop_audio to converge the device on it").
AudioConverges == Reconnects => <>[](desired.sleep \/ audio = desired.audio)

\* What the code does keep of it: AudioConverges for a change of settings that
\* no expiry, device reset or button press interferes with, through any number
\* of drops, lost acks and refusals.
ToggleConverges ==
    Reconnects /\ [](expiries = 0 /\ resets = 0 /\ presses = 0)
        => <>[](desired.sleep \/ audio = desired.audio)
=============================================================================
