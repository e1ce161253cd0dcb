------------------------- MODULE GatewayConnection --------------------------
(***************************************************************************)
(* The server side of one session: each WebSocket connection has a handler *)
(* on the event loop, an InferenceWorker thread with a bounded queue, and  *)
(* a GatewayCore; the event store, the registry of active sessions and the *)
(* extraction queue are shared.  The relay says hello with the same        *)
(* session id on every connection it opens, and the server may take a      *)
(* dropped one for open long after the relay has gone on to the next.      *)
(*                                                                         *)
(* Audio is numbered and becomes one transcript, at once or, held back by  *)
(* the coalescer, with a later one.  The transcripts one message gives are *)
(* appended in one step.                                                   *)
(***************************************************************************)
EXTENDS Naturals, Sequences

CONSTANTS
    MaxConns,     \* bound: connections the relay opens
    MaxAudio,     \* bound: audio packets it sends
    MaxQueue      \* max_queue

ASSUME GatewayAssumption ==
    /\ MaxConns \in Nat /\ MaxAudio \in Nat
    /\ MaxQueue \in Nat \ {0}

Conns == 1 .. MaxConns
Audio == 1 .. MaxAudio
Idle == <<"idle", 0>>
Hello == <<"hello", 0>>
Bye == <<"bye", 0>>
Packet(n) == <<"audio", n>>
Messages == {Hello, Bye} \cup {Packet(n) : n \in Audio}

VARIABLES
    relayConn,    \* the connection the relay uses, 0 for none
    opened,       \* connections opened so far
    audioSent,
    spoken,       \* what the relay has said on it: "nothing", "hello", "bye"
    handler,      \* per connection: "unused", "open", "stopping", "closed"
    inbox,        \* _q
    working,      \* the message the worker thread is in handle_message() with
    bound,        \* _session_id and _pipeline are set
    coalescing,   \* transcripts the pipeline holds back
    eventSeq,     \* _event_seq
    eventStore,   \* audio of each stored event, by seq
    active,       \* SessionLifecycle has the session
    unfinalized,  \* stored events no finalize has been enqueued after
    \* history
    refused,      \* transcripts whose event id was taken
    overlapped,   \* a hello came while another core had the session
    straggled,    \* a worker outlived its join
    overflowed,   \* a queue dropped a message
    unheard       \* audio dropped because no hello had been handled

relayVars == <<relayConn, opened, audioSent, spoken>>
coreVars == <<bound, coalescing, eventSeq>>
sharedVars == <<eventStore, active, unfinalized>>
gatewayHistory == <<refused, overlapped, straggled, overflowed, unheard>>
gatewayVars == <<relayVars, handler, inbox, working, coreVars, sharedVars, gatewayHistory>>

\* Mutation: the queue has no limit.
EnqueuedAlways(q, m) == Append(q, m)

\* enqueue(): a full queue drops its oldest message.
Enqueued(q, m) == IF Len(q) = MaxQueue THEN Append(Tail(q), m) ELSE Append(q, m)

\* Another core is carrying the session and may still emit.
Carrying(c) == bound[c] /\ (handler[c] # "closed" \/ working[c] # Idle)

-----------------------------------------------------------------------------
\* The relay, and what its socket delivers.
Connect ==
    /\ relayConn = 0 /\ opened < MaxConns
    /\ opened' = opened + 1
    /\ relayConn' = opened + 1
    /\ spoken' = "nothing"
    /\ handler' = [handler EXCEPT ![opened + 1] = "open"]
    /\ UNCHANGED <<audioSent, inbox, working, coreVars, sharedVars, gatewayHistory>>

\* The receive loop passes the message to the worker.
Receives(c, m) ==
    /\ handler[c] = "open"
    /\ inbox' = [inbox EXCEPT ![c] = Enqueued(@, m)]
    /\ overflowed' = (overflowed \/ Len(inbox[c]) = MaxQueue)
    /\ UNCHANGED <<relayConn, opened, handler, working, coreVars, sharedVars, refused,
                   overlapped, straggled, unheard>>

SendHello ==
    /\ relayConn # 0 /\ spoken = "nothing"
    /\ spoken' = "hello" /\ UNCHANGED audioSent
    /\ Receives(relayConn, Hello)

SendAudio ==
    /\ relayConn # 0 /\ spoken = "hello"
    /\ audioSent < MaxAudio
    /\ audioSent' = audioSent + 1 /\ UNCHANGED spoken
    /\ Receives(relayConn, Packet(audioSent + 1))

SendBye ==
    /\ relayConn # 0 /\ spoken = "hello"
    /\ spoken' = "bye" /\ UNCHANGED audioSent
    /\ Receives(relayConn, Bye)

\* The link breaks; the server does not know yet.
RelayDrops ==
    /\ relayConn # 0
    /\ relayConn' = 0
    /\ UNCHANGED <<opened, audioSent, spoken, handler, inbox, working, coreVars, sharedVars,
                   gatewayHistory>>

\* The receive loop ends, or a reply cannot be sent: the worker is told to stop.
Stops(c) ==
    /\ handler[c] = "open"
    /\ handler' = [handler EXCEPT ![c] = "stopping"]
    /\ relayConn' = IF relayConn = c THEN 0 ELSE relayConn
    /\ UNCHANGED <<opened, audioSent, spoken, inbox, working, coreVars, sharedVars,
                   gatewayHistory>>

-----------------------------------------------------------------------------
\* The worker thread, in the order of arrival.  Mutation: the latest message first.
TakesNewest(c) ==
    /\ handler[c] = "open" /\ working[c] = Idle
    /\ inbox[c] # <<>>
    /\ working' = [working EXCEPT ![c] = inbox[c][Len(inbox[c])]]
    /\ inbox' = [inbox EXCEPT ![c] = SubSeq(@, 1, Len(@) - 1)]
    /\ UNCHANGED <<relayVars, handler, coreVars, sharedVars, gatewayHistory>>

Takes(c) ==
    /\ handler[c] = "open" /\ working[c] = Idle
    /\ inbox[c] # <<>>
    /\ working' = [working EXCEPT ![c] = Head(inbox[c])]
    /\ inbox' = [inbox EXCEPT ![c] = Tail(@)]
    /\ UNCHANGED <<relayVars, handler, coreVars, sharedVars, gatewayHistory>>

Done(c) == working' = [working EXCEPT ![c] = Idle]

NextSeq == IF DOMAIN eventStore = {} THEN 0
           ELSE 1 + CHOOSE n \in DOMAIN eventStore : \A k \in DOMAIN eventStore : k <= n

\* Mutation: every connection counts from 0.
CountsAnew == 0

\* The counter goes on after the session's last stored event.
Resumes == NextSeq

\* Mutation: only a first hello marks the session active.
MarksFirst == active' = (active \/ DOMAIN eventStore = {})

MarksActive == active' = TRUE

HandleHello(c) ==
    /\ working[c] = Hello
    /\ Done(c)
    /\ bound' = [bound EXCEPT ![c] = TRUE]
    /\ coalescing' = [coalescing EXCEPT ![c] = <<>>]
    /\ eventSeq' = [eventSeq EXCEPT ![c] = Resumes]
    /\ MarksActive
    /\ overlapped' = (overlapped \/ \E d \in Conns \ {c} : Carrying(d))
    /\ UNCHANGED <<relayVars, handler, inbox, eventStore, unfinalized, refused, straggled,
                   overflowed, unheard>>

\* _emit(): an event whose id is taken is not stored.
Emits(c, audio) ==
    LET ids == eventSeq[c] .. eventSeq[c] + Len(audio) - 1
        new == ids \ DOMAIN eventStore
    IN  /\ eventStore' = [n \in DOMAIN eventStore \cup new |->
                             IF n \in new THEN audio[n - eventSeq[c] + 1] ELSE eventStore[n]]
        /\ eventSeq' = [eventSeq EXCEPT ![c] = @ + Len(audio)]
        /\ refused' = refused \cup {audio[n - eventSeq[c] + 1] : n \in ids \ new}

NewlyStored == DOMAIN eventStore' \ DOMAIN eventStore

HandleAudio(c, flushed) ==
    LET heard == Append(coalescing[c], working[c][2]) IN
    /\ working[c][1] = "audio" /\ bound[c]
    /\ Done(c)
    /\ Emits(c, IF flushed THEN heard ELSE <<>>)
    /\ coalescing' = [coalescing EXCEPT ![c] = IF flushed THEN <<>> ELSE heard]
    /\ unfinalized' = unfinalized \cup NewlyStored
    /\ UNCHANGED <<relayVars, handler, inbox, bound, active, overlapped, straggled,
                   overflowed, unheard>>

AudioBeforeHello(c) ==
    /\ working[c][1] = "audio" /\ ~bound[c]
    /\ Done(c)
    /\ unheard' = unheard \cup {working[c][2]}
    /\ UNCHANGED <<relayVars, handler, inbox, coreVars, sharedVars, refused, overlapped,
                   straggled, overflowed>>

\* _close_session() and the finalize pass.
Closes == active' = FALSE /\ unfinalized' = {}

HandleBye(c) ==
    /\ working[c] = Bye /\ bound[c]
    /\ Done(c)
    /\ Emits(c, coalescing[c])
    /\ coalescing' = [coalescing EXCEPT ![c] = <<>>]
    /\ bound' = [bound EXCEPT ![c] = FALSE]
    /\ Closes
    /\ UNCHANGED <<relayVars, handler, inbox, overlapped, straggled, overflowed, unheard>>

\* A protocol error closes the connection.
ByeBeforeHello(c) ==
    /\ working[c] = Bye /\ ~bound[c]
    /\ Done(c)
    /\ handler' = [handler EXCEPT ![c] = IF @ = "open" THEN "stopping" ELSE @]
    /\ relayConn' = IF relayConn = c THEN 0 ELSE relayConn
    /\ UNCHANGED <<opened, audioSent, spoken, inbox, coreVars, sharedVars, gatewayHistory>>

Works(c) ==
    \/ HandleHello(c)
    \/ \E flushed \in BOOLEAN : HandleAudio(c, flushed)
    \/ AudioBeforeHello(c)
    \/ HandleBye(c)
    \/ ByeBeforeHello(c)

-----------------------------------------------------------------------------
\* Mutation: only a bye closes the session.
LeavesOpen(c) == UNCHANGED <<coalescing, eventSeq, sharedVars, refused>>

\* on_disconnect(): a core that has the session flushes, finalizes and closes it.  The
\* core keeps its session id and pipeline.
TearsDown(c) ==
    IF bound[c]
    THEN /\ Emits(c, coalescing[c])
         /\ coalescing' = [coalescing EXCEPT ![c] = <<>>]
         /\ Closes
    ELSE UNCHANGED <<coalescing, eventSeq, sharedVars, refused>>

\* The worker has ended, or two seconds have passed and it is still at a message.
OnDisconnect(c) ==
    /\ handler[c] = "stopping"
    /\ handler' = [handler EXCEPT ![c] = "closed"]
    /\ TearsDown(c)
    /\ straggled' = (straggled \/ working[c] # Idle)
    /\ UNCHANGED <<relayVars, inbox, working, bound, overlapped, overflowed, unheard>>

GatewayInit ==
    /\ relayConn = 0 /\ opened = 0 /\ audioSent = 0 /\ spoken = "nothing"
    /\ handler = [c \in Conns |-> "unused"]
    /\ inbox = [c \in Conns |-> <<>>]
    /\ working = [c \in Conns |-> Idle]
    /\ bound = [c \in Conns |-> FALSE]
    /\ coalescing = [c \in Conns |-> <<>>]
    /\ eventSeq = [c \in Conns |-> 0]
    /\ eventStore = [n \in {} |-> 0]
    /\ active = FALSE /\ unfinalized = {}
    /\ refused = {} /\ overlapped = FALSE /\ straggled = FALSE /\ overflowed = FALSE
    /\ unheard = {}

RelayNext == Connect \/ SendHello \/ SendAudio \/ SendBye \/ RelayDrops

Serves(c) == Stops(c) \/ Takes(c) \/ Works(c) \/ OnDisconnect(c)

GatewayNext == RelayNext \/ \E c \in Conns : Serves(c)

GatewaySpec == GatewayInit /\ [][GatewayNext]_gatewayVars

-----------------------------------------------------------------------------
GatewayTypeOK ==
    /\ relayConn \in 0 .. opened /\ opened \in 0 .. MaxConns
    /\ audioSent \in 0 .. MaxAudio
    /\ spoken \in {"nothing", "hello", "bye"}
    /\ handler \in [Conns -> {"unused", "open", "stopping", "closed"}]
    /\ \A c \in Conns : inbox[c] \in Seq(Messages) /\ Len(inbox[c]) <= MaxQueue
    /\ working \in [Conns -> Messages \cup {Idle}]
    /\ bound \in [Conns -> BOOLEAN]
    /\ \A c \in Conns : coalescing[c] \in Seq(Audio)
    /\ active \in BOOLEAN
    /\ unfinalized \subseteq DOMAIN eventStore

Ended(c) == handler[c] \in {"unused", "closed"} /\ working[c] = Idle

\* "the only close signal that always fires": once every connection has ended, however
\* it did, the session is not active any more and a finalize pass is enqueued after its
\* last event, unless a worker outlived its join.
EndedIsClosed ==
    (\A c \in Conns : Ended(c)) /\ ~straggled => ~active /\ unfinalized = {}

\* "sessions that have an active WebSocket connection": a session that a connection is
\* carrying is active, unless an older connection's teardown or worker came later.
CarriedIsActive ==
    (\E c \in Conns : bound[c] /\ handler[c] = "open") => active \/ overlapped \/ straggled

\* "Resetting _event_seq to 0 made every post-reconnect transcript collide": a
\* transcript is taken for a duplicate only where two connections carried the session
\* at the same time or a worker outlived its join.
RefusedOnlyInOverlap == refused # {} => overlapped \/ straggled

\* "audio before hello": with the relay saying hello first, only a hello the full queue
\* dropped makes the server ignore audio.
HeardUnlessOverflow == unheard # {} => overflowed

\* "transcripts collide with existing event_ids and are dropped as duplicates, starving
\* extraction" is what resuming the counter is for: no transcript is refused.
TranscriptsStored == refused = {}
=============================================================================
