---------------------------- MODULE RelaySession ----------------------------
(***************************************************************************)
(* The phone's RelaySession and the two threads of RelayService that call  *)
(* it: the GATT thread (audio notifications) and the WebSocket reader      *)
(* (onOpen, server messages).  Nothing locks the session, so a step here   *)
(* is one read or write of a field the threads share, or one frame handed  *)
(* to OkHttp.                                                              *)
(*                                                                         *)
(* A frame is HelloFrame, ByeFrame or an audio packet, its chunk_seq.      *)
(***************************************************************************)
EXTENDS Integers, Sequences, Functions, Filtering

CONSTANT RingMax   \* RING_MAX_CHUNKS

ASSUME RingAssumption == RingMax \in Nat \ {0}

HelloFrame == 0
ByeFrame == -1
Chunks == Nat \ {0}
Threads == {"gatt", "ws"}

VARIABLES
    started,        \* the hello/audio gate
    pendingAudio,   \* audio held until hello
    sentRing,       \* recent audio, kept for request_chunks
    link,           \* the socket: "none", "connecting" or "open"
    wire,           \* frames handed to this socket, in the order it sends them
    nextChunk,      \* the device's next chunk_seq
    gatt,           \* what the GATT thread is doing, and with which packet
    ws,             \* what the reader thread is doing, and its remaining actions
    drop,           \* how far softDrop is, and on which thread
    \* history of this socket
    asked,          \* chunk_seqs the server has requested again
    owed            \* of those, the ones the ring held and that are not sent yet

sessVars == <<started, pendingAudio, sentRing, link, wire, nextChunk, gatt, ws,
              drop, asked, owed>>

Idle == "idle"
GattIdle == gatt.pc = Idle /\ ~(drop.pc # Idle /\ drop.by = "gatt")
WsIdle == ws.pc = Idle /\ ~(drop.pc # Idle /\ drop.by = "ws")

-----------------------------------------------------------------------------
\* Mutation: nothing is evicted.
PushRingUnbounded(r, c) == Append(r, c)

\* pushRing()
PushRing(r, c) == IF Len(r) >= RingMax THEN Append(Tail(r), c) ELSE Append(r, c)

\* execute(SendServer...): a torn-down socket swallows the frame.
Sent(f) == IF link = "none" THEN wire ELSE Append(wire, f)

\* onAudio() on the GATT thread: the gate is read ...
OnDeviceAudio ==
    /\ GattIdle
    /\ nextChunk' = nextChunk + 1
    /\ gatt' = [pc |-> IF started THEN "push" ELSE "hold", chunk |-> nextChunk]
    /\ UNCHANGED <<started, pendingAudio, sentRing, link, wire, ws, drop, asked, owed>>

\* Mutation: the packet is held and sent as well.
HoldAndSend ==
    /\ gatt.pc = "hold"
    /\ pendingAudio' = Append(pendingAudio, gatt.chunk)
    /\ sentRing' = PushRing(sentRing, gatt.chunk)
    /\ gatt' = [gatt EXCEPT !.pc = "send"]
    /\ UNCHANGED <<started, link, wire, nextChunk, ws, drop, asked, owed>>

\* ... and the packet is held,
Hold ==
    /\ gatt.pc = "hold"
    /\ pendingAudio' = Append(pendingAudio, gatt.chunk)
    /\ sentRing' = PushRing(sentRing, gatt.chunk)
    /\ gatt' = [gatt EXCEPT !.pc = Idle]
    /\ UNCHANGED <<started, link, wire, nextChunk, ws, drop, asked, owed>>

\* or kept in the ring and sent.
Push ==
    /\ gatt.pc = "push"
    /\ sentRing' = PushRing(sentRing, gatt.chunk)
    /\ gatt' = [gatt EXCEPT !.pc = "send"]
    /\ UNCHANGED <<started, pendingAudio, link, wire, nextChunk, ws, drop, asked, owed>>

Send ==
    /\ gatt.pc = "send"
    /\ wire' = Sent(gatt.chunk)
    /\ gatt' = [gatt EXCEPT !.pc = Idle]
    /\ UNCHANGED <<started, pendingAudio, sentRing, link, nextChunk, ws, drop, asked, owed>>

\* A notification the phone never gets.
BleLoses ==
    /\ nextChunk' = nextChunk + 1
    /\ UNCHANGED <<started, pendingAudio, sentRing, link, wire, gatt, ws, drop, asked, owed>>

-----------------------------------------------------------------------------
\* onOpen(): start() opens the gate, reads the held audio, clears it, and only
\* then are hello and the held audio sent.
OnOpen ==
    /\ WsIdle
    /\ ws.out = <<>>
    /\ link = "connecting"
    /\ link' = "open"
    /\ started' = TRUE
    /\ ws' = [ws EXCEPT !.pc = "read"]
    /\ UNCHANGED <<pendingAudio, sentRing, wire, nextChunk, gatt, drop, asked, owed>>

StartReads ==
    /\ ws.pc = "read"
    /\ ws' = [pc |-> "clear", out |-> <<HelloFrame>> \o pendingAudio]
    /\ UNCHANGED <<started, pendingAudio, sentRing, link, wire, nextChunk, gatt, drop,
                   asked, owed>>

StartClears ==
    /\ ws.pc = "clear"
    /\ pendingAudio' = <<>>
    /\ ws' = [ws EXCEPT !.pc = Idle]
    /\ UNCHANGED <<started, sentRing, link, wire, nextChunk, gatt, drop, asked, owed>>

\* forEach(::execute) on the reader thread.
Execute ==
    /\ WsIdle
    /\ ws.out # <<>>
    /\ wire' = Sent(Head(ws.out))
    /\ ws' = [ws EXCEPT !.out = Tail(ws.out)]
    /\ owed' = owed \ {Head(ws.out)}
    /\ UNCHANGED <<started, pendingAudio, sentRing, link, nextChunk, gatt, drop, asked>>

\* Mutation: the range is taken as exclusive at its start.
BackfillAfterStart(from, to) == Filter(sentRing, from + 1 .. to - 1)

\* backfill(start, end): the requested packets the ring still has.
Backfill(from, to) == Filter(sentRing, from .. to - 1)

\* onServerMessage(request_chunks).  The server asks for what is missing below a
\* chunk it has, in a session it has seen the hello of.
OnRequestChunks(from, to) ==
    /\ WsIdle
    /\ ws.out = <<>>
    /\ link = "open"
    /\ HelloFrame \in Range(wire)
    /\ from < to
    /\ to \in Range(wire)
    /\ asked' = asked \union from .. (to - 1)
    /\ ws' = [ws EXCEPT !.out = IF started THEN Backfill(from, to) ELSE <<>>]
    /\ owed' = IF started THEN Range(sentRing) \intersect from .. (to - 1) ELSE owed
    /\ UNCHANGED <<started, pendingAudio, sentRing, link, wire, nextChunk, gatt, drop>>

-----------------------------------------------------------------------------
\* softDrop() on thread t, after a failed send, a BLE disconnect or a closed
\* socket; the CAS on dropping admits one.  stop() closes the gate, clears both
\* queues and says bye, and the socket is let go.
SoftDrop(t) ==
    /\ drop.pc = Idle
    /\ t = "gatt" => GattIdle
    /\ t = "ws" => WsIdle
    /\ started' = FALSE
    /\ drop' = [pc |-> "clear", by |-> t]
    /\ UNCHANGED <<pendingAudio, sentRing, link, wire, nextChunk, gatt, ws, asked, owed>>

StopClears ==
    /\ drop.pc = "clear"
    /\ pendingAudio' = <<>>
    /\ sentRing' = <<>>
    /\ drop' = [drop EXCEPT !.pc = "close"]
    /\ UNCHANGED <<started, link, wire, nextChunk, gatt, ws, asked, owed>>

DropCloses ==
    /\ drop.pc = "close"
    /\ wire' = Sent(ByeFrame)
    /\ link' = "none"
    /\ drop' = [drop EXCEPT !.pc = Idle]
    /\ owed' = {}
    /\ UNCHANGED <<started, pendingAudio, sentRing, nextChunk, gatt, ws, asked>>

\* onConnected() after a scan: a new socket.  It runs on the GATT thread, and
\* the backoff (at least 1 s) is far longer than any action still under way.
OnConnected ==
    /\ GattIdle
    /\ drop.pc = Idle
    /\ ws = [pc |-> Idle, out |-> <<>>]
    /\ link = "none"
    /\ link' = "connecting"
    /\ wire' = <<>>
    /\ asked' = {}
    /\ UNCHANGED <<started, pendingAudio, sentRing, nextChunk, gatt, ws, drop, owed>>

SessInit ==
    /\ started = FALSE
    /\ pendingAudio = <<>>
    /\ sentRing = <<>>
    /\ link = "none"
    /\ wire = <<>>
    /\ nextChunk = 1
    /\ gatt = [pc |-> Idle, chunk |-> 1]
    /\ ws = [pc |-> Idle, out |-> <<>>]
    /\ drop = [pc |-> Idle, by |-> "gatt"]
    /\ asked = {}
    /\ owed = {}

SessNext ==
    \/ OnDeviceAudio \/ BleLoses \/ Hold \/ Push \/ Send
    \/ OnOpen \/ StartReads \/ StartClears \/ Execute
    \/ \E from, to \in Chunks : OnRequestChunks(from, to)
    \/ \E t \in Threads : SoftDrop(t)
    \/ StopClears \/ DropCloses
    \/ OnConnected

SessSpec == SessInit /\ [][SessNext]_sessVars

-----------------------------------------------------------------------------
SessTypeOK ==
    /\ started \in BOOLEAN
    /\ pendingAudio \in Seq(Chunks)
    /\ sentRing \in Seq(Chunks) /\ Len(sentRing) <= RingMax
    /\ link \in {"none", "connecting", "open"}
    /\ wire \in Seq(Chunks \union {HelloFrame, ByeFrame})
    /\ nextChunk \in Chunks
    /\ gatt \in [pc : {Idle, "hold", "push", "send"}, chunk : Chunks]
    /\ ws \in [pc : {Idle, "read", "clear"}, out : Seq(Chunks \union {HelloFrame})]
    /\ drop \in [pc : {Idle, "clear", "close"}, by : Threads]
    /\ asked \in SUBSET Chunks
    /\ owed \in SUBSET asked

\* Held audio, live audio and the flush race for the socket, but a packet goes
\* out a second time only because the server asked for it.
OnceOnWire ==
    \A i, j \in 1 .. Len(wire) :
        i < j /\ wire[i] = wire[j] => wire[i] \in asked

\* RelaySession: "flush it after `hello` so `hello` is always first".
HelloFirst == wire # <<>> => wire[1] \in {HelloFrame, ByeFrame}

\* A backfill the ring can serve is served, or the link is dropped.
BackfillAnswered == owed # {} ~> owed = {}
=============================================================================
