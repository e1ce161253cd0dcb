----------------------------- MODULE Reassembler -----------------------------
(***************************************************************************)
(* The server's per-session reassembler (ingest/reassembler.py) and the    *)
(* part of GatewayCore.on_audio that drives it.                            *)
(*                                                                         *)
(* A packet is its chunk_seq.  on_audio first accepts the packet, then     *)
(* transcribes, which takes time, then asks for the missing range; both    *)
(* calls may give up on a head gap whose deadline has passed.              *)
(***************************************************************************)
EXTENDS Integers, Sequences

CONSTANTS
    StartSeq,    \* start_seq of the hello; 0 means a live stream to anchor
    GapTimeout   \* gap_timeout_ms, in steps of the clock

ASSUME SeqAssumption == StartSeq \in Nat
ASSUME TimeoutAssumption == GapTimeout \in Nat \ {0}

Closed == -1         \* the age of no gap: _gap_opened_at is None
NoGap == <<-1, -1>>  \* missing_range() is None

VARIABLES
    next,       \* _next
    anchored,   \* _anchored
    buffer,     \* keys of _buffer: future packets held for ordering
    pending,    \* _pending: drained by a skip, waiting for the next accept
    age,        \* _clock() - _gap_opened_at, counted up to the deadline
    lastGap,    \* GatewayCore._last_requested_gap
    busy,       \* on_audio is between accept and missing_range
    live,       \* the session has not said bye nor lost its connection
    \* history of the session
    accepted,   \* packets not dropped as old
    delivered   \* packets handed to the transcriber, in order

reasmVars == <<next, anchored, buffer, pending, age, lastGap, busy,
               live, accepted, delivered>>

-----------------------------------------------------------------------------
\* The sequence n, ..., m - 1.
Run(n, m) == [i \in 1 .. (m - n) |-> n + i - 1]

\* "while self._next in self._buffer": popping from n stops at m.
DrainsTo(n, m, B) ==
    /\ n <= m
    /\ m \notin B
    /\ n .. (m - 1) \subseteq B

\* Where such a drain can stop.
DrainEnds(n, B) == {n} \union {b + 1 : b \in B}

\* min(self._buffer)
Lowest(lo, B) == lo \in B /\ \A b \in B : lo <= b

\* Mutation: the deadline is compared the wrong way round at the boundary.
DueStrict == age > GapTimeout

Due == age >= GapTimeout

\* _maybe_skip_stale_gap(): the state it leaves.  One outcome in each case; the
\* set form names it without having to choose it.
Outcome(n, B, p, a) == [next |-> n, buffer |-> B, pending |-> p, age |-> a]

PassedGap(lo, m) ==
    Outcome(m, buffer \ (lo .. (m - 1)), pending \o Run(lo, m), Closed)

PassedGaps ==
    UNION {{PassedGap(lo, m) : m \in {e \in DrainEnds(lo, buffer) : DrainsTo(lo, e, buffer)}} :
             lo \in {b \in buffer : Lowest(b, buffer)}}

\* Mutation: every call starts the clock again.
SkipRestartsClock ==
    IF buffer = {} THEN {Outcome(next, buffer, pending, Closed)}
    ELSE IF age = Closed \/ ~Due THEN {Outcome(next, buffer, pending, 0)}
    ELSE PassedGaps

SkipOutcomes ==
    IF buffer = {} THEN {Outcome(next, buffer, pending, Closed)}
    ELSE IF age = Closed THEN {Outcome(next, buffer, pending, 0)}
    ELSE IF ~Due THEN {Outcome(next, buffer, pending, age)}
    ELSE PassedGaps

\* Mutation: the parked packets are cleared before they are read.
FlushesNothing(s) == delivered

\* "delivered = self._pending": what the transcriber has once they are flushed.
Flushed(s) == delivered \o s.pending

\* accept_packets(seq) after the anchoring and the skip s: old, future, next.
Old(seq, s) ==
    /\ seq < s.next
    /\ next' = s.next
    /\ buffer' = s.buffer
    /\ age' = s.age
    /\ delivered' = Flushed(s)
    /\ UNCHANGED accepted

Future(seq, s) ==
    /\ seq > s.next
    /\ next' = s.next
    /\ buffer' = s.buffer \union {seq}
    /\ age' = s.age
    /\ delivered' = Flushed(s)
    /\ accepted' = accepted \union {seq}

\* Mutation: the packet is handed on ahead of the parked ones.
InTurnBeforeParked(seq, s) ==
    /\ seq = s.next
    /\ \E m \in DrainEnds(seq + 1, s.buffer) :
         /\ DrainsTo(seq + 1, m, s.buffer)
         /\ next' = m
         /\ buffer' = s.buffer \ (seq .. (m - 1))
         /\ delivered' = delivered \o Run(seq, m) \o s.pending
    /\ age' = Closed
    /\ accepted' = accepted \union {seq}

InTurn(seq, s) ==
    /\ seq = s.next
    /\ \E m \in DrainEnds(seq + 1, s.buffer) :
         /\ DrainsTo(seq + 1, m, s.buffer)
         /\ next' = m
         /\ buffer' = s.buffer \ (seq .. (m - 1))
         /\ delivered' = Flushed(s) \o Run(seq, m)
    /\ age' = Closed
    /\ accepted' = accepted \union {seq}

\* accept_packets(): the first packet of a live stream sets the anchor, then the
\* skip, then the packet.
Accept(seq) ==
    /\ live
    /\ ~busy
    /\ busy' = TRUE
    /\ anchored' = TRUE
    /\ \E o \in SkipOutcomes :
         LET s == [o EXCEPT !.next = IF anchored THEN o.next ELSE seq]
         IN  Old(seq, s) \/ Future(seq, s) \/ InTurn(seq, s)
    /\ pending' = <<>>
    /\ UNCHANGED <<lastGap, live>>

\* missing_range(), and the throttle of on_audio: a gap that changed is
\* requested from the relay.
GapAfter(o, hi) == IF o.buffer = {} THEN NoGap ELSE <<o.next, hi>>

CheckGap ==
    /\ busy
    /\ busy' = FALSE
    /\ \E o \in SkipOutcomes :
         /\ next' = o.next
         /\ buffer' = o.buffer
         /\ pending' = o.pending
         /\ age' = o.age
         /\ \E hi \in o.buffer \union {0} :
              /\ o.buffer = {} \/ Lowest(hi, o.buffer)
              /\ lastGap' = GapAfter(o, hi)
    /\ UNCHANGED <<anchored, live, accepted, delivered>>

\* The transcription raises: the worker logs it and on_audio never gets as far
\* as missing_range.
IngestFails ==
    /\ busy
    /\ busy' = FALSE
    /\ UNCHANGED <<next, anchored, buffer, pending, age, lastGap, live,
                   accepted, delivered>>

\* bye, or the connection ends (possibly while the worker is still inside
\* on_audio).  pipeline.flush() drains the streamer and leaves the reassembler
\* alone; no packet reaches this reassembler any more.
EndSession ==
    /\ live
    /\ live' = FALSE
    /\ UNCHANGED <<next, anchored, buffer, pending, age, lastGap, busy,
                   accepted, delivered>>

\* A new connection's hello builds a new reassembler; what the old one still
\* held goes with it.
NewReassembler ==
    /\ next' = StartSeq
    /\ anchored' = (StartSeq # 0)
    /\ buffer' = {}
    /\ pending' = <<>>
    /\ age' = Closed
    /\ lastGap' = NoGap
    /\ busy' = FALSE
    /\ live' = TRUE
    /\ accepted' = {}
    /\ delivered' = <<>>

\* Time passes.  Nothing tells one age past the deadline from another.
ClockTicks ==
    /\ age \in 0 .. (GapTimeout - 1)
    /\ age' = age + 1
    /\ UNCHANGED <<next, anchored, buffer, pending, lastGap, busy, live,
                   accepted, delivered>>

ReasmInit ==
    /\ next = StartSeq
    /\ anchored = (StartSeq # 0)
    /\ buffer = {}
    /\ pending = <<>>
    /\ age = Closed
    /\ lastGap = NoGap
    /\ busy = FALSE
    /\ live = TRUE
    /\ accepted = {}
    /\ delivered = <<>>

ReasmNext ==
    \/ \E seq \in Nat : Accept(seq)
    \/ CheckGap
    \/ IngestFails
    \/ EndSession
    \/ NewReassembler
    \/ ClockTicks

ReasmSpec == ReasmInit /\ [][ReasmNext]_reasmVars

-----------------------------------------------------------------------------
ReasmTypeOK ==
    /\ next \in Nat
    /\ anchored \in BOOLEAN
    /\ buffer \in SUBSET Nat
    /\ pending \in Seq(Nat)
    /\ age \in 0 .. GapTimeout \union {Closed}
    /\ lastGap \in Nat \X Nat \union {NoGap}
    /\ busy \in BOOLEAN
    /\ live \in BOOLEAN
    /\ accepted \in SUBSET Nat
    /\ delivered \in Seq(Nat)

\* Everything handed on or parked lies before the cursor and everything held
\* lies beyond it: the head of the buffer is always a gap, never a packet that
\* could be delivered.  A stream without an anchor has seen no packet.
CursorSplits ==
    /\ ~anchored => buffer = {} /\ accepted = {} /\ pending = <<>> /\ delivered = <<>>
    /\ \A i \in 1 .. Len(delivered) : delivered[i] < next
    /\ \A i \in 1 .. Len(pending) : pending[i] < next
    /\ \A b \in buffer : next < b

\* reassembler.py: "delivers frames strictly in chunk_seq order", whatever the
\* order, duplicates and deadlines of the arrivals; the parked packets keep
\* their place.
InOrder ==
    /\ \A i, j \in 1 .. Len(delivered) : i < j => delivered[i] < delivered[j]
    /\ \A i, j \in 1 .. Len(pending) : i < j => pending[i] < pending[j]
    /\ \A i \in 1 .. Len(delivered), j \in 1 .. Len(pending) :
         delivered[i] < pending[j]

\* "no frames may be silently dropped": neither a skip nor a drain loses an
\* accepted packet, which has been delivered, is parked or is held.
NothingDropped ==
    \A s \in accepted :
        \/ s \in buffer
        \/ \E i \in 1 .. Len(pending) : pending[i] = s
        \/ \E i \in 1 .. Len(delivered) : delivered[i] = s

\* ... "but they are not lost": a packet parked by the skip of missing_range()
\* does not outlive its session, whose end is the last chance to transcribe it.
NoneParkedAtEnd == ~live => pending = <<>>

\* A head gap is given up at its wall-clock deadline: on_audio never answers
\* with a gap that has been open that long.
DeadlineKept ==
    [][CheckGap => age' < GapTimeout]_reasmVars

\* A gap never holds a session up for ever: while packets keep coming, every
\* accepted packet is handed on.
Advances(s) ==
    s \in accepted ~> \/ s \notin accepted
                      \/ ~live
                      \/ \E i \in 1 .. Len(delivered) : delivered[i] = s

Stream == INSTANCE OrderedStream WITH got <- accepted, out <- delivered

\* The reassembler implements the ordered stream its caller relies on.
ImplementsStream == Stream!StreamSpec
=============================================================================
