------------------------- MODULE CommandDispatcher -------------------------
(***************************************************************************)
(* The server's command registry (commands/dispatcher.py) and the durable  *)
(* record it writes (commands/store.py).  A command is its command_id; it  *)
(* carries an idempotency key and an expiry.  The dispatcher lives in      *)
(* memory, the store survives a restart of the gateway process.            *)
(***************************************************************************)
EXTENDS Integers, Sequences, Filtering

CONSTANTS
    CommandIds,  \* ids the id generator mints
    Keys,        \* idempotency keys callers use
    NoKey,       \* a command without an idempotency key
    Ttl,         \* validity of a command, in clock steps (DEFAULT_TTL)
    MaxNow,      \* bound on the clock
    Absent       \* "no entry": None in the dictionaries

ASSUME TtlAssumption == Ttl \in Nat \ {0} /\ MaxNow \in Nat
ASSUME KeyAssumption == NoKey \notin Keys
ASSUME AbsentAssumption == Absent \notin CommandIds

\* CommandStatus, in the order of STATUS_ORDER, then the terminal states.
StatusOrder == <<"pending", "validated", "issued", "delivered", "executing">>
Terminal == {"completed", "failed", "cancelled", "timed_out"}
Statuses == {StatusOrder[i] : i \in 1 .. 5} \union Terminal

ASSUME AbsentStatus == Absent \notin Statuses

VARIABLES
    now,      \* the dispatcher's clock
    order,    \* _signed: the tracked command_ids, in issue order
    key,      \* idempotency key each minted command was signed with
    expires,  \* expires_at of each minted command
    idem,     \* _idem: key -> command_id that last took it
    acked,    \* _acked
    status,   \* _status (the last entry of _history)
    stored,   \* status column of command_records, on disk
    minted    \* history: ids ever signed, in this process or an earlier one

dispVars == <<now, order, key, expires, idem, acked, status, stored, minted>>

-----------------------------------------------------------------------------
Tracked == {order[i] : i \in 1 .. Len(order)}

\* Command.is_expired
Expired(c) == now >= expires[c]

\* pending(): unacked and unexpired, in issue order.
Pending == Filter(order, {c \in CommandIds \ acked : ~Expired(c)})

\* is_valid_transition
IsValidTransition(from, to) ==
    /\ from # to
    /\ from \notin Terminal
    /\ \/ to \in {"cancelled", "timed_out"}
       \/ to \in {"completed", "failed"} /\ from = "executing"
       \/ \E i \in 1 .. 4 : from = StatusOrder[i] /\ to = StatusOrder[i + 1]

\* expires_at of a command signed now.
ExpiresAt == now + Ttl

\* Mutation: the key is looked up but an unacked holder is not honoured.
AbsorbingIgnoresKey(k) == FALSE

\* issue() returns the command already holding the key when it is unacked.
Absorbing(k) == k # NoKey /\ idem[k] # Absent /\ idem[k] \notin acked

\* issue() when the key, or the command_id itself, is already tracked: the
\* original signed command is returned, the id just minted is discarded.
IssueAbsorbed(c, k) ==
    /\ Absorbing(k) \/ c \in Tracked
    /\ UNCHANGED dispVars

\* issue() of a new command: sign, track, record PENDING, save.
IssueNew(c, k) ==
    /\ ~Absorbing(k)
    /\ c \notin minted
    /\ order' = Append(order, c)
    /\ key' = [key EXCEPT ![c] = k]
    /\ expires' = [expires EXCEPT ![c] = ExpiresAt]
    /\ idem' = IF k = NoKey THEN idem ELSE [idem EXCEPT ![k] = c]
    /\ status' = [status EXCEPT ![c] = "pending"]
    /\ stored' = [stored EXCEPT ![c] = "pending"]
    /\ minted' = minted \union {c}
    /\ UNCHANGED <<now, acked>>

Issue(c, k) == IssueAbsorbed(c, k) \/ IssueNew(c, k)

\* ack(): any id the device echoes, tracked by this process or not.
Ack(c) ==
    /\ acked' = acked \union {c}
    /\ UNCHANGED <<now, order, key, expires, idem, status, stored, minted>>

\* transition(): the in-memory lifecycle only.
Transition(c, to) ==
    /\ c \in Tracked
    /\ IsValidTransition(status[c], to)
    /\ status' = [status EXCEPT ![c] = to]
    /\ UNCHANGED <<now, order, key, expires, idem, acked, stored, minted>>

\* The gateway process restarts: a new, empty dispatcher over the same store.
Restart ==
    /\ order' = <<>>
    /\ idem' = [k \in Keys |-> Absent]
    /\ acked' = {}
    /\ status' = [c \in CommandIds |-> Absent]
    /\ UNCHANGED <<now, key, expires, stored, minted>>

Tick ==
    /\ now < MaxNow
    /\ now' = now + 1
    /\ UNCHANGED <<order, key, expires, idem, acked, status, stored, minted>>

DispInit ==
    /\ now = 0
    /\ order = <<>>
    /\ key = [c \in CommandIds |-> NoKey]
    /\ expires = [c \in CommandIds |-> 0]
    /\ idem = [k \in Keys |-> Absent]
    /\ acked = {}
    /\ status = [c \in CommandIds |-> Absent]
    /\ stored = [c \in CommandIds |-> Absent]
    /\ minted = {}

DispNext ==
    \/ \E c \in CommandIds, k \in Keys \union {NoKey} :
         (c \notin minted \/ c \in Tracked) /\ Issue(c, k)
    \/ \E c \in minted : Ack(c)
    \/ \E c \in CommandIds, s \in Statuses : Transition(c, s)
    \/ Restart
    \/ Tick

DispSpec == DispInit /\ [][DispNext]_dispVars

-----------------------------------------------------------------------------
DispTypeOK ==
    /\ now \in Nat
    /\ order \in Seq(CommandIds)
    /\ key \in [CommandIds -> Keys \union {NoKey}]
    /\ expires \in [CommandIds -> Nat]
    /\ idem \in [Keys -> CommandIds \union {Absent}]
    /\ acked \in SUBSET CommandIds
    /\ status \in [CommandIds -> Statuses \union {Absent}]
    /\ stored \in [CommandIds -> Statuses \union {Absent}]
    /\ minted \in SUBSET CommandIds

\* The idempotency promise of issue(): within one process, a key is held by at
\* most one tracked command that the device has not acked, however retries,
\* acks and expiries interleave.
OneUnackedPerKey ==
    \A c, d \in Tracked :
        key[c] = key[d] /\ key[c] # NoKey /\ c \notin acked /\ d \notin acked
            => c = d

\* Strengthening of OneUnackedPerKey: an unacked command is the one its key
\* maps to, and everything tracked was minted.
KeyMapCurrent ==
    /\ Tracked \subseteq minted
    /\ \A c \in Tracked : key[c] # NoKey /\ c \notin acked => idem[key[c]] = c
=============================================================================
