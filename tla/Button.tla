------------------------------- MODULE Button -------------------------------
(***************************************************************************)
(* The pendant's push button: the task that samples it, the gesture        *)
(* classifier, and the deep sleep a very long hold ends in.  Time passes   *)
(* in polls; a poll may be late, since the task has a low priority.  The   *)
(* classifier sees the time modulo Wrap (a 32-bit count of milliseconds)   *)
(* and the level at the poll, nothing between two polls.                   *)
(***************************************************************************)
EXTENDS Integers, Sequences

CONSTANTS
    DoubleGap,    \* BUTTON_DOUBLE_GAP_MS
    Long,         \* BUTTON_LONG_MS
    VeryLong,     \* BUTTON_VERY_LONG_MS
    Wrap,         \* 2^32
    Lags,         \* time between two polls
    MaxPolls      \* bound: polls of a boot

ASSUME ButtonAssumption ==
    /\ DoubleGap \in Nat
    /\ Long \in Nat /\ VeryLong \in Nat /\ Long < VeryLong
    /\ Lags \subseteq Nat \ {0}
    /\ Wrap \in Nat /\ \A d \in Lags : VeryLong + d < Wrap /\ DoubleGap + d < Wrap
    /\ MaxPolls \in Nat

VARIABLES
    state,         \* "idle", "pressed" or "wait_double"
    anchor,        \* anchor_ms
    second_tap,
    awake,
    \* history of this boot
    polls,         \* the level and the time, not wrapped, of every poll
    gestures       \* <<time, gesture>> of every gesture returned

buttonVars == <<state, anchor, second_tap, awake, polls, gestures>>

Clock == IF polls = <<>> THEN 0 ELSE polls[Len(polls)].at

\* Mutation: the clock is taken not to wrap.
ElapsedUnwrapped(now) == (now % Wrap) - anchor

\* dt, in 32-bit arithmetic.
Elapsed(now) == (now - anchor) % Wrap

Becomes(s, a, second) == state' = s /\ anchor' = a % Wrap /\ second_tap' = second

Returns(g, now) == gestures' = gestures \cup {<<now, g>>}

Nothing == UNCHANGED gestures

-----------------------------------------------------------------------------
Press(now) ==
    /\ state = "idle"
    /\ Becomes("pressed", now, FALSE) /\ Nothing

StaysIdle == state = "idle" /\ UNCHANGED <<state, anchor, second_tap>> /\ Nothing

\* While the button is held, and again at its release in case no poll saw it held.
HeldVeryLong(now) ==
    /\ state = "pressed" /\ Elapsed(now) >= VeryLong
    /\ Becomes("idle", anchor, FALSE) /\ Returns("very_long", now)

StillHeld(now) ==
    /\ state = "pressed" /\ Elapsed(now) < VeryLong
    /\ UNCHANGED <<state, anchor, second_tap>> /\ Nothing

ReleaseLong(now) ==
    /\ state = "pressed" /\ Elapsed(now) \in Long .. VeryLong - 1
    /\ Becomes("idle", anchor, FALSE) /\ Returns("long", now)

Tapped(now) == state = "pressed" /\ Elapsed(now) < Long

ReleaseSecond(now) ==
    /\ Tapped(now) /\ second_tap
    /\ Becomes("idle", anchor, FALSE) /\ Returns("double", now)

ReleaseFirst(now) ==
    /\ Tapped(now) /\ ~second_tap
    /\ Becomes("wait_double", now, FALSE) /\ Nothing

InGap(now) == Elapsed(now) <= DoubleGap

PressSecond(now) ==
    /\ state = "wait_double" /\ InGap(now)
    /\ Becomes("pressed", now, TRUE) /\ Nothing

\* The first tap was a single one; this press starts anew.
PressLate(now) ==
    /\ state = "wait_double" /\ ~InGap(now)
    /\ Becomes("pressed", now, FALSE) /\ Returns("short", now)

GapOver(now) ==
    /\ state = "wait_double" /\ ~InGap(now)
    /\ Becomes("idle", anchor, FALSE) /\ Returns("short", now)

StaysWaiting(now) ==
    /\ state = "wait_double" /\ InGap(now)
    /\ UNCHANGED <<state, anchor, second_tap>> /\ Nothing

WhilePressed(now) ==
    Press(now) \/ HeldVeryLong(now) \/ StillHeld(now) \/ PressSecond(now) \/ PressLate(now)

WhileReleased(now) ==
    \/ StaysIdle \/ HeldVeryLong(now) \/ ReleaseLong(now) \/ ReleaseSecond(now)
    \/ ReleaseFirst(now) \/ GapOver(now) \/ StaysWaiting(now)

VeryLongSeen == \E g \in gestures : g[2] = "very_long"

\* One poll and button_classifier_event().
Poll(level, lag) ==
    LET now == Clock + lag IN
    /\ awake /\ ~VeryLongSeen
    /\ Len(polls) < MaxPolls
    /\ polls' = Append(polls, [pressed |-> level, at |-> now])
    /\ IF level THEN WhilePressed(now) ELSE WhileReleased(now)
    /\ UNCHANGED awake

\* dispatch_gesture() of a very long hold does not return.
DeepSleep ==
    /\ awake /\ VeryLongSeen
    /\ awake' = FALSE
    /\ UNCHANGED <<state, anchor, second_tap, polls, gestures>>

\* The wake-up, by the button's level, is a boot: button_classifier_init().
Wake ==
    /\ ~awake
    /\ Becomes("idle", 0, FALSE)
    /\ awake' = TRUE
    /\ polls' = <<>> /\ gestures' = {}

ButtonInit ==
    /\ state = "idle" /\ anchor = 0 /\ second_tap = FALSE
    /\ awake = TRUE
    /\ polls = <<>> /\ gestures = {}

ButtonNext ==
    \/ \E level \in BOOLEAN, lag \in Lags : Poll(level, lag)
    \/ DeepSleep
    \/ Wake

ButtonSpec == ButtonInit /\ [][ButtonNext]_buttonVars

-----------------------------------------------------------------------------
\* The reference: button.h's definition of the gestures, over a whole recording ps.
At(ps, k) == ps[k].at
Pressed(ps, k) == k \in 1 .. Len(ps) /\ ps[k].pressed

Starts(ps, k) == Pressed(ps, k) /\ ~Pressed(ps, k - 1)
Ends(ps, k) == k \in 2 .. Len(ps) /\ ~Pressed(ps, k) /\ Pressed(ps, k - 1)

\* A hold: the polls that saw it begin and end.
Holds(ps) == {h \in (1 .. Len(ps)) \X (1 .. Len(ps)) :
                 /\ Starts(ps, h[1]) /\ Ends(ps, h[2]) /\ h[1] < h[2]
                 /\ \A k \in h[1] .. h[2] - 1 : Pressed(ps, k)}

Length(ps, h) == At(ps, h[2]) - At(ps, h[1])
Tap(ps, h) == Length(ps, h) < Long

\* The press at poll k comes within the gap after tap h.
SoonAfter(ps, k, h) ==
    /\ Starts(ps, k) /\ k > h[2] /\ At(ps, k) - At(ps, h[2]) <= DoubleGap
    /\ \A j \in h[2] .. k - 1 : ~Pressed(ps, j)

\* The polls at which the second press of a pair starts: it follows a tap that is
\* not itself a second one.
SecondPresses(ps) ==
    LET taps == {h \in Holds(ps) : Tap(ps, h)}
        second[k \in 0 .. Len(ps)] == \E h \in taps : SoonAfter(ps, k, h) /\ ~second[h[1]]
    IN  {k \in 1 .. Len(ps) : second[k]}

\* "a tap not followed by a second tap within BUTTON_DOUBLE_GAP_MS of its release.
\* Emits when the gap expires."
Expires(ps, k, h) ==
    /\ k > h[2] /\ At(ps, k) - At(ps, h[2]) > DoubleGap
    /\ \A j \in h[2] .. k - 1 : ~Pressed(ps, j) /\ At(ps, j) - At(ps, h[2]) <= DoubleGap

\* "Emits IN-BAND (while still held)", at the first poll past BUTTON_VERY_LONG_MS.
VeryLongs(ps) ==
    {k \in 1 .. Len(ps) :
        \E j \in 1 .. k - 1 :
            /\ Starts(ps, j) /\ \A i \in j .. k - 1 : Pressed(ps, i)
            /\ At(ps, k) - At(ps, j) >= VeryLong /\ At(ps, k - 1) - At(ps, j) < VeryLong}

Defined(ps) ==
    LET holds  == Holds(ps)
        taps   == {h \in holds : Tap(ps, h)}
        second == SecondPresses(ps)
        single == {h \in taps : h[1] \notin second}
    IN  {<<At(ps, k), "short">> :
            k \in {j \in 1 .. Len(ps) : \E h \in single : Expires(ps, j, h)}}
        \cup {<<At(ps, h[2]), "double">> : h \in taps \ single}
        \cup {<<At(ps, h[2]), "long">> :
                 h \in {g \in holds : Length(ps, g) \in Long .. VeryLong - 1}}
        \cup {<<At(ps, k), "very_long">> : k \in VeryLongs(ps)}

\* What the classifier has returned, and when, is what the definition says of the
\* same polls: no gesture is missed, doubled or made up, however late a poll is,
\* and across a wrap of the clock.
GesturesAsDefined == gestures = Defined(polls)
=============================================================================
