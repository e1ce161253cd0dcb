---------------------------- MODULE Audio_proofs ----------------------------
(***************************************************************************)
(* The wearable's audio path, for every choice of its constants: the voice *)
(* gate, the drain of the ring, and the replay of a window of it.          *)
(*                                                                         *)
(* The gate's floor moves by a product of two numbers neither of which is  *)
(* fixed, shifted down; the lemmas bound that step once.  FloorWithinHeard *)
(* is not inductive: that the floor stays below Word needs the loudest     *)
(* frame it has followed to be one a microphone can give.                  *)
(*                                                                         *)
(* VoicedAccounted speaks of the cursor between batches; what makes it     *)
(* inductive is where the frames of a batch are while it is collected and  *)
(* packed (InHand).  WindowReplayed likewise speaks of a finished request; *)
(* SoFar says the same of the part of the window that has been read.       *)
(*                                                                         *)
(* RepeatsOnce needs a chunk shorter than the preroll and longer than half *)
(* of it (Ratio): with equal ones the drain would rewind from one onset    *)
(* again and again.  Rep is the account of where a rewind's frames lie.    *)
(***************************************************************************)
EXTENDS RingReplay, Vad, Filter_proofs

-----------------------------------------------------------------------------
\* THE VOICE GATE

\* A product grows with its first factor.
LEMMA ProductGrows ==
    ASSUME NEW a \in Int, NEW b \in Int, NEW c \in Nat, a <= b
    PROVE  a * c \in Int /\ b * c \in Int /\ a * c <= b * c
<1>1. b - a \in Nat
  OBVIOUS
<1>2. (b - a) * c \in Nat
  BY <1>1, SMT
<1>3. b * c = a * c + (b - a) * c
  BY SMT
<1> QED
  BY <1>2, <1>3, SMT

\* Shifting a number between two multiples of Q gives a number between the factors.
LEMMA ShiftBetween ==
    ASSUME NEW n \in Int, NEW lo \in Int, NEW hi \in Int, lo * Q <= n, n < (hi + 1) * Q
    PROVE  Shifted(n) \in Int /\ lo <= Shifted(n) /\ Shifted(n) <= hi
<1> DEFINE s == n \div Q
<1>1. Q \in Nat /\ Q > 0
  BY VadAssumption
<1>2. s \in Int /\ s * Q <= n /\ n < (s + 1) * Q
  <2>1. s \in Int /\ Q * s <= n /\ n < Q * s + Q
    BY <1>1, SMT
  <2>2. (s + 1) * Q = s * Q + Q /\ s * Q = Q * s
    BY <1>1, <2>1, SMT
  <2> QED
    BY <2>1, <2>2
<1> HIDE DEF s
<1>3. lo <= s
  <2> SUFFICES ASSUME s + 1 <= lo PROVE FALSE
    BY <1>2
  <2>1. (s + 1) * Q <= lo * Q /\ (s + 1) * Q \in Int /\ lo * Q \in Int
    BY <1>1, <1>2, ProductGrows
  <2> QED
    BY <1>2, <2>1
<1>4. s <= hi
  <2> SUFFICES ASSUME hi + 1 <= s PROVE FALSE
    BY <1>2
  <2>1. (hi + 1) * Q <= s * Q /\ (hi + 1) * Q \in Int /\ s * Q \in Int
    BY <1>1, <1>2, ProductGrows
  <2> QED
    BY <1>2, <2>1
<1> QED
  BY <1>2, <1>3, <1>4 DEF Shifted, s

\* A fall scaled by a factor of at most one is a fall, and no deeper.
LEMMA ShiftFalls ==
    ASSUME NEW d \in Int, d < 0, NEW al \in 0 .. Q
    PROVE  Shifted(d * al) \in Int /\ d <= Shifted(d * al) /\ Shifted(d * al) <= 0
<1> DEFINE p == d * al
           q == d * Q
<1>1. Q \in Nat /\ Q > 0 /\ (0 + 1) * Q = Q
  BY VadAssumption
<1>2. -d \in Nat /\ al \in Int /\ Q \in Int /\ 0 <= al /\ al <= Q
  BY <1>1
<1>3. al * (-d) <= Q * (-d) /\ 0 * (-d) <= al * (-d)
  BY <1>2, ProductGrows
<1>4. al * (-d) = -p /\ Q * (-d) = -q /\ 0 * (-d) = 0 /\ p \in Int /\ q \in Int
  BY <1>2, SMT
<1> HIDE DEF p, q
<1>5. q <= p /\ p <= 0
  BY <1>3, <1>4
<1>6. p < (0 + 1) * Q
  BY <1>1, <1>4, <1>5
<1>7. d * Q <= p
  BY <1>5 DEF q
<1>8. 0 \in Int
  OBVIOUS
<1>9. Shifted(p) \in Int /\ d <= Shifted(p) /\ Shifted(p) <= 0
  BY <1>4, <1>6, <1>7, <1>8, ShiftBetween, Zenon
<1> QED
  BY <1>9 DEF p

\* A rise scaled by a factor of at most one is a rise, and no higher.
LEMMA ShiftRises ==
    ASSUME NEW d \in Nat, NEW al \in 0 .. Q
    PROVE  Shifted(d * al) \in Int /\ 0 <= Shifted(d * al) /\ Shifted(d * al) <= d
<1> DEFINE p == d * al
           q == Q * d
           r == (d + 1) * Q
<1>1. Q \in Nat /\ Q > 0 /\ 0 * Q = 0
  BY VadAssumption
<1>2. al \in Int /\ Q \in Int /\ 0 <= al /\ al <= Q
  BY <1>1
<1>3. al * d <= Q * d /\ 0 * d <= al * d
  BY <1>2, ProductGrows
<1>4. al * d = p /\ 0 * d = 0 /\ r = q + Q /\ p \in Int /\ q \in Int
  BY <1>2, SMT
<1>5. 0 <= p /\ p <= q
  BY <1>3, <1>4
<1> HIDE DEF p, q, r
<1>6. 0 * Q <= p /\ p < r
  BY <1>1, <1>4, <1>5
<1>7. p < (d + 1) * Q
  BY <1>6 DEF r
<1>8. 0 \in Int /\ d \in Int
  OBVIOUS
<1>9. Shifted(p) \in Int /\ 0 <= Shifted(p) /\ Shifted(p) <= d
  BY <1>4, <1>6, <1>7, <1>8, ShiftBetween, Zenon
<1> QED
  BY <1>9 DEF p

\* The step of the floor towards a frame never passes the frame and never goes the
\* other way.
LEMMA UpdateBounded ==
    ASSUME noise_floor \in Nat, NEW e \in Nat
    PROVE  /\ Update(e - noise_floor, e) \in Int
           /\ e < noise_floor => /\ e - noise_floor <= Update(e - noise_floor, e)
                                 /\ Update(e - noise_floor, e) <= 0
           /\ noise_floor <= e => /\ 0 <= Update(e - noise_floor, e)
                                  /\ Update(e - noise_floor, e) <= e - noise_floor
<1> DEFINE d == e - noise_floor
<1> HIDE DEF d
<1>1. d \in Int /\ Q \in Nat /\ Q > 0 /\ AlphaUp \in 0 .. Q /\ AlphaDown \in 0 .. Q
  BY VadAssumption DEF d
<1>2. CASE d < 0
  <2>1. Shifted(d * AlphaDown) \in Int /\ d <= Shifted(d * AlphaDown)
        /\ Shifted(d * AlphaDown) <= 0
    BY <1>1, <1>2, ShiftFalls, Zenon
  <2>2. Update(d, e) = Shifted(d * AlphaDown)
    BY <1>2 DEF Update
  <2>3. Update(d, e) \in Int /\ d <= Update(d, e) /\ Update(d, e) <= 0
    BY <2>1, <2>2
  <2> QED
    BY <1>2, <2>3 DEF d
<1>3. CASE ~(d < 0)
  <2>1. Shifted(d * AlphaUp) \in Int /\ 0 <= Shifted(d * AlphaUp)
        /\ Shifted(d * AlphaUp) <= d
    <3>1. d \in Nat
      BY <1>1, <1>3
    <3> QED
      BY <1>1, <3>1, ShiftRises, Zenon
  <2>2. Update(d, e) = Shifted(d * AlphaUp) \/ Update(d, e) = 0
    BY <1>3 DEF Update
  <2>3. Update(d, e) \in Int /\ 0 <= Update(d, e) /\ Update(d, e) <= d
    BY <1>1, <1>3, <2>1, <2>2
  <2> QED
    BY <1>3, <2>3 DEF d
<1> QED
  BY <1>2, <1>3

\* The floor after a gap: between the frame and the old floor.
LEMMA FloorFollows ==
    ASSUME noise_floor \in Nat, NEW e \in Nat, Follows(e)
    PROVE  /\ noise_floor' \in Nat
           /\ noise_floor' = noise_floor + Update(e - noise_floor, e)
           /\ e < noise_floor => e <= noise_floor' /\ noise_floor' <= noise_floor
           /\ noise_floor <= e => noise_floor <= noise_floor' /\ noise_floor' <= e
<1> DEFINE u == Update(e - noise_floor, e)
<1>1. /\ u \in Int
      /\ e < noise_floor => e - noise_floor <= u /\ u <= 0
      /\ noise_floor <= e => 0 <= u /\ u <= e - noise_floor
  BY UpdateBounded
<1>2. noise_floor' = IF noise_floor + u < 0 THEN 0 ELSE noise_floor + u
  BY DEF Follows
<1> HIDE DEF u
<1>3. noise_floor + u >= 0
  BY <1>1
<1>4. noise_floor' = noise_floor + u
  BY <1>1, <1>2, <1>3
<1> QED
  BY <1>1, <1>3, <1>4 DEF u

-----------------------------------------------------------------------------
\* What the floor has followed are energies of frames.
FloorInv ==
    /\ quietest <= noise_floor /\ noise_floor <= loudest
    /\ loudest <= MaxEnergy

VadInv == VadTypeOK /\ FloorInv /\ TailKept

\* The start satisfies it.
LEMMA VadInvInit == VadInit => VadInv
<1> SUFFICES ASSUME VadInit
             PROVE  VadInv
  OBVIOUS
<1>1. FloorMin \in Nat /\ FloorMin <= MaxEnergy /\ HangoverFrames \in Nat
  BY VadAssumption
<1>2. VadTypeOK
  <2>1. hangover_left \in 0 .. HangoverFrames /\ sinceSpeech \in 0 .. Never
    BY <1>1 DEF VadInit, Never
  <2>2. gated \in BOOLEAN /\ tagged \in VadStates
    BY DEF VadInit, VadStates
  <2>3. noise_floor \in Nat /\ quietest \in Nat /\ loudest \in Nat
    BY <1>1 DEF VadInit
  <2> QED
    BY <2>1, <2>2, <2>3 DEF VadTypeOK
<1>3. FloorInv /\ TailKept
  BY <1>1 DEF VadInit, FloorInv, TailKept, Never
<1> QED
  BY <1>2, <1>3 DEF VadInv

\* Every frame, pause and resume keeps it.
LEMMA VadInvNext == VadInv /\ [VadNext]_vadVars => VadInv'
<1> SUFFICES ASSUME VadInv, [VadNext]_vadVars
             PROVE  VadInv'
  OBVIOUS
<1> USE DEF VadInv
<1>0. HangoverFrames \in Nat /\ MaxEnergy \in Nat /\ \A e \in Energies : e \in Nat /\ e <= MaxEnergy
  BY VadAssumption
<1>1. ASSUME NEW e \in Energies, Speech(e)
      PROVE  VadInv'
  BY <1>0, <1>1 DEF Speech, Refill, VadTypeOK, FloorInv, TailKept, VadStates, Never
<1>2. ASSUME NEW e \in Energies, Hangover(e)
      PROVE  VadInv'
  BY <1>0, <1>2
     DEF Hangover, Left, Classified, VadTypeOK, FloorInv, TailKept, VadStates, Never
<1>3. ASSUME NEW e \in Energies, Gap(e)
      PROVE  VadInv'
  <2>1. e \in Nat /\ e <= MaxEnergy /\ noise_floor \in Nat /\ Follows(e)
    BY <1>0, <1>3 DEF Gap, VadTypeOK
  <2>2. /\ noise_floor' \in Nat
        /\ e < noise_floor => e <= noise_floor' /\ noise_floor' <= noise_floor
        /\ noise_floor <= e => noise_floor <= noise_floor' /\ noise_floor' <= e
    BY <2>1, FloorFollows
  <2>3. FloorInv'
    BY <1>3, <2>1, <2>2 DEF Gap, VadTypeOK, FloorInv
  <2>4. VadTypeOK'
    BY <1>0, <1>3, <2>1, <2>2 DEF Gap, Classified, VadTypeOK, VadStates, Never
  <2>5. TailKept'
    BY <1>0, <1>3 DEF Gap, Classified, VadTypeOK, TailKept, Never
  <2> QED
    BY <2>3, <2>4, <2>5
<1>4. CASE PausedFrame
  BY <1>4 DEF PausedFrame, VadTypeOK, FloorInv, TailKept, VadStates
<1>5. CASE AudioGate
  BY <1>5 DEF AudioGate, VadTypeOK, FloorInv, TailKept
<1>6. CASE UNCHANGED vadVars
  BY <1>6 DEF vadVars, VadTypeOK, FloorInv, TailKept
<1> QED
  BY <1>1, <1>2, <1>3, <1>4, <1>5, <1>6 DEF VadNext

\* The gate's counters stay in range through every frame and pause
\* (vad_process_single_adaptive()).
THEOREM VadTypeCorrect == VadSpec => []VadTypeOK
  BY VadInvInit, VadInvNext, PTL DEF VadSpec, VadInv

\* vad.c keeps the noise floor within what it has heard, and the 32-bit product of the
\* threshold is exact, for every multiplier that fits the loudest frame.
THEOREM FloorStaysWithinHeard == VadSpec => []FloorWithinHeard
<1>1. VadInv => FloorWithinHeard
  <2> SUFFICES ASSUME VadInv
               PROVE  FloorWithinHeard
    OBVIOUS
  <2>1. /\ noise_floor \in Int /\ noise_floor <= MaxEnergy /\ MaxEnergy \in Int
        /\ quietest <= noise_floor /\ noise_floor <= loudest
        /\ Multiplier \in Nat /\ Word \in Nat /\ MaxEnergy * Multiplier < Word
    BY VadAssumption DEF VadInv, VadTypeOK, FloorInv
  <2>2. /\ noise_floor * Multiplier <= MaxEnergy * Multiplier
        /\ noise_floor * Multiplier \in Int /\ MaxEnergy * Multiplier \in Int
    BY <2>1, ProductGrows
  <2>3. noise_floor * Multiplier < Word
    BY <2>1, <2>2
  <2> QED
    BY <2>1, <2>3 DEF FloorWithinHeard
<1> QED
  BY <1>1, VadInvInit, VadInvNext, PTL DEF VadSpec

\* vad.c emits exactly the hangover after the last frame of speech, however bursts and
\* pauses follow each other.
THEOREM TailStaysKept == VadSpec => []TailKept
  BY VadInvInit, VadInvNext, PTL DEF VadSpec, VadInv

\* vad.c:101: below 2 * Q / AlphaUp the shifted rise is zero, so the floor never rises.
THEOREM LowFloorNeverRises == VadSpec => LowFloorStaysLow
<1>1. ASSUME VadInv, [VadNext]_vadVars, noise_floor * AlphaUp < 2 * Q
      PROVE  noise_floor' <= noise_floor
  <2>1. ASSUME NEW e \in Energies, Gap(e)
        PROVE  noise_floor' <= noise_floor
    <3> DEFINE d == e - noise_floor
    <3>1. e \in Nat /\ noise_floor \in Nat /\ Follows(e)
      BY <1>1, <2>1, VadAssumption DEF Gap, VadInv, VadTypeOK
    <3>2. noise_floor' = noise_floor + Update(d, e)
      BY <3>1, FloorFollows
    <3>3. Update(d, e) \in Int /\ Update(d, e) <= 0
      <4>1. CASE e < noise_floor
        BY <3>1, <4>1, UpdateBounded
      <4>2. CASE noise_floor <= e /\ e < (noise_floor * 3) \div 2
        <5>1. d \in Nat /\ 2 * d <= noise_floor
          BY <3>1, <4>2
        <5>2. AlphaUp \in 0 .. Q /\ AlphaUp \in Nat /\ Q \in Nat
          BY VadAssumption
        <5>3. (2 * d) * AlphaUp <= noise_floor * AlphaUp /\ noise_floor * AlphaUp \in Int
          BY <3>1, <5>1, <5>2, ProductGrows
        <5> HIDE DEF d
        <5>4. (2 * d) * AlphaUp = 2 * (d * AlphaUp) /\ d * AlphaUp \in Nat
          BY <5>1, <5>2, SMT
        <5>5. d * AlphaUp < Q
          BY <1>1, <5>2, <5>3, <5>4
        <5>6. 0 * Q = 0 /\ (0 + 1) * Q = Q /\ 0 \in Int
          BY <5>2
        <5>7. 0 * Q <= d * AlphaUp /\ d * AlphaUp < (0 + 1) * Q /\ d * AlphaUp \in Int
          BY <5>4, <5>5, <5>6
        <5>8. Shifted(d * AlphaUp) \in Int /\ Shifted(d * AlphaUp) <= 0
          BY <5>6, <5>7, ShiftBetween, Zenon
        <5>9. Update(d, e) = Shifted(d * AlphaUp)
          BY <4>2, <5>1 DEF Update
        <5> QED
          BY <5>8, <5>9
      <4>3. CASE noise_floor <= e /\ ~(e < (noise_floor * 3) \div 2)
        BY <3>1, <4>3 DEF Update
      <4> QED
        BY <3>1, <4>1, <4>2, <4>3
    <3> QED
      BY <3>1, <3>2, <3>3
  <2>2. CASE UNCHANGED noise_floor
    BY <1>1, <2>2 DEF VadInv, VadTypeOK
  <2> QED
    BY <1>1, <2>1, <2>2 DEF VadNext, Speech, Hangover, PausedFrame, AudioGate, vadVars
<1>2. VadInv /\ [VadNext]_vadVars
        => [noise_floor * AlphaUp < 2 * Q => noise_floor' <= noise_floor]_vadVars
  BY <1>1
<1> QED
  BY <1>2, VadInvInit, VadInvNext, PTL DEF VadSpec, LowFloorStaysLow

-----------------------------------------------------------------------------
\* THE DRAIN

Accounted(f) == sent[f] > 0 \/ f \in lapped \/ f \in oversize

InBatch(f) == \E k \in 1 .. Len(batch) : batch[k].frame = f

\* How far the current batch has been read.
Reach ==
    IF pc = "poll" THEN cursor ELSE IF pc = "emit" THEN cursor + Chunk ELSE cursor + i

\* VoicedAccounted speaks of the cursor between batches; what makes it inductive is
\* where the frames of a batch are while it is collected and packed.
Behind == \A f \in 0 .. w - 1 : f < cursor /\ Voiced(f) => Accounted(f)

InHand ==
    \A f \in 0 .. w - 1 :
        cursor <= f /\ f < Reach /\ Voiced(f) => Accounted(f) \/ InBatch(f)

DInv ==
    /\ DrainTypeOK
    /\ CursorBehind
    /\ LostOnlyWhenLapped
    /\ Behind
    /\ InHand

-----------------------------------------------------------------------------
\* Sequences of any set S: a larger set, one element more, the first n elements less.
LEMMA SeqWiden == ASSUME NEW S, NEW T, S \subseteq T, NEW s \in Seq(S) PROVE s \in Seq(T)
  OBVIOUS

LEMMA EmptyIs == ASSUME NEW S PROVE <<>> \in Seq(S)
  OBVIOUS

LEMMA AppendIs ==
    ASSUME NEW S, NEW s \in Seq(S), NEW e \in S
    PROVE  /\ Append(s, e) \in Seq(S)
           /\ Len(s) \in Nat /\ Len(Append(s, e)) = Len(s) + 1
           /\ \A k \in 1 .. Len(s) : Append(s, e)[k] = s[k]
           /\ Append(s, e)[Len(s) + 1] = e
  OBVIOUS

LEMMA DropIs ==
    ASSUME NEW S, NEW s \in Seq(S), NEW n \in Nat, n <= Len(s)
    PROVE  LET t == SubSeq(s, n + 1, Len(s)) IN
           /\ t \in Seq(S)
           /\ Len(t) = Len(s) - n
           /\ \A k \in 1 .. Len(s) - n : t[k] = s[k + n]
  OBVIOUS

LEMMA TailIs ==
    ASSUME NEW S, NEW s \in Seq(S), s # <<>>
    PROVE  /\ Len(s) \in Nat \ {0} /\ s[1] \in S
           /\ Tail(s) \in Seq(S)
           /\ Len(Tail(s)) = Len(s) - 1
           /\ \A k \in 1 .. Len(s) - 1 : Tail(s)[k] = s[k + 1]
  OBVIOUS

\* DrainInit: nothing is pushed, nothing is owed.
LEMMA DrainInitDInv == DrainInit => DInv
<1> SUFFICES ASSUME DrainInit PROVE DInv
  OBVIOUS
<1> USE RingDrainAssumption
<1>1. /\ kind \in [0 .. w - 1 -> Kinds] /\ sent \in [0 .. w - 1 -> Nat]
      /\ batch \in Seq([frame : 0 .. w - 1, tag : Tags \ {"none"}])
  BY EmptyIs DEF DrainInit
<1>a. inSpeech \in BOOLEAN /\ prerolled \in BOOLEAN
  BY Zenon DEF DrainInit
<1>b. lapped = {} /\ oversize = {} /\ rewound = {} /\ pc = "poll" /\ lastTag = "none"
  BY Zenon DEF DrainInit
<1>c. w = 0 /\ cursor = 0 /\ base = 0 /\ i = 0
  BY Zenon DEF DrainInit
<1>2. DrainTypeOK
  BY <1>1, <1>a, <1>b, <1>c DEF DrainTypeOK, Tags
<1>3. CursorBehind /\ LostOnlyWhenLapped /\ Behind /\ InHand
  BY DEF DrainInit, CursorBehind, LostOnlyWhenLapped, Behind, InHand
<1> QED
  BY <1>2, <1>3 DEF DInv

\* AudioPush: the indices of old frames keep their meaning.
LEMMA PushKeeps == ASSUME DInv, NEW k \in Kinds, AudioPush(k) PROVE DInv'
<1> USE RingDrainAssumption
<1>1. DrainTypeOK /\ CursorBehind /\ LostOnlyWhenLapped /\ Behind /\ InHand
  BY DEF DInv
<1>2. w \in Nat /\ w' = w + 1 /\ 0 .. w - 1 \subseteq 0 .. w' - 1 /\ 0 .. w' - 1 = 0 .. w
  BY <1>1 DEF DrainTypeOK, AudioPush
<1>3. batch' \in Seq([frame : 0 .. w' - 1, tag : Tags \ {"none"}])
  <2> DEFINE Old == [frame : 0 .. w - 1, tag : Tags \ {"none"}]
             New == [frame : 0 .. w' - 1, tag : Tags \ {"none"}]
  <2>1. Old \subseteq New
    BY <1>2
  <2>2. batch \in Seq(Old) /\ batch' = batch
    BY <1>1 DEF DrainTypeOK, AudioPush
  <2> HIDE DEF Old, New
  <2>3. batch' \in Seq(New)
    BY <2>1, <2>2, SeqWiden
  <2> QED
    BY <2>3 DEF New
<1>4. DrainTypeOK'
  BY <1>1, <1>2, <1>3 DEF DrainTypeOK, AudioPush
<1>5. CursorBehind'
  BY <1>1, <1>2 DEF CursorBehind, DrainTypeOK, AudioPush
<1>6. LostOnlyWhenLapped'
  BY <1>1, <1>2 DEF LostOnlyWhenLapped, DrainTypeOK, AudioPush
<1>7. \A f \in 0 .. w' - 1 : f < w =>
        /\ f \in 0 .. w - 1
        /\ Voiced(f)' = Voiced(f)
        /\ sent'[f] = sent[f]
  BY <1>1, <1>2 DEF DrainTypeOK, AudioPush, Voiced
<1>8. Behind'
  BY <1>1, <1>2, <1>5, <1>7 DEF Behind, CursorBehind, Accounted, AudioPush, DrainTypeOK
<1>9. Reach' = Reach /\ Reach <= w /\ Reach \in Int
  BY <1>1, <1>2 DEF Reach, CursorBehind, DrainTypeOK, AudioPush
<1>10. InHand'
  <2> SUFFICES ASSUME NEW f \in 0 .. w' - 1, cursor' <= f, f < Reach', Voiced(f)'
               PROVE  Accounted(f)' \/ InBatch(f)'
    BY DEF InHand
  <2>1. f < w
    BY <1>2, <1>9
  <2>2. f \in 0 .. w - 1 /\ Voiced(f) /\ sent'[f] = sent[f] /\ cursor <= f /\ f < Reach
    BY <2>1, <1>7, <1>9 DEF AudioPush
  <2>3. Accounted(f) \/ InBatch(f)
    BY <2>2, <1>1 DEF InHand
  <2> QED
    BY <2>2, <2>3 DEF Accounted, InBatch, AudioPush
<1> QED
  BY <1>4, <1>5, <1>6, <1>8, <1>10 DEF DInv

\* Rewind and ReadOn: a batch starts at or before the old cursor, with a whole chunk
\* ahead of it.
LEMMA StartKeeps ==
    ASSUME DInv, NEW c \in Nat, NEW r \in BOOLEAN, c <= cursor, Available,
           StartsBatch(c, r), rewound' \in SUBSET (0 .. w - 1)
    PROVE  DInv'
<1> USE RingDrainAssumption
<1>1. DrainTypeOK /\ CursorBehind /\ LostOnlyWhenLapped /\ Behind /\ InHand
  BY DEF DInv
<1>2. DrainTypeOK'
  BY <1>1 DEF DrainTypeOK, StartsBatch, ringVars, Tags
<1>3. CursorBehind'
  BY <1>1 DEF CursorBehind, DrainTypeOK, StartsBatch, ringVars, Available
<1>4. LostOnlyWhenLapped'
  BY <1>1 DEF LostOnlyWhenLapped, StartsBatch, ringVars
<1>5. Behind'
  BY <1>1 DEF Behind, Accounted, Voiced, DrainTypeOK, StartsBatch, ringVars
<1>6. Reach' = cursor'
  BY <1>1 DEF Reach, StartsBatch, DrainTypeOK
<1>7. InHand'
  BY <1>2, <1>6 DEF InHand, DrainTypeOK
<1> QED
  BY <1>2, <1>3, <1>4, <1>5, <1>7 DEF DInv

\* Rewind: RewindTo does not go below the first frame.
LEMMA RewindKeeps == ASSUME DInv, Rewind PROVE DInv'
<1> USE RingDrainAssumption
<1>1. DrainTypeOK
  BY DEF DInv
<1>2. RewindTo(cursor) \in Nat /\ RewindTo(cursor) <= cursor
  BY <1>1 DEF RewindTo, DrainTypeOK
<1>3. cursor \in 0 .. w - 1
  BY <1>1 DEF Rewind, Onset, Readable, DrainTypeOK
<1>4. rewound' \in SUBSET (0 .. w - 1)
  BY <1>1, <1>3 DEF Rewind, DrainTypeOK
<1> QED
  BY <1>2, <1>4, StartKeeps DEF Rewind

LEMMA ReadOnKeeps == ASSUME DInv, ReadOn PROVE DInv'
<1>1. cursor \in Nat /\ cursor <= cursor /\ rewound' \in SUBSET (0 .. w - 1)
  BY DEF DInv, DrainTypeOK, ReadOn
<1> QED
  BY <1>1, StartKeeps DEF ReadOn

\* Collect: the frame read is silence, or joins the batch.
LEMMA CollectKeeps == ASSUME DInv, Collect PROVE DInv'
<1> USE RingDrainAssumption
<1> DEFINE e == [frame |-> cursor + i, tag |-> Tag(cursor + i)]
           Entry == [frame : 0 .. w - 1, tag : Tags \ {"none"}]
<1>1. DrainTypeOK /\ CursorBehind /\ LostOnlyWhenLapped /\ Behind /\ InHand
  BY DEF DInv
<1>2. cursor + i \in 0 .. w - 1 /\ i \in 0 .. Chunk - 1 /\ pc = "collect" /\ i' = i + 1
  BY <1>1 DEF Collect, CursorBehind, DrainTypeOK
<1>3. UNCHANGED <<w, kind, pc, cursor, inSpeech, prerolled, base, sent, lapped, oversize,
                  rewound>>
  BY DEF Collect, ringVars
<1>4. e \in Entry /\ e.frame = cursor + i
  BY <1>2 DEF Tag, Tags
<1>5. \/ Voiced(cursor + i) /\ batch' = Append(batch, e) /\ lastTag' = Tag(cursor + i)
      \/ ~Voiced(cursor + i) /\ batch' = batch /\ lastTag' = lastTag
  BY DEF Collect
<1>a. batch \in Seq(Entry) /\ lastTag \in Tags /\ Tag(cursor + i) \in Tags
  BY <1>1 DEF DrainTypeOK, Tag, Tags
<1> HIDE DEF e, Entry
<1>6. batch' \in Seq(Entry) /\ lastTag' \in Tags
  BY <1>a, <1>4, <1>5, AppendIs
<1>7. DrainTypeOK'
  BY <1>1, <1>2, <1>3, <1>6 DEF DrainTypeOK, Entry
<1>8. CursorBehind' /\ LostOnlyWhenLapped' /\ Behind'
  BY <1>1, <1>3 DEF CursorBehind, LostOnlyWhenLapped, Behind, Voiced, Accounted
<1>9. Reach = cursor + i /\ Reach' = cursor + i + 1
  BY <1>1, <1>2, <1>3 DEF Reach, DrainTypeOK
<1>10. \A f \in 0 .. w - 1 : InBatch(f) => InBatch(f)'
  <2> SUFFICES ASSUME NEW f \in 0 .. w - 1, NEW k \in 1 .. Len(batch), batch[k].frame = f
               PROVE  InBatch(f)'
    BY DEF InBatch
  <2>1. k \in 1 .. Len(batch') /\ batch'[k] = batch[k]
    BY <1>a, <1>4, <1>5, AppendIs
  <2> QED
    BY <2>1 DEF InBatch
<1>11. \A f \in 0 .. w - 1 : f = cursor + i /\ Voiced(f) => InBatch(f)'
  <2> SUFFICES ASSUME NEW f \in 0 .. w - 1, f = cursor + i, Voiced(f) PROVE InBatch(f)'
    OBVIOUS
  <2>1. Len(batch') \in 1 .. Len(batch') /\ batch'[Len(batch')] = e
    BY <1>a, <1>4, <1>5, AppendIs
  <2> QED
    BY <2>1, <1>4 DEF InBatch
<1>12. InHand'
  <2> SUFFICES ASSUME NEW f \in 0 .. w - 1, cursor <= f, f < cursor + i + 1, Voiced(f)
               PROVE  Accounted(f)' \/ InBatch(f)'
    BY <1>3, <1>9 DEF InHand, Voiced
  <2>1. CASE f = cursor + i
    BY <2>1, <1>11
  <2>2. CASE f # cursor + i
    <3>1. f < cursor + i
      BY <2>2, <1>1 DEF DrainTypeOK
    <3>2. Accounted(f) \/ InBatch(f)
      BY <3>1, <1>1, <1>9 DEF InHand
    <3> QED
      BY <3>2, <1>3, <1>10 DEF Accounted
  <2> QED
    BY <2>1, <2>2
<1> QED
  BY <1>7, <1>8, <1>12 DEF DInv

\* Overrun: the ring has overtaken the frame, so all of the batch is near its end.
LEMMA OverrunKeeps == ASSUME DInv, Overrun PROVE DInv'
<1> USE RingDrainAssumption
<1>1. DrainTypeOK /\ CursorBehind /\ LostOnlyWhenLapped /\ Behind /\ InHand
  BY DEF DInv
<1>2. /\ UNCHANGED <<w, kind, cursor, inSpeech, prerolled, base, i, batch, lastTag,
                     sent, oversize, rewound>>
      /\ pc = "collect" /\ pc' = "emit" /\ i < Chunk
      /\ lapped' = lapped \cup (cursor + i .. cursor + Chunk - 1)
  BY DEF Overrun, ringVars
<1>3. cursor + Chunk <= w /\ w - (cursor + i) > RingFrames
  BY <1>1, <1>2 DEF Overrun, Readable, CursorBehind, DrainTypeOK
<1>4. DrainTypeOK'
  BY <1>1, <1>2, <1>3 DEF DrainTypeOK
<1>5. CursorBehind'
  BY <1>1, <1>2, <1>3 DEF CursorBehind
<1>6. LostOnlyWhenLapped'
  BY <1>1, <1>2, <1>3 DEF LostOnlyWhenLapped, DrainTypeOK
<1>7. Behind'
  BY <1>1, <1>2 DEF Behind, Voiced, Accounted
<1>8. Reach = cursor + i /\ Reach' = cursor + Chunk
  BY <1>1, <1>2 DEF Reach, DrainTypeOK
<1>9. InHand'
  <2> SUFFICES ASSUME NEW f \in 0 .. w - 1, cursor <= f, f < cursor + Chunk, Voiced(f)
               PROVE  Accounted(f)' \/ InBatch(f)'
    BY <1>2, <1>8 DEF InHand, Voiced
  <2>1. CASE f < cursor + i
    BY <2>1, <1>1, <1>2, <1>8 DEF InHand, Accounted, InBatch
  <2>2. CASE ~(f < cursor + i)
    BY <2>2, <1>1, <1>2 DEF Accounted, DrainTypeOK
  <2> QED
    BY <2>1, <2>2
<1> QED
  BY <1>4, <1>5, <1>6, <1>7, <1>9 DEF DInv

LEMMA CollectedKeeps == ASSUME DInv, Collected PROVE DInv'
<1> USE RingDrainAssumption
<1>1. DrainTypeOK /\ CursorBehind /\ LostOnlyWhenLapped /\ Behind /\ InHand
  BY DEF DInv
<1>2. /\ UNCHANGED <<w, kind, cursor, inSpeech, prerolled, base, i, batch, lastTag,
                     sent, lapped, oversize, rewound>>
      /\ pc = "collect" /\ pc' = "emit" /\ i = Chunk
  BY DEF Collected, ringVars
<1>3. DrainTypeOK' /\ CursorBehind' /\ LostOnlyWhenLapped'
  BY <1>1, <1>2 DEF DrainTypeOK, CursorBehind, LostOnlyWhenLapped
<1>4. Reach' = Reach
  BY <1>1, <1>2 DEF Reach, DrainTypeOK
<1>5. Behind' /\ InHand'
  BY <1>1, <1>2, <1>4 DEF Behind, InHand, Voiced, Accounted, InBatch
<1> QED
  BY <1>3, <1>5 DEF DInv

\* Emit: a frame leaves the batch by being sent or by being found overwritten.
LEMMA EmitKeeps == ASSUME DInv, NEW n \in 1 .. Chunk, Emit(n) PROVE DInv'
<1> USE RingDrainAssumption
<1> DEFINE inPacket == {batch[k].frame : k \in 1 .. n}
           own == {f \in inPacket : Readable(f)}
           Entry == [frame : 0 .. w - 1, tag : Tags \ {"none"}]
<1>1. DrainTypeOK /\ CursorBehind /\ LostOnlyWhenLapped /\ Behind /\ InHand
  BY DEF DInv
<1>2. /\ UNCHANGED <<w, kind, pc, cursor, inSpeech, prerolled, base, i, lastTag,
                     oversize, rewound>>
      /\ pc = "emit" /\ n <= Len(batch)
      /\ batch' = SubSeq(batch, n + 1, Len(batch))
      /\ sent' = [f \in DOMAIN sent |-> IF f \in own THEN sent[f] + 1 ELSE sent[f]]
      /\ lapped' = lapped \cup (inPacket \ own)
  BY DEF Emit, Unpacked, ringVars
<1>3. batch \in Seq(Entry) /\ Len(batch) \in Nat /\ n \in Nat
  BY <1>1 DEF DrainTypeOK
<1>4. \A k \in 1 .. Len(batch) : batch[k].frame \in 0 .. w - 1
  <2>1. \A k \in 1 .. Len(batch) : batch[k] \in Entry
    <3> HIDE DEF Entry
    <3> QED
      BY <1>3
  <2> QED
    BY <2>1
<1>5. inPacket \subseteq 0 .. w - 1
  BY <1>2, <1>3, <1>4
<1> HIDE DEF Entry
<1>6. /\ batch' \in Seq(Entry)
      /\ Len(batch') = Len(batch) - n
      /\ \A k \in 1 .. Len(batch) - n : batch'[k] = batch[k + n]
  BY <1>2, <1>3, DropIs
<1>7. sent' \in [0 .. w - 1 -> Nat]
  <2>1. sent \in [0 .. w - 1 -> Nat]
    BY <1>1 DEF DrainTypeOK
  <2> HIDE DEF inPacket, own
  <2> QED
    BY <1>2, <2>1
<1>8. DrainTypeOK'
  BY <1>1, <1>2, <1>5, <1>6, <1>7 DEF DrainTypeOK, Entry
<1>9. CursorBehind'
  BY <1>1, <1>2 DEF CursorBehind
<1>10. \A f \in inPacket \ own : f \in 0 .. w - 1 /\ w - f > RingFrames
  <2> SUFFICES ASSUME NEW f \in inPacket \ own PROVE f \in 0 .. w - 1 /\ w - f > RingFrames
    OBVIOUS
  <2>1. f \in 0 .. w - 1 /\ ~Readable(f)
    BY <1>5
  <2> QED
    BY <2>1, <1>1 DEF Readable, DrainTypeOK
<1>11. LostOnlyWhenLapped'
  <2> HIDE DEF inPacket, own
  <2> QED
    BY <1>1, <1>2, <1>10 DEF LostOnlyWhenLapped, DrainTypeOK
<1>12. \A f \in 0 .. w - 1 : Accounted(f) => Accounted(f)'
  <2> HIDE DEF inPacket, own
  <2> QED
    BY <1>1, <1>2 DEF Accounted, DrainTypeOK
<1>13. Behind'
  BY <1>1, <1>2, <1>12 DEF Behind, Voiced
<1>14. \A f \in 0 .. w - 1 : InBatch(f) => Accounted(f)' \/ InBatch(f)'
  <2> SUFFICES ASSUME NEW f \in 0 .. w - 1, NEW k \in 1 .. Len(batch), batch[k].frame = f
               PROVE  Accounted(f)' \/ InBatch(f)'
    BY DEF InBatch
  <2>1. CASE k <= n
    <3>1. f \in inPacket
      BY <2>1, <1>3
    <3>2. CASE f \in own
      <4>1. sent'[f] = sent[f] + 1 /\ sent[f] \in Nat
        BY <3>2, <1>1, <1>2 DEF DrainTypeOK
      <4> QED
        BY <4>1 DEF Accounted
    <3>3. CASE f \notin own
      BY <3>1, <3>3, <1>2 DEF Accounted
    <3> QED
      BY <3>2, <3>3
  <2>2. CASE ~(k <= n)
    <3>1. k - n \in 1 .. Len(batch) - n /\ (k - n) + n = k
      BY <2>2, <1>3
    <3>2. k - n \in 1 .. Len(batch') /\ batch'[k - n].frame = f
      BY <3>1, <1>6
    <3> QED
      BY <3>2 DEF InBatch
  <2> QED
    BY <2>1, <2>2
<1>15. Reach' = Reach
  BY <1>2 DEF Reach
<1>16. InHand'
  BY <1>1, <1>2, <1>12, <1>14, <1>15 DEF InHand, Voiced
<1> QED
  BY <1>8, <1>9, <1>11, <1>13, <1>16 DEF DInv

\* DropOversize: the frame dropped is counted.
LEMMA DropKeeps == ASSUME DInv, DropOversize PROVE DInv'
<1> USE RingDrainAssumption
<1> DEFINE Entry == [frame : 0 .. w - 1, tag : Tags \ {"none"}]
<1>1. DrainTypeOK /\ CursorBehind /\ LostOnlyWhenLapped /\ Behind /\ InHand
  BY DEF DInv
<1>2. /\ UNCHANGED <<w, kind, pc, cursor, inSpeech, prerolled, base, i, lastTag,
                     sent, lapped, rewound>>
      /\ pc = "emit" /\ batch # <<>> /\ batch' = Tail(batch)
      /\ oversize' = oversize \cup {batch[1].frame}
  BY DEF DropOversize, ringVars
<1>a. batch \in Seq(Entry)
  BY <1>1 DEF DrainTypeOK
<1> HIDE DEF Entry
<1>3. Len(batch) \in Nat \ {0} /\ batch[1] \in Entry
  BY <1>2, <1>a, TailIs
<1>4. /\ batch' \in Seq(Entry)
      /\ Len(batch') = Len(batch) - 1
      /\ \A k \in 1 .. Len(batch) - 1 : batch'[k] = batch[k + 1]
  BY <1>2, <1>a, TailIs
<1>5. DrainTypeOK'
  BY <1>1, <1>2, <1>3, <1>4 DEF DrainTypeOK, Entry
<1>6. CursorBehind' /\ LostOnlyWhenLapped'
  BY <1>1, <1>2 DEF CursorBehind, LostOnlyWhenLapped
<1>7. \A f \in 0 .. w - 1 : Accounted(f) => Accounted(f)'
  BY <1>2 DEF Accounted
<1>8. \A f \in 0 .. w - 1 : InBatch(f) => Accounted(f)' \/ InBatch(f)'
  <2> SUFFICES ASSUME NEW f \in 0 .. w - 1, NEW k \in 1 .. Len(batch), batch[k].frame = f
               PROVE  Accounted(f)' \/ InBatch(f)'
    BY DEF InBatch
  <2>1. CASE k = 1
    BY <2>1, <1>2 DEF Accounted
  <2>2. CASE k # 1
    <3>1. k - 1 \in 1 .. Len(batch) - 1 /\ (k - 1) + 1 = k
      BY <2>2, <1>3
    <3>2. k - 1 \in 1 .. Len(batch') /\ batch'[k - 1].frame = f
      BY <3>1, <1>4
    <3> QED
      BY <3>2 DEF InBatch
  <2> QED
    BY <2>1, <2>2
<1>9. Reach' = Reach
  BY <1>2 DEF Reach
<1>10. Behind' /\ InHand'
  BY <1>1, <1>2, <1>7, <1>8, <1>9 DEF Behind, InHand, Voiced
<1> QED
  BY <1>5, <1>6, <1>10 DEF DInv

\* Advance: the batch is empty, so all of it is accounted for.
LEMMA AdvanceKeeps == ASSUME DInv, Advance PROVE DInv'
<1> USE RingDrainAssumption
<1>1. DrainTypeOK /\ CursorBehind /\ LostOnlyWhenLapped /\ Behind /\ InHand
  BY DEF DInv
<1>2. /\ UNCHANGED <<w, kind, prerolled, base, i, batch, lastTag, sent, lapped,
                     oversize, rewound>>
      /\ pc = "emit" /\ pc' = "poll" /\ batch = <<>>
      /\ cursor' = cursor + Chunk
      /\ inSpeech' \in BOOLEAN
  BY DEF Advance, ringVars, EndsInSpeech
<1>3. DrainTypeOK'
  BY <1>1, <1>2 DEF DrainTypeOK
<1>4. CursorBehind' /\ LostOnlyWhenLapped'
  BY <1>1, <1>2 DEF CursorBehind, LostOnlyWhenLapped, DrainTypeOK
<1>5. Reach = cursor + Chunk /\ Reach' = cursor'
  BY <1>2 DEF Reach
<1>6. \A f : ~InBatch(f)
  BY <1>2 DEF InBatch
<1>7. Behind'
  <2> SUFFICES ASSUME NEW f \in 0 .. w - 1, f < cursor + Chunk, Voiced(f)
               PROVE  Accounted(f)
    BY <1>2 DEF Behind, Voiced, Accounted
  <2>1. CASE f < cursor
    BY <2>1, <1>1 DEF Behind
  <2>2. CASE ~(f < cursor)
    BY <2>2, <1>1, <1>5, <1>6 DEF InHand, DrainTypeOK
  <2> QED
    BY <2>1, <2>2
<1>8. InHand'
  BY <1>3, <1>5 DEF InHand, DrainTypeOK
<1> QED
  BY <1>3, <1>4, <1>7, <1>8 DEF DInv

-----------------------------------------------------------------------------
\* DInv is an invariant of the ring and its drain.
THEOREM DrainInvariant == DrainSpec => []DInv
<1>1. DInv /\ [DrainNext]_drainVars => DInv'
  <2> SUFFICES ASSUME DInv, [DrainNext]_drainVars PROVE DInv'
    OBVIOUS
  <2>1. CASE UNCHANGED drainVars
    BY <2>1 DEF DInv, drainVars, DrainTypeOK, CursorBehind, LostOnlyWhenLapped, Behind,
         InHand, Voiced, Accounted, InBatch, Reach
  <2>2. ASSUME NEW k \in Kinds, AudioPush(k) PROVE DInv'
    BY <2>2, PushKeeps
  <2>3. CASE Rewind
    BY <2>3, RewindKeeps
  <2>4. CASE ReadOn
    BY <2>4, ReadOnKeeps
  <2>5. CASE Collect
    BY <2>5, CollectKeeps
  <2>6. CASE Overrun
    BY <2>6, OverrunKeeps
  <2>7. CASE Collected
    BY <2>7, CollectedKeeps
  <2>8. ASSUME NEW n \in 1 .. Chunk, Emit(n) PROVE DInv'
    BY <2>8, EmitKeeps
  <2>9. CASE DropOversize
    BY <2>9, DropKeeps
  <2>10. CASE Advance
    BY <2>10, AdvanceKeeps
  <2> QED
    BY <2>1, <2>2, <2>3, <2>4, <2>5, <2>6, <2>7, <2>8, <2>9, <2>10
       DEF DrainNext, DrainStep
<1> QED
  BY <1>1, DrainInitDInv, PTL DEF DrainSpec

\* The ring and the drain keep their types, whatever the sizes.
THEOREM DrainTypeCorrect == DrainSpec => []DrainTypeOK
<1>1. DInv => DrainTypeOK
  BY DEF DInv
<1> QED
  BY <1>1, DrainInvariant, PTL

\* "write_idx - cursor" of the drain loop never wraps around.
THEOREM CursorNeverAhead == DrainSpec => []CursorBehind
<1>1. DInv => CursorBehind
  BY DEF DInv
<1> QED
  BY <1>1, DrainInvariant, PTL

\* No voiced frame behind the drain's cursor is unaccounted for.
THEOREM AccountsForVoice == DrainSpec => []VoicedAccounted
<1>1. DInv => VoicedAccounted
  BY DEF DInv, VoicedAccounted, Behind, Accounted
<1> QED
  BY <1>1, DrainInvariant, PTL

\* What the producer costs the drain lies within a chunk of the end of the ring.
THEOREM LosesOnlyNearTheEnd == DrainSpec => []LostOnlyWhenLapped
<1>1. DInv => LostOnlyWhenLapped
  BY DEF DInv
<1> QED
  BY <1>1, DrainInvariant, PTL

-----------------------------------------------------------------------------
\* RepeatsOnce, for a chunk shorter than the preroll and longer than half of it (the
\* code's are 10 and 15).  The last chunk before an onset is silent, so of a rewind's
\* frames only the first Preroll - Chunk may have been sent, all in its first batch; the
\* second batch reaches the onset and ends in speech, and the next onset is a chunk later
\* still, too far for its rewind to come back to them.
Ratio == Chunk < Preroll /\ Preroll < 2 * Chunk

Silent(a, b) == \A f \in a .. b - 1 : ~Voiced(f)

\* Where batches start.
Place ==
    /\ pc # "poll" => base = cursor
    /\ pc # "poll" /\ ~prerolled => cursor = 0 \/ Chunk <= cursor
    /\ pc = "poll" /\ ~prerolled => cursor = 0 \/ cursor = Chunk \/ 2 * Chunk <= cursor
    /\ pc = "poll" /\ prerolled => cursor = base + Chunk

\* A batch that does not end in speech was silent, or its first frame is gone.
Quiet ==
    /\ ~prerolled /\ pc = "collect" /\ lastTag # "voiced" => Silent(cursor, cursor + i)
    /\ ~prerolled /\ pc = "emit" /\ lastTag # "voiced" =>
           ~Readable(cursor) \/ Silent(cursor, cursor + Chunk)
    /\ ~prerolled /\ pc = "poll" /\ ~inSpeech /\ cursor # 0 =>
           ~Readable(cursor - Chunk) \/ Silent(cursor - Chunk, cursor)

\* What lies behind a rewind: a silent chunk and then the onset.
LeadIn ==
    prerolled =>
        /\ base = 0 => Chunk <= w /\ Silent(0, Chunk)
        /\ base # 0 => /\ base + Preroll < w /\ Voiced(base + Preroll)
                       /\ Silent(base + Preroll - Chunk, base + Preroll)

SentVoiced == \A f \in 0 .. w - 1 : sent[f] > 0 => Voiced(f)

\* The batch's frames, in the order they were read.
Packing ==
    pc # "poll" =>
        /\ \A k \in 1 .. Len(batch) :
               /\ cursor <= batch[k].frame /\ batch[k].frame < cursor + i
               /\ Voiced(batch[k].frame)
               /\ prerolled => batch[k].tag = "preroll"
        /\ \A j, k \in 1 .. Len(batch) : j < k => batch[j].frame < batch[k].frame

\* What the drain has yet to read or to pack was not sent, or once and is preroll.
Unsent ==
    /\ pc = "poll" => \A f \in cursor .. w - 1 : sent[f] = 0
    /\ pc # "poll" =>
           \A f \in cursor .. w - 1 :
               f >= cursor + i \/ InBatch(f) =>
                   sent[f] = 0 \/ (prerolled /\ f < base + Preroll - Chunk /\ sent[f] = 1)

\* Where a frame is that was sent twice.
TwiceAt(f) ==
    /\ prerolled => f < base + Preroll - Chunk
    /\ ~prerolled /\ pc = "poll" =>
           \/ f < cursor + Preroll - 3 * Chunk
              /\ (~inSpeech => f < cursor + Preroll - 4 * Chunk)
           \/ ~Readable(f)
    /\ ~prerolled /\ pc # "poll" =>
           \/ f < cursor + Preroll - 3 * Chunk
           \/ ~Readable(f)
           \/ /\ f < cursor + Preroll - 2 * Chunk
              /\ cursor + Preroll - Chunk < w /\ Voiced(cursor + Preroll - Chunk)

Twice == \A f \in 0 .. w - 1 : sent[f] > 1 => TwiceAt(f)

RewoundBehind ==
    \A r \in rewound :
        r < cursor + (IF pc = "poll" THEN 0 ELSE Chunk) + (IF prerolled THEN Chunk ELSE 0)

Rep ==
    /\ Place /\ Quiet /\ LeadIn /\ SentVoiced /\ Packing /\ Unsent /\ Twice
    /\ RewoundBehind

LEMMA BatchFrames ==
  ASSUME DInv
  PROVE  /\ batch \in Seq([frame : 0 .. w - 1, tag : Tags \ {"none"}])
         /\ Len(batch) \in Nat
         /\ \A k \in 1 .. Len(batch) : batch[k].frame \in 0 .. w - 1
<1> DEFINE Entries == [frame : 0 .. w - 1, tag : Tags \ {"none"}]
<1>1. batch \in Seq(Entries)
  BY DEF DInv, DrainTypeOK
<1>2. \A e \in Entries : e.frame \in 0 .. w - 1
  OBVIOUS
<1>3. Len(batch) \in Nat /\ \A k \in 1 .. Len(batch) : batch[k] \in Entries
  <2> HIDE DEF Entries
  <2> QED
    BY <1>1
<1> QED
  BY <1>1, <1>2, <1>3

\* A push keeps what is known of the frames before it; what is gone stays gone.
LEMMA PushKeepsRep == ASSUME Ratio, DInv, Rep, NEW k \in Kinds, AudioPush(k) PROVE Rep'
<1> USE RingDrainAssumption
<1>1. DrainTypeOK /\ CursorBehind
  BY DEF DInv
<1>2. /\ w \in Nat /\ w' = w + 1 /\ cursor \in Nat /\ base \in Nat /\ i \in 0 .. Chunk
      /\ Chunk \in Nat /\ Preroll \in Nat
      /\ UNCHANGED <<pc, cursor, inSpeech, prerolled, base, i, batch, lastTag, rewound>>
  BY <1>1 DEF DrainTypeOK, AudioPush
<1>3. \A f \in 0 .. w - 1 : kind'[f] = kind[f] /\ sent'[f] = sent[f] /\ sent[f] \in Nat
  BY <1>1, <1>2 DEF DrainTypeOK, AudioPush
<1>4. sent'[w] = 0
  BY <1>1, <1>2 DEF DrainTypeOK, AudioPush
<1>5. \A f \in 0 .. w - 1 : ~Readable(f) => ~Readable(f)'
  BY <1>2 DEF Readable
<1>6. ASSUME NEW a \in Nat, NEW b \in Int, b <= w, Silent(a, b)
      PROVE  Silent(a, b)'
  BY <1>2, <1>3, <1>6 DEF Silent, Voiced
<1>7. Place' /\ RewoundBehind'
  BY <1>2 DEF Rep, Place, RewoundBehind
<1>8. Quiet'
  <2>1. CASE pc = "collect"
    <3>1. cursor + i \in Int /\ cursor + i <= w
      BY <1>1, <1>2, <2>1 DEF CursorBehind
    <3> QED
      BY <1>2, <1>6, <2>1, <3>1 DEF Rep, Quiet, Silent
  <2>2. CASE pc = "emit"
    <3>1. cursor + Chunk \in Int /\ cursor + Chunk <= w /\ cursor \in 0 .. w - 1
      BY <1>1, <1>2, <2>2 DEF CursorBehind
    <3> QED
      BY <1>2, <1>5, <1>6, <2>2, <3>1 DEF Rep, Quiet, Silent
  <2>3. CASE pc = "poll"
    <3>1. CASE ~prerolled /\ ~inSpeech /\ cursor # 0
      <4>1. cursor - Chunk \in Nat /\ cursor \in Int /\ cursor <= w
            /\ cursor - Chunk \in 0 .. w - 1
        BY <1>1, <1>2, <2>3, <3>1 DEF CursorBehind, Rep, Place
      <4>2. ~Readable(cursor - Chunk) \/ Silent(cursor - Chunk, cursor)
        BY <2>3, <3>1 DEF Rep, Quiet
      <4> QED
        BY <1>2, <1>5, <1>6, <2>3, <4>1, <4>2 DEF Quiet, Silent, Readable
    <3> QED
      BY <1>2, <2>3, <3>1 DEF Quiet
  <2> QED
    BY <1>1, <2>1, <2>2, <2>3 DEF DrainTypeOK
<1>9. LeadIn'
  <2> SUFFICES ASSUME prerolled
               PROVE  LeadIn'
    BY <1>2 DEF LeadIn
  <2>1. CASE base = 0
    <3>1. Chunk <= w /\ Silent(0, Chunk) /\ 0 \in Nat /\ Chunk \in Int
      BY <1>2, <2>1 DEF Rep, LeadIn
    <3>2. Silent(0, Chunk)'
      BY <1>6, <3>1
    <3> QED
      BY <1>2, <2>1, <3>1, <3>2 DEF LeadIn
  <2>2. CASE base # 0
    <3>1. /\ base + Preroll < w /\ Voiced(base + Preroll)
          /\ Silent(base + Preroll - Chunk, base + Preroll)
      BY <2>2 DEF Rep, LeadIn
    <3>2. base + Preroll - Chunk \in Nat /\ base + Preroll \in Int
          /\ base + Preroll \in 0 .. w - 1
      BY <1>2, <3>1 DEF Ratio
    <3>3. Silent(base + Preroll - Chunk, base + Preroll)'
      <4>1. \A f \in base + Preroll - Chunk .. base + Preroll - 1 : f \in 0 .. w - 1 /\ ~Voiced(f)
        BY <1>2, <3>1, <3>2 DEF Silent
      <4>2. \A f \in base + Preroll - Chunk .. base + Preroll - 1 : kind'[f] # "voiced"
        BY <1>3, <4>1 DEF Voiced
      <4> QED
        BY <1>2, <4>2 DEF Silent, Voiced
    <3>4. Voiced(base + Preroll)'
      BY <1>2, <1>3, <3>1, <3>2 DEF Voiced
    <3> QED
      BY <1>2, <2>2, <3>1, <3>3, <3>4 DEF LeadIn
  <2> QED
    BY <2>1, <2>2
<1>10. SentVoiced'
  BY <1>2, <1>3, <1>4 DEF Rep, SentVoiced, Voiced
<1>11. Packing'
  <2> SUFFICES ASSUME pc # "poll"
               PROVE  Packing'
    BY <1>2 DEF Packing
  <2>1. \A j \in 1 .. Len(batch) : batch[j].frame \in 0 .. w - 1
    BY BatchFrames
  <2>2. \A j \in 1 .. Len(batch) : Voiced(batch[j].frame)'
    BY <1>2, <1>3, <2>1 DEF Rep, Packing, Voiced
  <2> QED
    BY <1>2, <2>2 DEF Rep, Packing
<1>12. Unsent'
  <2>1. CASE pc = "poll"
    <3>1. \A f \in cursor' .. w' - 1 : f \in cursor .. w - 1 \/ f = w
      BY <1>2
    <3> QED
      BY <1>2, <1>3, <1>4, <2>1, <3>1 DEF Rep, Unsent
  <2>2. CASE pc # "poll"
    <3>1. \A f \in cursor' .. w' - 1 : f \in cursor .. w - 1 \/ f = w
      BY <1>2
    <3>2. \A f : InBatch(f)' = InBatch(f)
      BY <1>2 DEF InBatch
    <3>3. \A f \in cursor .. w - 1 : sent'[f] = sent[f]
      BY <1>2, <1>3
    <3> QED
      BY <1>2, <1>4, <2>2, <3>1, <3>2, <3>3 DEF Rep, Unsent
  <2> QED
    BY <2>1, <2>2
<1>13. Twice'
  <2>1. \A f \in 0 .. w' - 1 : sent'[f] > 1 => f \in 0 .. w - 1 /\ sent[f] > 1
    BY <1>2, <1>3, <1>4
  <2>2. \A f \in 0 .. w - 1 : sent[f] > 1 => TwiceAt(f)
    BY DEF Rep, Twice
  <2>3. ASSUME NEW f \in 0 .. w - 1, TwiceAt(f)
        PROVE  TwiceAt(f)'
    <3>1. CASE prerolled \/ pc = "poll"
      BY <1>2, <1>5, <2>3, <3>1 DEF TwiceAt
    <3>2. CASE ~prerolled /\ pc # "poll"
      <4>1. cursor + Preroll - Chunk < w =>
                Voiced(cursor + Preroll - Chunk)' = Voiced(cursor + Preroll - Chunk)
        BY <1>2, <1>3 DEF Voiced, Ratio
      <4> QED
        BY <1>2, <1>5, <2>3, <3>2, <4>1 DEF TwiceAt
    <3> QED
      BY <3>1, <3>2
  <2> QED
    BY <2>1, <2>2, <2>3 DEF Twice
<1> QED
  BY <1>7, <1>8, <1>9, <1>10, <1>11, <1>12, <1>13 DEF Rep

\* A batch starts: at the cursor, or, silence being behind it, at the rewind of an onset.
LEMMA ReadOnKeepsRep == ASSUME Ratio, DInv, Rep, ReadOn PROVE Rep'
<1> USE RingDrainAssumption
<1>1. DrainTypeOK /\ CursorBehind
  BY DEF DInv
<1>2. /\ w \in Nat /\ cursor \in Nat /\ base \in Nat /\ Chunk \in Nat /\ Preroll \in Nat
      /\ \A f \in 0 .. w - 1 : sent[f] \in Nat
  BY <1>1 DEF DrainTypeOK
<1>3. /\ pc = "poll" /\ pc' = "collect" /\ cursor' = cursor /\ base' = cursor
      /\ prerolled' = FALSE /\ i' = 0 /\ batch' = <<>> /\ lastTag' = "none"
      /\ UNCHANGED <<w, kind, sent, rewound>>
  BY DEF ReadOn, StartsBatch, ringVars
<1>4. Place' /\ RewoundBehind'
  <2>1. Place'
    BY <1>2, <1>3 DEF Rep, Place
  <2>2. \A r \in rewound : r < cursor + Chunk
    <3>1. \A r \in rewound : r \in Nat
      BY <1>1 DEF DrainTypeOK
    <3> QED
      BY <1>2, <1>3, <3>1 DEF Rep, RewoundBehind
  <2> QED
    BY <1>2, <1>3, <2>1, <2>2 DEF RewoundBehind
<1>5. Quiet' /\ LeadIn' /\ SentVoiced' /\ Packing'
  BY <1>2, <1>3 DEF Rep, Quiet, LeadIn, SentVoiced, Packing, Silent, Voiced
<1>6. Unsent'
  BY <1>2, <1>3 DEF Rep, Unsent
<1>7. Twice'
  <2> SUFFICES ASSUME NEW f \in 0 .. w - 1, sent[f] > 1
               PROVE  TwiceAt(f)'
    BY <1>3 DEF Twice
  <2>1. TwiceAt(f)
    BY DEF Rep, Twice
  <2>2. CASE ~prerolled
    BY <1>2, <1>3, <2>1, <2>2 DEF TwiceAt, Readable
  <2>3. CASE prerolled /\ base = 0
    <3>1. f < Chunk
      BY <1>2, <2>1, <2>3 DEF TwiceAt, Ratio
    <3>2. ~Voiced(f)
      BY <1>2, <2>3, <3>1 DEF Rep, LeadIn, Silent
    <3> QED
      BY <1>2, <3>2 DEF Rep, SentVoiced
  <2>4. CASE prerolled /\ base # 0
    <3>1. cursor = base + Chunk
      BY <1>3, <2>4 DEF Rep, Place
    <3>2. base + Preroll < w /\ Voiced(base + Preroll) /\ f < base + Preroll - Chunk
      BY <2>1, <2>4 DEF Rep, LeadIn, TwiceAt
    <3>3. cursor + Preroll - Chunk = base + Preroll
          /\ cursor + Preroll - 2 * Chunk = base + Preroll - Chunk
      BY <1>2, <3>1
    <3> QED
      BY <1>3, <3>2, <3>3 DEF TwiceAt, Voiced
  <2> QED
    BY <2>2, <2>3, <2>4
<1> QED
  BY <1>4, <1>5, <1>6, <1>7 DEF Rep

LEMMA RewindKeepsRep ==
  ASSUME Ratio, DInv, Rep, Rewind
  PROVE  Rep' /\ (cursor >= Preroll => cursor \notin rewound)
<1> USE RingDrainAssumption
<1>1. DrainTypeOK /\ CursorBehind
  BY DEF DInv
<1>2. /\ w \in Nat /\ cursor \in Nat /\ base \in Nat /\ Chunk \in Nat /\ Preroll \in Nat
      /\ \A f \in 0 .. w - 1 : sent[f] \in Nat
      /\ RingFrames \in Nat
  BY <1>1 DEF DrainTypeOK
<1>3. /\ pc = "poll" /\ pc' = "collect" /\ cursor' = RewindTo(cursor)
      /\ base' = RewindTo(cursor)
      /\ prerolled' = TRUE /\ i' = 0 /\ batch' = <<>> /\ lastTag' = "none"
      /\ UNCHANGED <<w, kind, sent>> /\ rewound' = rewound \cup {cursor}
      /\ rewound \subseteq Nat
  BY <1>1 DEF Rewind, StartsBatch, ringVars, DrainTypeOK
<1>4. /\ ~inSpeech /\ cursor < w /\ Voiced(cursor) /\ RewindTo(cursor) < cursor
      /\ Readable(RewindTo(cursor))
  BY DEF Rewind, Onset, Readable
<1>5. prerolled => base = 0 /\ cursor = Chunk
  <2> SUFFICES ASSUME prerolled, base # 0
               PROVE  FALSE
    BY <1>2, <1>3 DEF Rep, Place
  <2>1. cursor = base + Chunk /\ Silent(base + Preroll - Chunk, base + Preroll)
    BY <1>3 DEF Rep, Place, LeadIn
  <2>2. cursor \in base + Preroll - Chunk .. (base + Preroll) - 1
    BY <1>2, <2>1 DEF Ratio
  <2>3. ~Voiced(cursor)
    <3>1. \A f \in base + Preroll - Chunk .. (base + Preroll) - 1 : ~Voiced(f)
      BY <2>1, Zenon DEF Silent
    <3> QED
      BY <2>2, <3>1, Zenon
  <2> QED
    BY <1>4, <2>3
<1>6. CASE cursor >= Preroll
  <2>1. RewindTo(cursor) = cursor - Preroll
    BY <1>6 DEF RewindTo
  <2>2. ~prerolled
    BY <1>2, <1>6, <1>5 DEF Ratio
  <2>3. 2 * Chunk <= cursor
    BY <1>2, <1>3, <1>6, <2>2 DEF Rep, Place, Ratio
  <2>4. \A f \in cursor - Preroll .. w - 1 : Readable(f)
    BY <1>2, <1>4, <2>1 DEF Readable
  <2>5. Silent(cursor - Chunk, cursor)
    <3>1. ~Readable(cursor - Chunk) \/ Silent(cursor - Chunk, cursor)
      BY <1>2, <1>3, <1>4, <2>2, <2>3 DEF Rep, Quiet
    <3>2. cursor - Chunk \in cursor - Preroll .. w - 1
      BY <1>2, <1>4 DEF Ratio
    <3> QED
      BY <2>4, <3>1, <3>2
  <2>6. Place' /\ RewoundBehind'
    <3>1. Place'
      BY <1>3 DEF Place
    <3>2. \A r \in rewound' : r < cursor - Preroll + Chunk + Chunk
      <4>1. \A r \in rewound : r < cursor
        BY <1>2, <1>3, <2>2 DEF Rep, RewoundBehind
      <4> QED
        BY <1>2, <1>3, <4>1 DEF Ratio
    <3> QED
      BY <1>3, <2>1, <3>1, <3>2 DEF RewoundBehind
  <2>7. Quiet' /\ SentVoiced' /\ Packing'
    BY <1>2, <1>3 DEF Rep, Quiet, SentVoiced, Packing, Voiced
  <2>8. LeadIn'
    <3>1. base' = cursor - Preroll /\ base' # 0 /\ base' + Preroll = cursor
          /\ base' + Preroll - Chunk = cursor - Chunk
      BY <1>2, <1>3, <2>1, <2>3 DEF Ratio
    <3>2. Silent(base + Preroll - Chunk, base + Preroll)'
      BY <1>3, <2>5, <3>1 DEF Silent, Voiced
    <3> QED
      BY <1>3, <1>4, <3>1, <3>2 DEF LeadIn, Voiced
  <2>9. \A f \in cursor - Preroll .. w - 1 :
            sent[f] = 0 \/ (f < cursor - Chunk /\ sent[f] = 1)
    <3> SUFFICES ASSUME NEW f \in cursor - Preroll .. w - 1
                 PROVE  sent[f] = 0 \/ (f < cursor - Chunk /\ sent[f] = 1)
      OBVIOUS
    <3>1. f \in 0 .. w - 1 /\ sent[f] \in Nat
      BY <1>2, <1>6
    <3>2. CASE f >= cursor
      BY <1>2, <1>3, <3>2 DEF Rep, Unsent
    <3>3. CASE f < cursor /\ f >= cursor - Chunk
      <4>1. f \in cursor - Chunk .. cursor - 1
        BY <1>2, <3>3
      <4> QED
        BY <2>5, <3>1, <4>1 DEF Rep, SentVoiced, Silent
    <3>4. CASE f < cursor - Chunk
      <4>1. sent[f] > 1 => f < cursor + Preroll - 4 * Chunk
        BY <1>3, <1>4, <2>2, <2>4, <3>1 DEF Rep, Twice, TwiceAt
      <4>2. ~(f < cursor + Preroll - 4 * Chunk)
        BY <1>2 DEF Ratio
      <4> QED
        BY <3>1, <3>4, <4>1, <4>2
    <3> QED
      BY <1>2, <3>1, <3>2, <3>3, <3>4
  <2>10. Unsent'
    <3>1. cursor' = cursor - Preroll /\ base' + Preroll - Chunk = cursor - Chunk
      BY <1>2, <1>3, <2>1
    <3> QED
      BY <1>3, <2>9, <3>1 DEF Unsent
  <2>11. Twice'
    <3>1. base' + Preroll - Chunk = cursor - Chunk /\ base' = cursor - Preroll
      BY <1>2, <1>3, <2>1
    <3>2. \A f \in 0 .. w - 1 : sent[f] > 1 => f < cursor - Chunk
      BY <1>2, <2>9 DEF Ratio
    <3> QED
      BY <1>3, <3>1, <3>2 DEF Twice, TwiceAt
  <2>12. cursor \notin rewound
    BY <1>2, <1>3, <2>2 DEF Rep, RewoundBehind
  <2> QED
    BY <2>6, <2>7, <2>8, <2>10, <2>11, <2>12 DEF Rep
<1>7. CASE ~(cursor >= Preroll)
  <2>1. RewindTo(cursor) = 0 /\ cursor # 0
    BY <1>2, <1>4, <1>7 DEF RewindTo
  <2>2. cursor = Chunk
    BY <1>2, <1>3, <1>7, <1>5, <2>1 DEF Rep, Place, Ratio
  <2>3. Silent(0, Chunk)
    <3>1. CASE prerolled
      BY <1>5, <3>1 DEF Rep, LeadIn
    <3>2. CASE ~prerolled
      <4>1. ~Readable(cursor - Chunk) \/ Silent(cursor - Chunk, cursor)
        BY <1>3, <1>4, <2>1, <3>2 DEF Rep, Quiet
      <4>2. cursor - Chunk = 0
        BY <1>2, <2>2
      <4> QED
        BY <1>4, <2>1, <2>2, <4>1, <4>2
    <3> QED
      BY <3>1, <3>2
  <2>4. \A f \in 0 .. w - 1 : sent[f] = 0
    <3> SUFFICES ASSUME NEW f \in 0 .. w - 1
                 PROVE  sent[f] = 0
      OBVIOUS
    <3>1. CASE f < Chunk
      BY <1>2, <2>3, <3>1 DEF Rep, SentVoiced, Silent
    <3>2. CASE f >= Chunk
      BY <1>2, <1>3, <2>2, <3>2 DEF Rep, Unsent
    <3> QED
      BY <1>2, <3>1, <3>2
  <2>5. Place'
    BY <1>3 DEF Place
  <2>6. RewoundBehind'
    <3>1. \A r \in rewound' : r < 2 * Chunk
      <4>1. \A r \in rewound : r < Chunk + Chunk
        BY <1>2, <1>3, <2>2 DEF Rep, RewoundBehind
      <4> QED
        BY <1>2, <1>3, <2>2, <4>1
    <3> QED
      BY <1>2, <1>3, <2>1, <3>1 DEF RewoundBehind
  <2>7. Quiet' /\ SentVoiced' /\ Packing'
    BY <1>2, <1>3 DEF Rep, Quiet, SentVoiced, Packing, Voiced
  <2>8. LeadIn'
    BY <1>2, <1>3, <1>4, <2>1, <2>2, <2>3 DEF LeadIn, Silent, Voiced
  <2>9. Unsent' /\ Twice'
    BY <1>2, <1>3, <2>1, <2>4 DEF Unsent, Twice
  <2> QED
    BY <1>7, <2>5, <2>6, <2>7, <2>8, <2>9 DEF Rep
<1> QED
  BY <1>6, <1>7

\* One frame more is read: it is silence, or it joins the batch at its end.
LEMMA CollectKeepsRep == ASSUME Ratio, DInv, Rep, Collect PROVE Rep'
<1> USE RingDrainAssumption
<1> DEFINE f == cursor + i
           e == [frame |-> f, tag |-> Tag(f)]
<1>1. DrainTypeOK /\ CursorBehind
  BY DEF DInv
<1>2. /\ w \in Nat /\ cursor \in Nat /\ base \in Nat /\ Chunk \in Nat /\ Preroll \in Nat
      /\ i \in Nat /\ i < Chunk /\ i' = i + 1
      /\ \A g \in 0 .. w - 1 : sent[g] \in Nat
  BY <1>1 DEF DrainTypeOK, Collect
<1>3. /\ pc = "collect"
      /\ UNCHANGED <<w, kind, pc, cursor, inSpeech, prerolled, base, sent, rewound>>
  BY DEF Collect, ringVars
<1>4. f \in 0 .. w - 1 /\ base = cursor
  BY <1>1, <1>2, <1>3 DEF CursorBehind, Rep, Place
<1>5. IF Voiced(f) THEN batch' = Append(batch, e) /\ lastTag' = Tag(f)
                   ELSE UNCHANGED <<batch, lastTag>>
  BY DEF Collect
<1>6. Tag(f) = IF prerolled THEN "preroll" ELSE "voiced"
  BY <1>2, <1>4 DEF Tag, Ratio
<1>7. /\ batch \in Seq([frame : 0 .. w - 1, tag : Tags \ {"none"}]) /\ Len(batch) \in Nat
      /\ \A k \in 1 .. Len(batch) : batch[k].frame \in 0 .. w - 1
  BY BatchFrames
<1>8. /\ Voiced(f) => /\ Len(batch') = Len(batch) + 1 /\ batch'[Len(batch) + 1] = e
                      /\ \A k \in 1 .. Len(batch) : batch'[k] = batch[k]
  BY <1>5, <1>7
<1>9. e.frame = f /\ e.tag = Tag(f)
  OBVIOUS
<1>10. Place' /\ RewoundBehind' /\ LeadIn' /\ SentVoiced'
  BY <1>3 DEF Rep, Place, RewoundBehind, LeadIn, SentVoiced, Silent, Voiced
<1>11. Quiet'
  <2> SUFFICES ASSUME ~prerolled, lastTag' # "voiced"
               PROVE  \A g \in cursor .. cursor + i + 1 - 1 : ~Voiced(g)
    BY <1>2, <1>3 DEF Quiet, Silent, Voiced
  <2>1. ~Voiced(f) /\ lastTag # "voiced"
    BY <1>5, <1>6
  <2>2. \A g \in cursor .. (cursor + i) - 1 : ~Voiced(g)
    <3>1. Silent(cursor, cursor + i)
      BY <1>3, <2>1 DEF Rep, Quiet
    <3> QED
      BY <3>1, Zenon DEF Silent
  <2>3. \A g \in cursor .. cursor + i + 1 - 1 : g = f \/ g \in cursor .. (cursor + i) - 1
    BY <1>2
  <2> HIDE DEF f
  <2> QED
    BY <2>1, <2>2, <2>3
<1>12. Packing'
  <2>1. /\ \A k \in 1 .. Len(batch) :
               /\ cursor <= batch[k].frame /\ batch[k].frame < f
               /\ Voiced(batch[k].frame) /\ (prerolled => batch[k].tag = "preroll")
        /\ \A j, k \in 1 .. Len(batch) : j < k => batch[j].frame < batch[k].frame
    BY <1>3 DEF Rep, Packing
  <2>2. cursor + i' = f + 1 /\ cursor <= f /\ f \in Int
    BY <1>2
  <2>3. CASE ~Voiced(f)
    <3>1. batch' = batch
      BY <1>5, <2>3
    <3> HIDE DEF f
    <3> QED
      BY <1>3, <1>7, <2>1, <2>2, <3>1 DEF Packing, Voiced
  <2>4. CASE Voiced(f)
    <3>1. \A k \in 1 .. Len(batch') : k = Len(batch) + 1 \/ k \in 1 .. Len(batch)
      BY <1>7, <1>8, <2>4
    <3>2. Len(batch') = Len(batch) + 1 /\ batch'[Len(batch) + 1] = e
          /\ \A k \in 1 .. Len(batch) : batch'[k] = batch[k]
      BY <1>8, <2>4
    <3> HIDE DEF f, e
    <3>3. \A k \in 1 .. Len(batch') :
               /\ cursor <= batch'[k].frame /\ batch'[k].frame < f + 1
               /\ Voiced(batch'[k].frame) /\ (prerolled => batch'[k].tag = "preroll")
      BY <1>6, <1>7, <1>9, <2>1, <2>2, <2>4, <3>1, <3>2
    <3>4. \A j, k \in 1 .. Len(batch') : j < k => batch'[j].frame < batch'[k].frame
      BY <1>7, <1>9, <2>1, <3>1, <3>2
    <3> QED
      BY <1>3, <2>2, <3>3, <3>4 DEF Packing, Voiced
  <2> QED
    BY <2>3, <2>4
<1>13. Unsent'
  <2> SUFFICES ASSUME NEW g \in cursor .. w - 1, g >= cursor + i + 1 \/ InBatch(g)'
               PROVE  sent[g] = 0 \/ (prerolled /\ g < base + Preroll - Chunk /\ sent[g] = 1)
    BY <1>2, <1>3 DEF Unsent
  <2>1. g >= cursor + i \/ InBatch(g)
    <3>1. CASE g >= cursor + i + 1
      BY <1>2, <3>1
    <3>2. CASE InBatch(g)'
      <4>1. PICK k \in 1 .. Len(batch') : batch'[k].frame = g
        BY <3>2 DEF InBatch
      <4>2. CASE ~Voiced(f)
        BY <1>5, <4>1, <4>2 DEF InBatch
      <4>3. CASE Voiced(f)
        <5>1. k = Len(batch) + 1 \/ k \in 1 .. Len(batch)
          BY <1>7, <1>8, <4>1, <4>3
        <5>2. CASE k = Len(batch) + 1
          BY <1>2, <1>8, <1>9, <4>1, <4>3, <5>2
        <5>3. CASE k \in 1 .. Len(batch)
          BY <1>8, <4>1, <4>3, <5>3 DEF InBatch
        <5> QED
          BY <5>1, <5>2, <5>3
      <4> QED
        BY <4>2, <4>3
    <3> QED
      BY <3>1, <3>2
  <2> QED
    BY <1>3, <2>1 DEF Rep, Unsent
<1>14. Twice'
  BY <1>3 DEF Rep, Twice, TwiceAt, Readable, Voiced
<1> QED
  BY <1>10, <1>11, <1>12, <1>13, <1>14 DEF Rep

\* The batch is complete, or given up: then its first frame is gone.
LEMMA ClosedKeepsRep == ASSUME Ratio, DInv, Rep, Collected \/ Overrun PROVE Rep'
<1> USE RingDrainAssumption
<1>1. DrainTypeOK /\ CursorBehind
  BY DEF DInv
<1>2. /\ w \in Nat /\ cursor \in Nat /\ base \in Nat /\ Chunk \in Nat /\ Preroll \in Nat
      /\ i \in 0 .. Chunk /\ RingFrames \in Nat
  BY <1>1 DEF DrainTypeOK
<1>3. /\ pc = "collect" /\ pc' = "emit"
      /\ UNCHANGED <<w, kind, cursor, inSpeech, prerolled, base, i, batch, lastTag, sent,
                     rewound>>
  BY DEF Collected, Overrun, ringVars
<1>4. Place' /\ RewoundBehind' /\ LeadIn' /\ SentVoiced' /\ Packing'
  BY <1>3 DEF Rep, Place, RewoundBehind, LeadIn, SentVoiced, Packing, Silent, Voiced
<1>5. Quiet'
  <2>1. CASE Collected
    BY <1>2, <1>3, <2>1 DEF Rep, Quiet, Collected, Silent, Voiced
  <2>2. CASE Overrun
    <3>1. ~Readable(cursor + i) /\ cursor + i < w
      BY <1>1, <1>2, <1>3, <2>2 DEF Overrun, CursorBehind
    <3>2. ~Readable(cursor)
      BY <1>2, <3>1 DEF Readable
    <3> QED
      BY <1>3, <3>2 DEF Quiet, Readable
  <2> QED
    BY <2>1, <2>2
<1>6. Unsent'
  BY <1>3 DEF Rep, Unsent, InBatch
<1>7. Twice'
  BY <1>3 DEF Rep, Twice, TwiceAt, Readable, Voiced
<1> QED
  BY <1>4, <1>5, <1>6, <1>7 DEF Rep

\* The batch is done with.
LEMMA AdvanceKeepsRep == ASSUME Ratio, DInv, Rep, Advance PROVE Rep'
<1> USE RingDrainAssumption
<1>1. DrainTypeOK /\ CursorBehind
  BY DEF DInv
<1>2. /\ w \in Nat /\ cursor \in Nat /\ base \in Nat /\ Chunk \in Nat /\ Preroll \in Nat
      /\ i \in 0 .. Chunk /\ RingFrames \in Nat /\ \A f \in 0 .. w - 1 : sent[f] \in Nat
  BY <1>1 DEF DrainTypeOK
<1>3. /\ pc = "emit" /\ pc' = "poll" /\ cursor' = cursor + Chunk
      /\ inSpeech' = (lastTag = "voiced")
      /\ UNCHANGED <<w, kind, prerolled, base, i, batch, lastTag, sent, rewound>>
      /\ base = cursor /\ cursor + Chunk <= w
  BY <1>1 DEF Advance, EndsInSpeech, ringVars, Rep, Place, CursorBehind
<1>4. Place' /\ RewoundBehind'
  BY <1>2, <1>3 DEF Rep, Place, RewoundBehind
<1>5. LeadIn' /\ SentVoiced' /\ Packing'
  BY <1>3 DEF Rep, LeadIn, SentVoiced, Packing, Silent, Voiced
<1>6. cursor' - Chunk = cursor
  BY <1>2, <1>3
<1>7. Quiet'
  BY <1>3, <1>6 DEF Rep, Quiet, Silent, Voiced, Readable
<1>8. Unsent'
  <2> SUFFICES ASSUME NEW f \in cursor + Chunk .. w - 1
               PROVE  sent[f] = 0
    BY <1>3 DEF Unsent
  <2>1. f \in cursor .. w - 1 /\ f >= cursor + i /\ ~(f < base + Preroll - Chunk)
    BY <1>2, <1>3 DEF Ratio
  <2> QED
    BY <1>3, <2>1 DEF Rep, Unsent
<1>9. Twice'
  <2> SUFFICES ASSUME NEW f \in 0 .. w - 1, sent[f] > 1
               PROVE  TwiceAt(f)'
    BY <1>3 DEF Twice
  <2>1. TwiceAt(f)
    BY DEF Rep, Twice
  <2>2. CASE prerolled
    BY <1>3, <2>1, <2>2 DEF TwiceAt
  <2>3. CASE ~prerolled
    <3>1. CASE f < cursor + Preroll - 3 * Chunk
      BY <1>2, <1>3, <2>3, <3>1 DEF TwiceAt
    <3>2. CASE ~Readable(f)
      BY <1>3, <2>3, <3>2 DEF TwiceAt, Readable
    <3>3. CASE /\ f < cursor + Preroll - 2 * Chunk
               /\ cursor + Preroll - Chunk < w /\ Voiced(cursor + Preroll - Chunk)
      <4>1. CASE lastTag = "voiced"
        <5>1. f < cursor + Chunk + Preroll - 3 * Chunk
          BY <1>2, <3>3
        <5> QED
          BY <1>3, <2>3, <4>1, <5>1 DEF TwiceAt
      <4>2. CASE lastTag # "voiced"
        <5>1. cursor + Preroll - Chunk \in cursor .. (cursor + Chunk) - 1
          BY <1>2 DEF Ratio
        <5>2. ~Silent(cursor, cursor + Chunk)
          <6>1. SUFFICES ASSUME \A g \in cursor .. (cursor + Chunk) - 1 : ~Voiced(g)
                         PROVE  FALSE
            BY Zenon DEF Silent
          <6> QED
            BY <3>3, <5>1, <6>1, Zenon
        <5>3. ~Readable(cursor)
          BY <1>3, <2>3, <4>2, <5>2 DEF Rep, Quiet
        <5>4. f < cursor /\ cursor < w
          BY <1>2, <1>3, <3>3 DEF Ratio
        <5>5. ~Readable(f)
          BY <1>2, <5>3, <5>4 DEF Readable
        <5> QED
          BY <3>2, <5>5
      <4> QED
        BY <4>1, <4>2
    <3> QED
      BY <1>3, <2>1, <2>3, <3>1, <3>2, <3>3 DEF TwiceAt
  <2> QED
    BY <2>2, <2>3
<1> QED
  BY <1>4, <1>5, <1>7, <1>8, <1>9 DEF Rep

\* Packing: the frames that leave the batch are the lowest of it.
LEMMA PackedKeepsRep ==
  ASSUME Ratio, DInv, Rep, NEW n \in Nat, n <= Len(batch), pc = "emit",
         batch' = Unpacked(n),
         sent' \in [0 .. w - 1 -> Nat],
         \A f \in 0 .. w - 1 :
             sent'[f] = sent[f] \/ (sent'[f] = sent[f] + 1 /\ \E k \in 1 .. n : batch[k].frame = f),
         UNCHANGED <<w, kind, pc, cursor, inSpeech, prerolled, base, i, lastTag, rewound>>
  PROVE  Rep'
<1> USE RingDrainAssumption
<1>1. DrainTypeOK /\ CursorBehind
  BY DEF DInv
<1>2. /\ w \in Nat /\ cursor \in Nat /\ base \in Nat /\ Chunk \in Nat /\ Preroll \in Nat
      /\ i \in 0 .. Chunk /\ \A f \in 0 .. w - 1 : sent[f] \in Nat /\ sent'[f] \in Nat
  BY <1>1 DEF DrainTypeOK
<1>3. /\ batch \in Seq([frame : 0 .. w - 1, tag : Tags \ {"none"}]) /\ Len(batch) \in Nat
      /\ \A k \in 1 .. Len(batch) : batch[k].frame \in 0 .. w - 1
  BY BatchFrames
<1>4. Len(batch') = Len(batch) - n /\ \A k \in 1 .. Len(batch') : batch'[k] = batch[k + n]
  BY <1>3 DEF Unpacked
<1>5. \A k \in 1 .. Len(batch') : k + n \in 1 .. Len(batch) /\ k + n > n /\ k \in Int
  BY <1>3, <1>4
<1>6. /\ \A k \in 1 .. Len(batch) :
             /\ cursor <= batch[k].frame /\ batch[k].frame < cursor + i
             /\ Voiced(batch[k].frame) /\ (prerolled => batch[k].tag = "preroll")
      /\ \A j, k \in 1 .. Len(batch) : j < k => batch[j].frame < batch[k].frame
  BY DEF Rep, Packing
\* What a frame of the packet had been sent before.
<1>7. \A f \in 0 .. w - 1 : sent'[f] # sent[f] =>
          /\ sent'[f] = sent[f] + 1 /\ Voiced(f)
          /\ sent[f] = 0 \/ (prerolled /\ f < base + Preroll - Chunk /\ sent[f] = 1)
  <2> SUFFICES ASSUME NEW f \in 0 .. w - 1, sent'[f] # sent[f]
               PROVE  /\ sent'[f] = sent[f] + 1 /\ Voiced(f)
                      /\ sent[f] = 0 \/ (prerolled /\ f < base + Preroll - Chunk /\ sent[f] = 1)
    OBVIOUS
  <2>1. PICK k \in 1 .. n : batch[k].frame = f
    OBVIOUS
  <2>2. k \in 1 .. Len(batch)
    BY <1>3
  <2>3. f \in cursor .. w - 1 /\ InBatch(f) /\ Voiced(f)
    <3>1. cursor <= f /\ Voiced(f)
      BY <1>6, <2>1, <2>2
    <3>2. InBatch(f)
      BY <2>1, <2>2 DEF InBatch
    <3> QED
      BY <1>2, <3>1, <3>2
  <2> QED
    BY <2>3 DEF Rep, Unsent
<1>8. Place' /\ RewoundBehind' /\ LeadIn' /\ Quiet'
  BY DEF Rep, Place, RewoundBehind, LeadIn, Quiet, Silent, Voiced, Readable
<1>9. SentVoiced'
  <2>1. \A f : Voiced(f)' = Voiced(f)
    BY DEF Voiced
  <2> QED
    BY <1>2, <1>7, <2>1 DEF Rep, SentVoiced
<1>10. Packing'
  <2>1. \A k \in 1 .. Len(batch') :
             /\ cursor <= batch'[k].frame /\ batch'[k].frame < cursor + i
             /\ Voiced(batch'[k].frame) /\ (prerolled => batch'[k].tag = "preroll")
    BY <1>4, <1>5, <1>6
  <2>2. \A j, k \in 1 .. Len(batch') : j < k => batch'[j].frame < batch'[k].frame
    BY <1>4, <1>5, <1>6
  <2> QED
    BY <2>1, <2>2 DEF Packing, Voiced
<1>11. Unsent'
  <2> SUFFICES ASSUME NEW f \in cursor .. w - 1, f >= cursor + i \/ InBatch(f)'
               PROVE  sent'[f] = 0 \/ (prerolled /\ f < base + Preroll - Chunk /\ sent'[f] = 1)
    BY DEF Unsent
  <2>1. f >= cursor + i \/ \E k \in 1 .. Len(batch) : k > n /\ batch[k].frame = f
    <3> SUFFICES ASSUME NEW k \in 1 .. Len(batch'), batch'[k].frame = f
                 PROVE  \E j \in 1 .. Len(batch) : j > n /\ batch[j].frame = f
      BY DEF InBatch
    <3>1. k + n \in 1 .. Len(batch) /\ k + n > n /\ batch[k + n].frame = f
      BY <1>4, <1>5
    <3> QED
      BY <3>1
  <2>2. f \in 0 .. w - 1
    BY <1>2
  <2>3. sent'[f] = sent[f]
    <3> SUFFICES ASSUME NEW j \in 1 .. n, batch[j].frame = f
                 PROVE  FALSE
      BY <2>2
    <3>1. j \in 1 .. Len(batch)
      BY <1>3
    <3>2. f < cursor + i
      BY <1>6, <3>1
    <3>3. PICK k \in 1 .. Len(batch) : k > n /\ batch[k].frame = f
      BY <1>2, <2>1, <3>2
    <3>4. j < k
      BY <1>3, <3>3
    <3> QED
      BY <1>6, <2>2, <3>1, <3>3, <3>4
  <2>4. f >= cursor + i \/ InBatch(f)
    BY <2>1 DEF InBatch
  <2> QED
    BY <2>3, <2>4 DEF Rep, Unsent
<1>12. Twice'
  <2> SUFFICES ASSUME NEW f \in 0 .. w - 1, sent'[f] > 1
               PROVE  TwiceAt(f)
    BY DEF Twice, TwiceAt, Readable, Voiced
  <2>1. CASE sent'[f] = sent[f]
    BY <2>1 DEF Rep, Twice
  <2>2. CASE sent'[f] # sent[f]
    BY <1>2, <1>7, <2>2 DEF TwiceAt
  <2> QED
    BY <2>1, <2>2
<1> QED
  BY <1>8, <1>9, <1>10, <1>11, <1>12 DEF Rep

LEMMA EmitKeepsRep ==
  ASSUME Ratio, DInv, Rep, NEW n \in 1 .. Chunk, Emit(n)
  PROVE  /\ Rep'
         /\ \A f \in 0 .. w - 1 :
                sent[f] > 0 /\ sent'[f] > sent[f] => sent'[f] = 2 /\ Head(batch).tag = "preroll"
<1> USE RingDrainAssumption
<1>1. /\ pc = "emit" /\ n <= Len(batch) /\ batch' = Unpacked(n) /\ n \in Nat
      /\ UNCHANGED <<w, kind, pc, cursor, inSpeech, prerolled, base, i, lastTag, rewound>>
  BY DEF Emit, ringVars
<1>2. sent \in [0 .. w - 1 -> Nat] /\ w \in Nat /\ cursor \in Nat
  BY DEF DInv, DrainTypeOK
<1>3. sent' \in [0 .. w - 1 -> Nat]
  BY <1>2 DEF Emit
<1>4. \A f \in 0 .. w - 1 :
          sent'[f] = sent[f] \/ (sent'[f] = sent[f] + 1 /\ \E k \in 1 .. n : batch[k].frame = f)
  BY <1>2 DEF Emit
<1>5. Rep'
  BY <1>1, <1>3, <1>4, PackedKeepsRep
<1>6. ASSUME NEW f \in 0 .. w - 1, sent[f] > 0, sent'[f] > sent[f]
      PROVE  sent'[f] = 2 /\ Head(batch).tag = "preroll"
  <2>1. PICK k \in 1 .. n : batch[k].frame = f
    BY <1>2, <1>4, <1>6
  <2>2. k \in 1 .. Len(batch) /\ Len(batch) \in Nat /\ 1 \in 1 .. Len(batch)
    BY <1>1, BatchFrames
  <2>3. f \in cursor .. w - 1 /\ InBatch(f)
    <3>1. cursor <= f
      BY <1>1, <2>1, <2>2 DEF Rep, Packing
    <3> QED
      BY <1>2, <2>1, <2>2, <3>1 DEF InBatch
  <2>4. prerolled /\ sent[f] = 1
    BY <1>1, <1>2, <1>6, <2>3 DEF Rep, Unsent
  <2>5. batch[1].tag = "preroll"
    BY <1>1, <2>2, <2>4 DEF Rep, Packing
  <2>6. Head(batch) = batch[1]
    BY <2>2, BatchFrames
  <2> QED
    BY <1>2, <1>4, <1>6, <2>4, <2>5, <2>6
<1> QED
  BY <1>5, <1>6

LEMMA DropKeepsRep == ASSUME Ratio, DInv, Rep, DropOversize PROVE Rep'
<1>1. /\ pc = "emit" /\ batch # <<>> /\ batch' = Tail(batch)
      /\ UNCHANGED <<w, kind, pc, cursor, inSpeech, prerolled, base, i, lastTag, sent,
                     rewound>>
  BY DEF DropOversize, ringVars
<1>2. sent' \in [0 .. w - 1 -> Nat]
  BY <1>1 DEF DInv, DrainTypeOK
<1>3. 1 \in Nat /\ 1 <= Len(batch) /\ Tail(batch) = Unpacked(1)
  BY <1>1, BatchFrames DEF Unpacked
<1> QED
  BY <1>1, <1>2, <1>3, PackedKeepsRep

\* ble_drain.c: of the history it replays, the drain sends a frame twice at most, and the
\* second time as preroll; it rewinds from an onset once, however the audio task
\* interleaves.  For every ring, a chunk shorter than the preroll and longer than half of
\* it.
THEOREM HistoryRepeatsOnce == ASSUME Ratio PROVE DrainSpec => RepeatsOnce
<1>1. DrainInit => Rep
  <2> SUFFICES ASSUME DrainInit
               PROVE  Rep
    OBVIOUS
  <2>1. 0 .. w - 1 = {} /\ cursor .. w - 1 = {}
    BY DEF DrainInit
  <2> QED
    BY <2>1
       DEF DrainInit, Rep, Place, Quiet, LeadIn, SentVoiced, Packing, Unsent, Twice,
         RewoundBehind
<1>2. DInv /\ Rep /\ [DrainNext]_drainVars => Rep'
  <2> SUFFICES ASSUME DInv, Rep, [DrainNext]_drainVars
               PROVE  Rep'
    OBVIOUS
  <2>1. CASE UNCHANGED drainVars
    BY <2>1
       DEF drainVars, Rep, Place, Quiet, LeadIn, SentVoiced, Packing, Unsent, Twice,
         TwiceAt, RewoundBehind, Silent, Voiced, Readable, InBatch
  <2>2. ASSUME NEW k \in Kinds, AudioPush(k) PROVE Rep'
    BY <2>2, PushKeepsRep
  <2>3. ASSUME NEW n \in 1 .. Chunk, Emit(n) PROVE Rep'
    BY <2>3, EmitKeepsRep
  <2> QED
    BY <2>1, <2>2, <2>3, RewindKeepsRep, ReadOnKeepsRep, CollectKeepsRep,
       ClosedKeepsRep,
       DropKeepsRep, AdvanceKeepsRep DEF DrainNext, DrainStep
<1> DEFINE Resends ==
               \A f \in 0 .. w - 1 :
                   sent[f] > 0 /\ sent'[f] > sent[f] => sent'[f] = 2 /\ Head(batch).tag = "preroll"
           Rewinds == cursor' < cursor /\ cursor >= Preroll => cursor \notin rewound
<1>3. DInv /\ Rep /\ [DrainNext]_drainVars => [Resends /\ Rewinds]_drainVars
  <2> SUFFICES ASSUME DInv, Rep, DrainNext
               PROVE  Resends /\ Rewinds
    BY DEF Resends, Rewinds
  <2>1. /\ w \in Nat /\ cursor \in Nat /\ Chunk \in Nat
        /\ \A f \in 0 .. w - 1 : sent[f] \in Nat /\ ~(sent[f] > sent[f])
    BY RingDrainAssumption DEF DInv, DrainTypeOK
  <2>2. ASSUME NEW k \in Kinds, AudioPush(k)
        PROVE  Resends /\ Rewinds
    <3>1. \A f \in 0 .. w - 1 : sent'[f] = sent[f]
      BY <2>1, <2>2 DEF AudioPush
    <3> QED
      BY <2>1, <2>2, <3>1 DEF AudioPush
  <2>3. CASE Rewind
    BY <2>1, <2>3, RewindKeepsRep DEF Rewind, StartsBatch
  <2>4. CASE ReadOn \/ Collect \/ Overrun \/ Collected \/ DropOversize \/ Advance
    BY <2>1, <2>4
       DEF ReadOn, StartsBatch, Collect, Overrun, Collected, DropOversize, Advance
  <2>5. ASSUME NEW n \in 1 .. Chunk, Emit(n)
        PROVE  Resends /\ Rewinds
    <3>1. Resends
      BY <2>5, EmitKeepsRep
    <3>2. cursor' = cursor
      BY <2>5 DEF Emit
    <3> HIDE DEF Resends
    <3> QED
      BY <2>1, <3>1, <3>2
  <2> QED
    BY <2>2, <2>3, <2>4, <2>5 DEF DrainNext, DrainStep
<1> QED
  BY <1>1, <1>2, <1>3, DrainInvariant, PTL DEF DrainSpec, RepeatsOnce, Resends, Rewinds

-----------------------------------------------------------------------------
\* THE REPLAY

\* The packets of a reply, and the frames of a list of them, joined in order.
Packets == [frames : Seq(Nat), last : BOOLEAN]

JoinPass(ps, g, k) == IF k = 0 THEN <<>> ELSE g[k - 1] \o ps[k].frames

Joined(ps) == LET joined[k \in 0 .. Len(ps)] ==
                      IF k = 0 THEN <<>> ELSE joined[k - 1] \o ps[k].frames
              IN  joined[Len(ps)]

Rising(s) == \A j, k \in 1 .. Len(s) : j < k => s[j] < s[k]

\* Joining comes to an end for every list.
LEMMA JoinEnds ==
  ASSUME NEW ps, Len(ps) \in Nat
  PROVE  \E g : g = [k \in 0 .. Len(ps) |-> JoinPass(ps, g, k)]
<1> DEFINE Done(n) == \E g : g = [k \in 0 .. n |-> JoinPass(ps, g, k)]
<1>1. Done(0)
  <2> DEFINE g == [k \in 0 .. 0 |-> <<>>]
  <2>1. g = [k \in 0 .. 0 |-> JoinPass(ps, g, k)]
    BY DEF JoinPass
  <2> QED
    BY <2>1
<1>2. ASSUME NEW n \in Nat, Done(n)
      PROVE  Done(n + 1)
  <2>1. PICK g : g = [k \in 0 .. n |-> JoinPass(ps, g, k)]
    BY <1>2
  <2> DEFINE h == [k \in 0 .. n + 1 |-> IF k <= n THEN g[k] ELSE JoinPass(ps, g, k)]
  <2>2. \A k \in 0 .. n : h[k] = g[k]
    OBVIOUS
  <2>3. \A k \in 0 .. n + 1 : JoinPass(ps, h, k) = JoinPass(ps, g, k)
    BY <2>2 DEF JoinPass
  <2>4. \A k \in 0 .. n : g[k] = JoinPass(ps, g, k)
    BY <2>1
  <2>5. \A k \in 0 .. n + 1 : h[k] = JoinPass(ps, h, k)
    BY <2>3, <2>4
  <2>6. h = [k \in 0 .. n + 1 |-> JoinPass(ps, h, k)]
    BY <2>5
  <2> QED
    BY <2>6
<1> HIDE DEF Done
<1> DEFINE S == {n \in Nat : Done(n)}
<1>3. 0 \in S /\ \A n \in Nat : n \in S => n + 1 \in S
  BY <1>1, <1>2
<1>4. Nat \subseteq S
  <2> HIDE DEF S
  <2> QED
    BY <1>3, NatSetInduction
<1>5. Done(Len(ps))
  BY <1>4
<1> QED
  BY <1>5 DEF Done

\* The joined frames, pass by pass.
LEMMA JoinedPasses ==
  ASSUME NEW ps, Len(ps) \in Nat
  PROVE  \E g : /\ Joined(ps) = g[Len(ps)]
                /\ g[0] = <<>>
                /\ \A k \in 1 .. Len(ps) : g[k] = g[k - 1] \o ps[k].frames
<1> DEFINE joined == CHOOSE g : g = [k \in 0 .. Len(ps) |-> JoinPass(ps, g, k)]
<1>1. joined = [k \in 0 .. Len(ps) |-> JoinPass(ps, joined, k)]
  <2> DEFINE P(g) == g = [k \in 0 .. Len(ps) |-> JoinPass(ps, g, k)]
  <2>1. \E g : P(g)
    BY JoinEnds, Zenon
  <2> HIDE DEF P
  <2>2. P(CHOOSE g : P(g))
    BY <2>1
  <2> QED
    BY <2>2 DEF P
<1>2. Joined(ps) = joined[Len(ps)]
  BY DEF Joined, JoinPass
<1> HIDE DEF joined
<1>3. \A k \in 0 .. Len(ps) : joined[k] = JoinPass(ps, joined, k)
  BY <1>1
<1>4. joined[0] = <<>>
  BY <1>3 DEF JoinPass
<1>5. ASSUME NEW k \in 1 .. Len(ps)
      PROVE  joined[k] = joined[k - 1] \o ps[k].frames
  <2>1. k \in 0 .. Len(ps) /\ k # 0
    OBVIOUS
  <2> QED
    BY <1>3, <2>1 DEF JoinPass
<1> QED
  BY <1>2, <1>4, <1>5

\* A packet more adds its frames at the end.
LEMMA JoinedAppend ==
  ASSUME NEW ps \in Seq(Packets), NEW p \in Packets
  PROVE  /\ Joined(ps) \in Seq(Nat)
         /\ Joined(Append(ps, p)) = Joined(ps) \o p.frames
<1> DEFINE qs == Append(ps, p)
<1>1. /\ Len(ps) \in Nat /\ Len(qs) = Len(ps) + 1 /\ qs[Len(ps) + 1] = p
      /\ Len(qs) \in Nat
      /\ \A k \in 1 .. Len(ps) : qs[k] = ps[k] /\ ps[k] \in Packets
  OBVIOUS
<1> HIDE DEF qs
<1>2. PICK g : /\ Joined(ps) = g[Len(ps)] /\ g[0] = <<>>
               /\ \A k \in 1 .. Len(ps) : g[k] = g[k - 1] \o ps[k].frames
  BY <1>1, JoinedPasses
<1>3. PICK h : /\ Joined(qs) = h[Len(qs)] /\ h[0] = <<>>
               /\ \A k \in 1 .. Len(qs) : h[k] = h[k - 1] \o qs[k].frames
  BY <1>1, JoinedPasses
<1> DEFINE Same(n) == n <= Len(ps) => g[n] = h[n] /\ g[n] \in Seq(Nat)
<1>4. Same(0)
  <2>1. <<>> \in Seq(Nat)
    OBVIOUS
  <2> QED
    BY <1>2, <1>3, <2>1
<1>5. ASSUME NEW n \in Nat, Same(n)
      PROVE  Same(n + 1)
  <2> SUFFICES ASSUME n + 1 <= Len(ps)
               PROVE  g[n + 1] = h[n + 1] /\ g[n + 1] \in Seq(Nat)
    OBVIOUS
  <2>1. n + 1 \in 1 .. Len(ps) /\ n + 1 \in 1 .. Len(qs) /\ (n + 1) - 1 = n
    BY <1>1
  <2>2. g[n] = h[n] /\ g[n] \in Seq(Nat)
    BY <1>1, <1>5
  <2>3. g[n + 1] = g[n] \o ps[n + 1].frames /\ h[n + 1] = h[n] \o ps[n + 1].frames
    BY <1>1, <1>2, <1>3, <2>1
  <2>4. ps[n + 1].frames \in Seq(Nat)
    BY <1>1, <2>1 DEF Packets
  <2> QED
    BY <2>2, <2>3, <2>4
<1> HIDE DEF Same
<1> DEFINE S == {n \in Nat : Same(n)}
<1>6. 0 \in S /\ \A n \in Nat : n \in S => n + 1 \in S
  BY <1>4, <1>5
<1>7. Nat \subseteq S
  <2> HIDE DEF S
  <2> QED
    BY <1>6, NatSetInduction
<1>8. g[Len(ps)] = h[Len(ps)] /\ g[Len(ps)] \in Seq(Nat)
  BY <1>1, <1>7 DEF Same
<1>9. h[Len(ps) + 1] = h[Len(ps)] \o p.frames
  <2>1. Len(ps) + 1 \in 1 .. Len(qs) /\ (Len(ps) + 1) - 1 = Len(ps)
    BY <1>1
  <2> QED
    BY <1>1, <1>3, <2>1
<1> QED
  BY <1>1, <1>2, <1>3, <1>8, <1>9 DEF qs

\* Nothing sent is nothing joined.
LEMMA JoinedEmpty == Joined(<<>>) = <<>>
<1>1. Len(<<>>) = 0
  OBVIOUS
<1>2. PICK g : Joined(<<>>) = g[Len(<<>>)] /\ g[0] = <<>>
  BY <1>1, JoinedPasses
<1> QED
  BY <1>1, <1>2

\* Two rising lists, the first below the second, rise when joined.
LEMMA RisingConcat ==
  ASSUME NEW s \in Seq(Nat), NEW t \in Seq(Nat), Rising(s), Rising(t),
         \A a \in Elements(s), b \in Elements(t) : a < b
  PROVE  Rising(s \o t)
<1> DEFINE u == s \o t
<1>1. /\ Len(u) = Len(s) + Len(t) /\ Len(s) \in Nat /\ Len(t) \in Nat
      /\ \A k \in 1 .. Len(u) : u[k] = IF k <= Len(s) THEN s[k] ELSE t[k - Len(s)]
  BY ConcatProperties
<1> HIDE DEF u
<1> SUFFICES ASSUME NEW j \in 1 .. Len(u), NEW k \in 1 .. Len(u), j < k
             PROVE  u[j] < u[k]
  BY DEF Rising, u
<1>2. CASE k <= Len(s)
  <2>1. j \in 1 .. Len(s) /\ k \in 1 .. Len(s) /\ j <= Len(s)
    BY <1>1, <1>2
  <2>2. u[j] = s[j] /\ u[k] = s[k]
    BY <1>1, <2>1
  <2> QED
    BY <2>1, <2>2 DEF Rising
<1>3. CASE j <= Len(s) /\ ~(k <= Len(s))
  <2>1. k - Len(s) \in 1 .. Len(t) /\ j \in 1 .. Len(s)
    BY <1>1, <1>3
  <2> QED
    BY <1>1, <1>3, <2>1 DEF Elements
<1>4. CASE ~(j <= Len(s))
  <2>1. /\ j - Len(s) \in 1 .. Len(t) /\ k - Len(s) \in 1 .. Len(t)
        /\ j - Len(s) < k - Len(s) /\ ~(k <= Len(s))
    BY <1>1, <1>4
  <2> QED
    BY <1>1, <1>4, <2>1 DEF Rising
<1> QED
  BY <1>2, <1>3, <1>4

\* A larger element at the end keeps a list rising.
LEMMA RisingAppend ==
  ASSUME NEW s \in Seq(Nat), NEW e \in Nat, Rising(s), \A a \in Elements(s) : a < e
  PROVE  Rising(Append(s, e))
<1> DEFINE u == Append(s, e)
<1>1. /\ Len(u) = Len(s) + 1 /\ Len(s) \in Nat /\ u[Len(s) + 1] = e
      /\ \A k \in 1 .. Len(s) : u[k] = s[k]
  OBVIOUS
<1> HIDE DEF u
<1> SUFFICES ASSUME NEW j \in 1 .. Len(u), NEW k \in 1 .. Len(u), j < k
             PROVE  u[j] < u[k]
  BY DEF Rising, u
<1>2. CASE k = Len(s) + 1
  BY <1>1, <1>2 DEF Elements
<1>3. CASE k # Len(s) + 1
  BY <1>1, <1>3 DEF Rising
<1> QED
  BY <1>2, <1>3

-----------------------------------------------------------------------------
ReplayTyped ==
    /\ w \in Nat /\ start \in Nat /\ next \in Nat /\ end \in Nat
    /\ start <= next /\ next <= end /\ end <= w
    /\ replay \in {"none", "read", "ship"}
    /\ chosen \in Seq(Nat)
    /\ packets \in Seq(Packets)

\* Between requests nothing is collected and the window is read to its end.
ReplayAtRest == replay = "none" => chosen = <<>> /\ next = end

\* WindowReplayed speaks of a finished request; under way, what is sent and what is
\* collected make up the part of the window that was read.
SoFar ==
    /\ Rising(Joined(packets)) /\ Rising(chosen)
    /\ \A a \in Elements(Joined(packets)), b \in Elements(chosen) : a < b
    /\ Elements(Joined(packets)) \cup Elements(chosen) =
           {f \in start .. next - 1 : Voiced(f)} \ (gone \cup tooLong)
    /\ gone \cup tooLong \subseteq start .. next - 1

ReplayInv == ReplayTyped /\ ReplayAtRest /\ SoFar /\ EndMarkedOnce

LEMMA ReplayTypedNext ==
    ReplayTyped /\ ReplayAtRest /\ [ReplayNext]_replayVars => ReplayTyped' /\ ReplayAtRest'
<1> SUFFICES ASSUME ReplayTyped, ReplayAtRest, [ReplayNext]_replayVars
             PROVE  ReplayTyped' /\ ReplayAtRest'
  OBVIOUS
<1> USE DEF ReplayTyped, ReplayAtRest
<1>1. ASSUME NEW k \in Kinds, NEW n \in Lengths, ReplayPush(k, n)
      PROVE  ReplayTyped' /\ ReplayAtRest'
  BY <1>1 DEF ReplayPush, AudioPush
<1>2. ASSUME NEW want \in Windows, ReplayStarts(want)
      PROVE  ReplayTyped' /\ ReplayAtRest'
  <2>1. ReplayWindow(want) \in Nat /\ ReplayWindow(want) <= w
    BY ReplayAssumption, RingDrainAssumption DEF ReplayWindow
  <2>2. w' = w /\ chosen' = chosen /\ chosen = <<>>
    BY <1>2 DEF ReplayStarts, drainVars
  <2>3. packets' \in Seq(Packets)
    <3>1. <<>> \in Seq(Nat) /\ <<>> \in Seq(Packets)
      OBVIOUS
    <3>2. [frames |-> <<>>, last |-> TRUE] \in Packets
      BY <3>1 DEF Packets
    <3> QED
      BY <1>2, <3>1, <3>2 DEF ReplayStarts
  <2> QED
    BY <1>2, <2>1, <2>2, <2>3 DEF ReplayStarts
<1>3. CASE ReplaySkips
  BY <1>3 DEF ReplaySkips, Reads, drainVars
<1>4. CASE ReplayCopies
  <2>1. Append(chosen, next) \in Seq(Nat)
    BY ElementsAppend
  <2> QED
    BY <1>4, <2>1 DEF ReplayCopies, Reads, drainVars
<1>5. CASE ReplayFull
  BY <1>5 DEF ReplayFull, Reads, NextWhenFull, drainVars
<1>6. CASE ReplayReadAll
  BY <1>6 DEF ReplayReadAll, drainVars
<1>7. CASE ReplayShips
  <2>1. [frames |-> chosen, last |-> IsLast] \in Packets
    BY DEF IsLast, Packets
  <2>2. packets' \in Seq(Packets)
    BY <1>7, <2>1, ElementsAppend DEF ReplayShips
  <2>3. <<>> \in Seq(Nat)
    OBVIOUS
  <2> QED
    BY <1>7, <2>2, <2>3 DEF ReplayShips, drainVars
<1>8. CASE UNCHANGED replayVars
  BY <1>8 DEF replayVars, drainVars
<1> QED
  BY <1>1, <1>2, <1>3, <1>4, <1>5, <1>6, <1>7, <1>8 DEF ReplayNext, ReplayStep

LEMMA EndMarkedNext ==
  ReplayTyped /\ EndMarkedOnce /\ [ReplayNext]_replayVars => EndMarkedOnce'
<1> SUFFICES ASSUME ReplayTyped, EndMarkedOnce, [ReplayNext]_replayVars
             PROVE  EndMarkedOnce'
  OBVIOUS
<1> USE DEF EndMarkedOnce
<1>1. ASSUME NEW k \in Kinds, NEW n \in Lengths, ReplayPush(k, n)
      PROVE  EndMarkedOnce'
  BY <1>1 DEF ReplayPush
<1>2. ASSUME NEW want \in Windows, ReplayStarts(want)
      PROVE  EndMarkedOnce'
  BY <1>2 DEF ReplayStarts
<1>3. CASE ReplaySkips \/ ReplayCopies
  BY <1>3 DEF ReplaySkips, ReplayCopies
<1>4. CASE ReplayFull \/ ReplayReadAll
  BY <1>4 DEF ReplayFull, ReplayReadAll, Reads
<1>5. CASE ReplayShips
  <2> DEFINE p == [frames |-> chosen, last |-> IsLast]
  <2>1. /\ Len(packets) \in Nat /\ Len(packets') = Len(packets) + 1
        /\ packets'[Len(packets) + 1] = p
        /\ \A k \in 1 .. Len(packets) : packets'[k] = packets[k]
    BY <1>5 DEF ReplayShips, ReplayTyped
  <2>2. p.last = IsLast
    OBVIOUS
  <2>3. replay = "ship" /\ (IsLast <=> replay' = "none")
    BY <1>5 DEF ReplayShips, IsLast, ReplayTyped
  <2> HIDE DEF p
  <2> SUFFICES ASSUME NEW k \in 1 .. Len(packets')
               PROVE  packets'[k].last <=> (replay' = "none" /\ k = Len(packets'))
    OBVIOUS
  <2>4. CASE k = Len(packets) + 1
    BY <2>1, <2>2, <2>3, <2>4
  <2>5. CASE k # Len(packets) + 1
    BY <2>1, <2>3, <2>5
  <2> QED
    BY <2>4, <2>5
<1>6. CASE UNCHANGED replayVars
  BY <1>6 DEF replayVars
<1> QED
  BY <1>1, <1>2, <1>3, <1>4, <1>5, <1>6 DEF ReplayNext, ReplayStep

LEMMA SoFarNext ==
  ReplayTyped /\ ReplayAtRest /\ SoFar /\ [ReplayNext]_replayVars => SoFar'
<1> SUFFICES ASSUME ReplayTyped, ReplayAtRest, SoFar, [ReplayNext]_replayVars
             PROVE  SoFar'
  OBVIOUS
<1>0. Joined(packets) \in Seq(Nat)
  <2>1. [frames |-> <<>>, last |-> TRUE] \in Packets
    <3>1. <<>> \in Seq(Nat)
      OBVIOUS
    <3> QED
      BY <3>1 DEF Packets
  <2> QED
    BY <2>1, JoinedAppend DEF ReplayTyped
<1>1. ASSUME NEW k \in Kinds, NEW n \in Lengths, ReplayPush(k, n)
      PROVE  SoFar'
  <2>1. UNCHANGED <<packets, chosen, start, next, gone, tooLong>>
    BY <1>1 DEF ReplayPush
  <2>2. \A f \in start .. next - 1 : kind'[f] = kind[f]
    BY <1>1 DEF ReplayPush, AudioPush, ReplayTyped
  <2>3. {f \in start .. next - 1 : Voiced(f)}' = {f \in start .. next - 1 : Voiced(f)}
    BY <2>1, <2>2 DEF Voiced
  <2> QED
    BY <2>1, <2>3 DEF SoFar
<1>2. ASSUME NEW want \in Windows, ReplayStarts(want)
      PROVE  SoFar'
  <2>1. /\ chosen' = <<>> /\ start' = next' /\ gone' = {} /\ tooLong' = {}
        /\ packets' \in {<<>>, <<[frames |-> <<>>, last |-> TRUE]>>}
    BY <1>2 DEF ReplayStarts, ReplayAtRest
  <2>2. ReplayTyped'
    BY <1>2, ReplayTypedNext
  <2>3. start' .. next' - 1 = {}
    <3>1. next' \in Nat /\ start' = next'
      BY <2>1, <2>2 DEF ReplayTyped
    <3>2. \A m \in Nat : m .. m - 1 = {}
      OBVIOUS
    <3>3. start' .. next' - 1 = next' .. next' - 1
      BY <3>1
    <3> QED
      BY <3>1, <3>2, <3>3
  <2>4. Joined(packets') = <<>>
    <3> DEFINE p == [frames |-> <<>>, last |-> TRUE]
    <3>1. <<>> \in Seq(Nat) /\ <<>> \in Seq(Packets) /\ <<>> \o <<>> = <<>>
      OBVIOUS
    <3>2. p \in Packets /\ p.frames = <<>> /\ Append(<<>>, p) = <<p>>
      BY <3>1 DEF Packets
    <3> HIDE DEF p
    <3>3. Joined(Append(<<>>, p)) = Joined(<<>>) \o p.frames
      BY <3>1, <3>2, JoinedAppend
    <3>4. Joined(<<p>>) = <<>>
      BY <3>1, <3>2, <3>3, JoinedEmpty
    <3> QED
      BY <2>1, <3>4, JoinedEmpty DEF p
  <2>5. Rising(<<>>) /\ Elements(<<>>) = {}
    BY ElementsEmpty DEF Rising
  <2> QED
    BY <2>1, <2>3, <2>4, <2>5 DEF SoFar
<1>3. CASE ReplaySkips
  <2>1. /\ UNCHANGED <<packets, chosen, start, kind, tooLong>> /\ next' = next + 1
        /\ gone' = (IF Readable(next) THEN gone ELSE gone \cup {next})
        /\ ~Readable(next) \/ ~Voiced(next)
    BY <1>3 DEF ReplaySkips, drainVars
  <2>2. start .. next' - 1 = (start .. next - 1) \cup {next}
    BY <2>1 DEF ReplayTyped
  <2>3. {f \in start .. next - 1 : Voiced(f)}' =
            {f \in start .. next - 1 : Voiced(f)} \cup {f \in {next} : Voiced(f)}
    BY <2>1, <2>2 DEF Voiced
  <2>4. next \notin start .. next - 1
    BY DEF ReplayTyped
  <2>5. gone' \cup tooLong' \subseteq start' .. next' - 1
    BY <2>1, <2>2 DEF SoFar
  <2>6. {f \in start .. next - 1 : Voiced(f)}' \ (gone' \cup tooLong') =
            {f \in start .. next - 1 : Voiced(f)} \ (gone \cup tooLong)
    <3>1. CASE Readable(next)
      BY <2>1, <2>3, <3>1
    <3>2. CASE ~Readable(next)
      BY <2>1, <2>3, <2>4, <3>2
    <3> QED
      BY <3>1, <3>2
  <2> QED
    BY <2>1, <2>5, <2>6 DEF SoFar
<1>4. CASE ReplayCopies
  <2>1. /\ UNCHANGED <<packets, start, kind, gone, tooLong>> /\ next' = next + 1
        /\ chosen' = Append(chosen, next) /\ Voiced(next)
    BY <1>4 DEF ReplayCopies, drainVars
  <2>2. start .. next' - 1 = (start .. next - 1) \cup {next}
        /\ next \notin start .. next - 1
    BY <2>1 DEF ReplayTyped
  <2>3. {f \in start .. next - 1 : Voiced(f)}' = {f \in start .. next - 1 : Voiced(f)} \cup {next}
    BY <2>1, <2>2 DEF Voiced
  <2>4. chosen \in Seq(Nat) /\ next \in Nat
    BY DEF ReplayTyped
  <2>5. Elements(chosen') = Elements(chosen) \cup {next}
    BY <2>1, <2>4, ElementsAppend
  <2>6. \A a \in Elements(Joined(packets)) \cup Elements(chosen) : a < next
    BY DEF SoFar, ReplayTyped
  <2>7. Rising(chosen')
    BY <2>1, <2>4, <2>6, RisingAppend DEF SoFar
  <2>8. gone' \cup tooLong' \subseteq start' .. next' - 1 /\ next \notin gone \cup tooLong
    BY <2>1, <2>2 DEF SoFar
  <2> QED
    BY <2>1, <2>3, <2>5, <2>6, <2>7, <2>8 DEF SoFar
<1>5. CASE ReplayFull
  <2>1. CASE chosen = <<>>
    <3>1. /\ UNCHANGED <<packets, chosen, start, kind, gone>> /\ next' = next + 1
          /\ tooLong' = tooLong \cup {next}
      BY <1>5, <2>1 DEF ReplayFull, NextWhenFull, drainVars
    <3>2. start .. next' - 1 = (start .. next - 1) \cup {next}
          /\ next \notin start .. next - 1
      BY <3>1 DEF ReplayTyped
    <3>3. {f \in start .. next - 1 : Voiced(f)}' =
              {f \in start .. next - 1 : Voiced(f)} \cup {f \in {next} : Voiced(f)}
      BY <3>1, <3>2 DEF Voiced
    <3>4. gone' \cup tooLong' \subseteq start' .. next' - 1
      BY <3>1, <3>2 DEF SoFar
    <3>5. {f \in start .. next - 1 : Voiced(f)}' \ (gone' \cup tooLong') =
              {f \in start .. next - 1 : Voiced(f)} \ (gone \cup tooLong)
      BY <3>1, <3>2, <3>3
    <3> QED
      BY <3>1, <3>4, <3>5 DEF SoFar
  <2>2. CASE chosen # <<>>
    BY <1>5, <2>2 DEF ReplayFull, NextWhenFull, drainVars, SoFar, Voiced
  <2> QED
    BY <2>1, <2>2
<1>6. CASE ReplayReadAll
  BY <1>6 DEF ReplayReadAll, drainVars, SoFar, Voiced
<1>7. CASE ReplayShips
  <2> DEFINE p == [frames |-> chosen, last |-> IsLast]
  <2>1. /\ UNCHANGED <<start, next, kind, gone, tooLong>>
        /\ packets' = Append(packets, p) /\ chosen' = <<>>
    BY <1>7 DEF ReplayShips, drainVars
  <2>2. p \in Packets /\ p.frames = chosen /\ chosen \in Seq(Nat)
        /\ packets \in Seq(Packets)
    BY DEF ReplayTyped, Packets, IsLast
  <2> HIDE DEF p
  <2>3. Joined(packets') = Joined(packets) \o chosen
    BY <2>1, <2>2, JoinedAppend
  <2>4. Elements(Joined(packets')) = Elements(Joined(packets)) \cup Elements(chosen)
    BY <1>0, <2>2, <2>3, ElementsConcat
  <2>5. Rising(Joined(packets'))
    BY <1>0, <2>2, <2>3, RisingConcat DEF SoFar
  <2>6. Elements(chosen') = {} /\ Rising(chosen')
    BY <2>1, ElementsEmpty DEF Rising
  <2> QED
    BY <2>1, <2>4, <2>5, <2>6 DEF SoFar, Voiced
<1>8. CASE UNCHANGED replayVars
  BY <1>8 DEF replayVars, drainVars, SoFar, Voiced
<1> QED
  BY <1>1, <1>2, <1>3, <1>4, <1>5, <1>6, <1>7, <1>8 DEF ReplayNext, ReplayStep

LEMMA ReplayInvInit == ReplayInit => ReplayInv
<1> SUFFICES ASSUME ReplayInit
             PROVE  ReplayInv
  OBVIOUS
<1>1. \A S : <<>> \in Seq(S)
  OBVIOUS
<1>2. w \in Nat
  BY DEF ReplayInit, DrainInit
<1>3. ReplayTyped /\ ReplayAtRest
  BY <1>1, <1>2 DEF ReplayInit, ReplayTyped, ReplayAtRest
<1>4. Joined(packets) = <<>> /\ Rising(<<>>) /\ Elements(<<>>) = {}
  BY JoinedEmpty, ElementsEmpty DEF ReplayInit, Rising
<1>5. start .. next - 1 = {}
  BY DEF ReplayInit
<1>6. SoFar
  BY <1>4, <1>5 DEF ReplayInit, SoFar
<1> QED
  BY <1>3, <1>6 DEF ReplayInit, ReplayInv, EndMarkedOnce

LEMMA ReplayInvNext == ReplayInv /\ [ReplayNext]_replayVars => ReplayInv'
  BY ReplayTypedNext, EndMarkedNext, SoFarNext DEF ReplayInv

LEMMA ReplayInvServes == ReplayInv => RequestServed
<1> SUFFICES ASSUME ReplayInv
             PROVE  RequestServed
  OBVIOUS
<1>1. Shipped = Joined(packets)
  BY DEF Shipped, Joined
<1>2. ASSUME replay = "none"
      PROVE  /\ Rising(Shipped)
             /\ Elements(Shipped) = {f \in start .. end - 1 : Voiced(f)} \ (gone \cup tooLong)
  BY <1>1, <1>2, ElementsEmpty DEF ReplayInv, ReplayAtRest, SoFar
<1>3. WindowReplayed
  BY <1>2 DEF WindowReplayed, Rising, Elements
<1> QED
  BY <1>3 DEF RequestServed, ReplayInv

\* drain_replay(): a request_buffer is answered with the voiced frames of its window, once
\* and in order, and with one packet marked as the last, for every ring, every window,
\* every packet size and every frame pushed meanwhile.
THEOREM RequestsAreServed == ReplaySpec => []RequestServed
  BY ReplayInvInit, ReplayInvNext, ReplayInvServes, PTL DEF ReplaySpec
=============================================================================
