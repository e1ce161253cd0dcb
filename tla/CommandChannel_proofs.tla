------------------------ MODULE CommandChannel_proofs ------------------------
(***************************************************************************)
(* The command channel: the server's registry, and the registry and the    *)
(* wearable joined by a link that loses and repeats frames, for every set  *)
(* of command_ids and keys, every ring size, queue depth and time to live. *)
(*                                                                         *)
(* The registry's part rests on KeyMapCurrent: issue() consults _idem, not *)
(* the other commands, and _idem still points at every unacked keyed       *)
(* command.  The channel's part shows that each end sees only steps of its *)
(* own specification, because what travels was minted, and takes over what *)
(* was proved of it (the wearable's in Device_proofs).                     *)
(***************************************************************************)
EXTENDS CommandChannel, Device_proofs

-----------------------------------------------------------------------------
\* Appending to the issue order adds exactly the new id.
LEMMA AppendTracked ==
    ASSUME NEW S, NEW s \in Seq(S), NEW e \in S
    PROVE  /\ Append(s, e) \in Seq(S)
           /\ {Append(s, e)[i] : i \in 1 .. Len(Append(s, e))}
                = {s[i] : i \in 1 .. Len(s)} \union {e}
<1>1. Append(s, e) \in Seq(S) /\ Len(Append(s, e)) = Len(s) + 1 /\ Len(s) \in Nat
  OBVIOUS
<1>2. \A i \in 1 .. Len(s) : Append(s, e)[i] = s[i]
  OBVIOUS
<1>3. Append(s, e)[Len(s) + 1] = e
  OBVIOUS
<1>4. 1 .. (Len(s) + 1) = (1 .. Len(s)) \union {Len(s) + 1}
  BY <1>1
<1>. QED
  BY <1>1, <1>2, <1>3, <1>4

\* An operation of the dispatcher keeps its tables well typed.
LEMMA DispTypeStep == DispTypeOK /\ [DispNext]_dispVars => DispTypeOK'
<1> SUFFICES ASSUME DispTypeOK, [DispNext]_dispVars PROVE DispTypeOK'
  OBVIOUS
<1> USE DEF DispTypeOK
<1>1. ASSUME NEW c \in CommandIds, NEW k \in Keys \union {NoKey}, Issue(c, k)
      PROVE  DispTypeOK'
  <2>1. CASE IssueAbsorbed(c, k)
    BY <2>1 DEF IssueAbsorbed, dispVars
  <2>2. CASE IssueNew(c, k)
    <3>1. now + Ttl \in Nat
      BY TtlAssumption
    <3>2. "pending" \in Statuses
      BY DEF Statuses, StatusOrder
    <3>3. idem' \in [Keys -> CommandIds \union {Absent}]
      BY <2>2 DEF IssueNew
    <3>4. order' \in Seq(CommandIds)
      BY <2>2 DEF IssueNew
    <3>5. expires' \in [CommandIds -> Nat]
      BY <2>2, <3>1 DEF IssueNew, ExpiresAt
    <3>6. /\ status' \in [CommandIds -> Statuses \union {Absent}]
          /\ stored' \in [CommandIds -> Statuses \union {Absent}]
      BY <2>2, <3>2 DEF IssueNew
    <3>. QED
      BY <2>2, <3>3, <3>4, <3>5, <3>6 DEF IssueNew
  <2>. QED
    BY <1>1, <2>1, <2>2 DEF Issue
<1>2. ASSUME NEW c \in minted, Ack(c) PROVE DispTypeOK'
  BY <1>2 DEF Ack
<1>3. ASSUME NEW c \in CommandIds, NEW s \in Statuses, Transition(c, s)
      PROVE  DispTypeOK'
  BY <1>3 DEF Transition
<1>4. CASE Restart
  BY <1>4 DEF Restart
<1>5. CASE Tick
  BY <1>5 DEF Tick
<1>6. CASE UNCHANGED dispVars
  BY <1>6 DEF dispVars
<1>. QED
  BY <1>1, <1>2, <1>3, <1>4, <1>5, <1>6 DEF DispNext

\* Every value of the dispatcher's tables is of its kind (the constructor and
\* each operation of CommandDispatcher).
THEOREM DispTypeCorrect == DispSpec => []DispTypeOK
<1>1. DispInit => DispTypeOK
  BY DEF DispInit, DispTypeOK
<1>. QED
  BY <1>1, DispTypeStep, PTL DEF DispSpec

\* An operation of the dispatcher keeps the key table current.
LEMMA KeyMapStep == DispTypeOK /\ KeyMapCurrent /\ [DispNext]_dispVars => KeyMapCurrent'
<1> SUFFICES ASSUME DispTypeOK, KeyMapCurrent, [DispNext]_dispVars
             PROVE  KeyMapCurrent'
  OBVIOUS
<1>1. ASSUME NEW c \in CommandIds, NEW k \in Keys \union {NoKey}, Issue(c, k)
      PROVE  KeyMapCurrent'
  <2>1. CASE IssueAbsorbed(c, k)
    BY <2>1 DEF IssueAbsorbed, dispVars, KeyMapCurrent, Tracked
  <2>2. CASE IssueNew(c, k)
    <3>1. Tracked' = Tracked \union {c}
      BY <2>2, AppendTracked DEF IssueNew, Tracked, DispTypeOK
    <3>2. c \notin Tracked
      BY <2>2 DEF IssueNew, KeyMapCurrent
    <3>3. Tracked' \subseteq minted'
      BY <2>2, <3>1 DEF IssueNew, KeyMapCurrent
    <3>4. ASSUME NEW d \in Tracked', key'[d] # NoKey, d \notin acked'
          PROVE  idem'[key'[d]] = d
      <4>1. CASE d = c
        BY <2>2, <3>4, <4>1 DEF IssueNew, DispTypeOK
      <4>2. CASE d # c
        <5>1. /\ d \in Tracked
              /\ key'[d] = key[d]
              /\ acked' = acked
          BY <2>2, <3>1, <4>2 DEF IssueNew, DispTypeOK
        <5>2. idem[key[d]] = d
          BY <3>4, <5>1 DEF KeyMapCurrent
        <5>3. key[d] \in Keys /\ d # Absent
          BY <3>3, <3>4, <5>1, <2>2, AbsentAssumption
             DEF DispTypeOK, KeyMapCurrent, IssueNew
        <5>4. key[d] # k
          BY <2>2, <3>4, <5>1, <5>2, <5>3 DEF IssueNew, Absorbing
        <5>. QED
          BY <2>2, <5>1, <5>2, <5>3, <5>4 DEF IssueNew, DispTypeOK
      <4>. QED
        BY <4>1, <4>2
    <3>. QED
      BY <3>3, <3>4 DEF KeyMapCurrent
  <2>. QED
    BY <1>1, <2>1, <2>2 DEF Issue
<1>2. ASSUME NEW c \in minted, Ack(c) PROVE KeyMapCurrent'
  BY <1>2 DEF Ack, KeyMapCurrent, Tracked
<1>3. ASSUME NEW c \in CommandIds, NEW s \in Statuses, Transition(c, s)
      PROVE  KeyMapCurrent'
  BY <1>3 DEF Transition, KeyMapCurrent, Tracked
<1>4. CASE Restart
  <2>1. Tracked' = {}
    BY <1>4 DEF Restart, Tracked
  <2>. QED
    BY <2>1 DEF KeyMapCurrent
<1>5. CASE Tick
  BY <1>5 DEF Tick, KeyMapCurrent, Tracked
<1>6. CASE UNCHANGED dispVars
  BY <1>6 DEF dispVars, KeyMapCurrent, Tracked
<1>. QED
  BY <1>1, <1>2, <1>3, <1>4, <1>5, <1>6 DEF DispNext

\* The key table is never behind: an unacked keyed command is the one its key
\* maps to, whatever is retried, acked, expired or restarted in between.
THEOREM KeyMapStaysCurrent == DispSpec => []KeyMapCurrent
<1>1. DispInit => KeyMapCurrent
  BY DEF DispInit, KeyMapCurrent, Tracked
<1>. QED
  BY <1>1, KeyMapStep, DispTypeCorrect, PTL DEF DispSpec

\* issue() keeps its promise: no key is ever held by two unacked commands.
THEOREM KeyHeldOnce == DispSpec => []OneUnackedPerKey
<1>1. KeyMapCurrent => OneUnackedPerKey
  BY DEF KeyMapCurrent, OneUnackedPerKey
<1>. QED
  BY <1>1, KeyMapStaysCurrent, PTL

-----------------------------------------------------------------------------
\* What travels between the two ends was minted by the registry.
InFlightMinted ==
    /\ Tracked \subseteq minted
    /\ down \in Seq(minted)
    /\ upq \in Seq(minted)

\* The parts of the channel's state.
ChannelInv ==
    /\ DevTypeOK
    /\ DispTypeOK
    /\ InFlightMinted

\* A list of minted ids stays one while more are minted.
LEMMA MintedGrows == ASSUME NEW M, NEW N, M \subseteq N, NEW s \in Seq(M) PROVE s \in Seq(N)
  OBVIOUS

\* pending() offers nothing but tracked commands.
LEMMA PendingTracked ==
  ASSUME DispTypeOK, Tracked \subseteq minted
  PROVE  Pending \in Seq(minted)
<1>1. order \in Seq(minted)
  BY ElementsWithin DEF Tracked, Elements, DispTypeOK
<1> QED
  BY <1>1, FilterCorrect DEF Pending

\* Every step of the channel is, for the wearable, a step of its own specification.
LEMMA DeviceSide ==
  ASSUME ChannelInv, [Next]_vars
  PROVE  [DevNext]_devVars
<1>1. ASSUME NEW c \in Ids, NEW k \in Keys \union {NoKey}, IssueCommand(c, k)
      PROVE  UNCHANGED devVars
  BY <1>1 DEF IssueCommand
<1>2. ASSUME Hello \/ Drop \/ OnCommandAck \/ ClockTicks \/ GatewayRestarts
      PROVE  UNCHANGED devVars
  BY <1>2 DEF Hello, Drop, OnCommandAck, ClockTicks, GatewayRestarts
<1>3. ASSUME NEW notified \in BOOLEAN, DeviceReceives(notified)
      PROVE  DevNext
  <2>1. Head(down) \in Ids
    BY <1>3, OneCommandSet, TailFacts
       DEF DeviceReceives, ChannelInv, InFlightMinted, DispTypeOK
  <2> QED
    BY <1>3, <2>1 DEF DeviceReceives, DevNext
<1>4. ASSUME DeviceRuns \/ ButtonPressed \/ DeviceReboots
      PROVE  DevNext
  BY <1>4 DEF DeviceRuns, ButtonPressed, DeviceReboots, DevNext
<1>5. ASSUME UNCHANGED vars
      PROVE  UNCHANGED devVars
  BY <1>5 DEF vars
<1> QED
  BY <1>1, <1>2, <1>3, <1>4, <1>5 DEF Next

\* Every step of the channel is, for the registry, a step of its own specification.
LEMMA RegistrySide ==
  ASSUME ChannelInv, [Next]_vars
  PROVE  [DispNext]_dispVars
<1>1. ASSUME NEW c \in Ids, NEW k \in Keys \union {NoKey}, IssueCommand(c, k)
      PROVE  DispNext
  BY <1>1, OneCommandSet DEF IssueCommand, DispNext
<1>2. ASSUME Hello \/ Drop \/ DeviceRuns \/ ButtonPressed \/ DeviceReboots
      PROVE  UNCHANGED dispVars
  BY <1>2 DEF Hello, Drop, DeviceRuns, ButtonPressed, DeviceReboots
<1>3. ASSUME NEW notified \in BOOLEAN, DeviceReceives(notified)
      PROVE  UNCHANGED dispVars
  BY <1>3 DEF DeviceReceives
<1>4. ASSUME OnCommandAck
      PROVE  DispNext
  <2>1. Head(upq) \in minted
    BY <1>4, TailFacts DEF OnCommandAck, ChannelInv, InFlightMinted
  <2> QED
    BY <1>4, <2>1 DEF OnCommandAck, DispNext
<1>5. ASSUME ClockTicks \/ GatewayRestarts
      PROVE  DispNext
  BY <1>5 DEF ClockTicks, GatewayRestarts, DispNext
<1>6. ASSUME UNCHANGED vars
      PROVE  UNCHANGED dispVars
  BY <1>6 DEF vars
<1> QED
  BY <1>1, <1>2, <1>3, <1>4, <1>5, <1>6 DEF Next

\* A step of the channel puts nothing on the link that was not minted.
LEMMA InFlightStep ==
  ASSUME ChannelInv, [Next]_vars, DispTypeOK'
  PROVE  InFlightMinted'
<1> USE DEF InFlightMinted
<1>0. <<>> \in Seq(minted) /\ <<>> \in Seq(minted')
  OBVIOUS
<1>1. ASSUME NEW c \in Ids, NEW k \in Keys \union {NoKey}, IssueCommand(c, k)
      PROVE  InFlightMinted'
  <2>1. minted \subseteq minted' /\ Tracked' \subseteq minted'
    <3>1. CASE IssueAbsorbed(c, k)
      BY <3>1 DEF IssueAbsorbed, dispVars, ChannelInv, Tracked
    <3>2. CASE IssueNew(c, k)
      <4>1. order \in Seq(CommandIds) /\ c \in CommandIds
        BY OneCommandSet DEF ChannelInv, DispTypeOK
      <4>2. Tracked' = Tracked \union {c}
        BY <3>2, <4>1, AppendTracked DEF IssueNew, Tracked
      <4> QED
        BY <3>2, <4>2 DEF IssueNew, ChannelInv
    <3> QED
      BY <1>1, <3>1, <3>2 DEF IssueCommand, Issue
  <2>2. UNCHANGED <<down, upq>>
    BY <1>1 DEF IssueCommand, linkVars
  <2> QED
    BY <2>1, <2>2, MintedGrows DEF ChannelInv
<1>2. CASE Hello
  <2>1. Pending \in Seq(minted)
    BY PendingTracked DEF ChannelInv
  <2>2. UNCHANGED <<order, minted>> /\ down' = Pending /\ upq' = <<>>
    BY <1>2 DEF Hello, dispVars
  <2> QED
    BY <1>0, <2>1, <2>2 DEF ChannelInv, Tracked
<1>3. CASE Drop
  BY <1>0, <1>3 DEF Drop, dispVars, ChannelInv, Tracked
<1>4. ASSUME NEW notified \in BOOLEAN, DeviceReceives(notified)
      PROVE  InFlightMinted'
  <2>1. Head(down) \in minted /\ Tail(down) \in Seq(minted)
    BY <1>4, TailFacts DEF DeviceReceives, ChannelInv
  <2>2. UNCHANGED <<order, minted>> /\ down' = Tail(down)
    BY <1>4 DEF DeviceReceives, dispVars
  <2>3. upq' \in {upq, Append(upq, Head(down))}
    BY <1>4 DEF DeviceReceives
  <2>4. upq' \in Seq(minted)
    BY <2>1, <2>3, AppendFacts DEF ChannelInv
  <2> QED
    BY <2>1, <2>2, <2>4 DEF ChannelInv, Tracked
<1>5. CASE OnCommandAck
  <2>1. UNCHANGED <<order, minted>>
    BY <1>5 DEF OnCommandAck, Ack
  <2>2. Tracked' \subseteq minted'
    BY <2>1 DEF ChannelInv, Tracked
  <2>3. Pending' \in Seq(minted')
    <3>1. order' \in Seq(minted')
      BY <2>2, ElementsWithin DEF Tracked, Elements, DispTypeOK
    <3> QED
      BY <3>1, FilterCorrect DEF Pending
  <2>4. down' = down \o Pending' /\ upq' = Tail(upq) /\ upq # <<>>
    BY <1>5 DEF OnCommandAck
  <2>5. down' \in Seq(minted')
    BY <2>1, <2>3, <2>4, ElementsConcat DEF ChannelInv
  <2>6. upq' \in Seq(minted')
    BY <2>1, <2>4, TailFacts DEF ChannelInv
  <2> QED
    BY <2>2, <2>5, <2>6
<1>6. CASE DeviceRuns \/ ButtonPressed
  BY <1>6 DEF DeviceRuns, ButtonPressed, dispVars, linkVars, ChannelInv, Tracked
<1>7. CASE ClockTicks
  BY <1>7 DEF ClockTicks, Tick, linkVars, ChannelInv, Tracked
<1>8. CASE DeviceReboots
  BY <1>0, <1>8 DEF DeviceReboots, dispVars, ChannelInv, Tracked
<1>9. CASE GatewayRestarts
  <2>1. Tracked' = {}
    BY <1>9 DEF GatewayRestarts, Restart, Tracked
  <2> QED
    BY <1>0, <1>9, <2>1 DEF GatewayRestarts
<1>10. CASE UNCHANGED vars
  BY <1>10 DEF vars, dispVars, linkVars, ChannelInv, Tracked
<1> QED
  BY <1>1, <1>2, <1>3, <1>4, <1>5, <1>6, <1>7, <1>8, <1>9, <1>10 DEF Next

\* Both ends keep their types, and only minted commands and their acks travel.
THEOREM ChannelTypeCorrect == Spec => []ChannelInv
<1>1. Init => ChannelInv
  <2>1. \A M : <<>> \in Seq(M)
    OBVIOUS
  <2>2. DevInit => DevTypeOK
    BY EmptyFacts, Zenon DEF DevInit, DevTypeOK
  <2>3. DispInit => DispTypeOK /\ Tracked \subseteq minted
    BY DEF DispInit, DispTypeOK, Tracked
  <2> QED
    BY <2>1, <2>2, <2>3 DEF Init, ChannelInv, InFlightMinted
<1>2. ChannelInv /\ [Next]_vars => ChannelInv'
  <2> SUFFICES ASSUME ChannelInv, [Next]_vars
               PROVE  ChannelInv'
    OBVIOUS
  <2>1. DevTypeOK'
    BY DeviceSide, DevTypeStep DEF ChannelInv
  <2>2. DispTypeOK'
    BY RegistrySide, DispTypeStep DEF ChannelInv
  <2> QED
    BY <2>1, <2>2, InFlightStep DEF ChannelInv
<1> QED
  BY <1>1, <1>2, PTL DEF Spec

\* The channel implements both ends: however the link loses, repeats and delays frames,
\* commands.c and dispatcher.py see only the steps they are specified for, and with
\* them everything proved of each end alone.
THEOREM ChannelImplementsEnds == Spec => DevSpec /\ DispSpec
<1>1. Init => DevInit /\ DispInit
  BY DEF Init
<1>2. ChannelInv /\ [Next]_vars => [DevNext]_devVars /\ [DispNext]_dispVars
  BY DeviceSide, RegistrySide
<1> QED
  BY <1>1, <1>2, ChannelTypeCorrect, PTL DEF Spec, DevSpec, DispSpec

-----------------------------------------------------------------------------
\* In this boot c has entered the executor queue only if the log has it.
TakenByLog ==
    /\ reboots \in Nat
    /\ taken \in [Ids -> Nat]
    /\ \A c \in Ids : taken[c] <= reboots + IF c \in Elements(log) THEN 1 ELSE 0

\* A ring no smaller than the set of commands never forgets one within a boot.
LEMMA RingHoldsLog ==
  ASSUME IsFiniteSet(Ids), Cardinality(Ids) <= Slots, DevTypeOK, RingMirrorsLog, DedupeWindow
  PROVE  Elements(log) \subseteq SeenIds
<1>0. Slots \in Nat \ {0} /\ Cardinality(Ids) \in Nat
  BY SlotsAssumption, FS_CardinalityType
<1>1. log \in Seq(Ids) /\ Len(log) \in Nat /\ seenHead \in 0 .. Slots - 1
  BY DEF DevTypeOK
<1>2. Len(log) <= Slots
  <2> SUFFICES ASSUME Len(log) > Slots
               PROVE  FALSE
    BY <1>0, <1>1
  <2> DEFINE f == [i \in 1 .. Slots + 1 |-> log[i]]
  <2>1. f \in [1 .. Slots + 1 -> Ids]
    BY <1>0, <1>1
  <2>2. ASSUME NEW i \in 1 .. Slots + 1, NEW j \in 1 .. Slots + 1, i # j
        PROVE  f[i] # f[j]
    <3>1. i \in 1 .. Len(log) /\ j \in 1 .. Len(log)
      BY <1>0, <1>1
    <3> QED
      BY <1>0, <2>2, <3>1 DEF DedupeWindow
  <2>3. IsFiniteSet(1 .. Slots + 1) /\ Cardinality(1 .. Slots + 1) = Slots + 1
    BY <1>0, FS_Interval
  <2>4. \E i, j \in 1 .. Slots + 1 : i # j /\ f[i] = f[j]
    <3> HIDE DEF f
    <3>1. Cardinality(1 .. Slots + 1) > Cardinality(Ids)
      BY <1>0, <2>3
    <3> QED
      BY <2>1, <2>3, <3>1, FS_PigeonHole
  <2> QED
    BY <2>2, <2>4
<1> SUFFICES ASSUME NEW i \in 1 .. Len(log)
             PROVE  log[i] \in SeenIds
  BY DEF Elements
<1> DEFINE k == Len(log) + 1 - i
<1>3. k \in 1 .. Slots /\ k <= Len(log) /\ Len(log) + 1 - k = i
  BY <1>0, <1>1, <1>2
<1>4. seen[SlotBack(k)] = log[i]
  BY <1>3 DEF RingMirrorsLog
<1>5. SlotBack(k) \in 0 .. Slots - 1
  BY <1>0, <1>1, <1>3 DEF SlotBack
<1> QED
  BY <1>4, <1>5 DEF SeenIds

\* A step lets a command into the executor queue once per log entry.
LEMMA TakenStep ==
  ASSUME IsFiniteSet(Ids), Cardinality(Ids) <= Slots,
         ChannelInv, RingMirrorsLog, DedupeWindow, TakenByLog, [Next]_vars
  PROVE  TakenByLog'
<1>0. log \in Seq(Ids)
  BY DEF ChannelInv, DevTypeOK
<1>1. ASSUME UNCHANGED <<log, reboots, taken>>
      PROVE  TakenByLog'
  BY <1>1 DEF TakenByLog
<1>2. ASSUME NEW c \in Ids, NEW k \in Keys \union {NoKey}, IssueCommand(c, k)
      PROVE  TakenByLog'
  BY <1>1, <1>2 DEF IssueCommand, devVars, histVars
<1>3. CASE Hello \/ Drop \/ OnCommandAck \/ ClockTicks
  BY <1>1, <1>3 DEF Hello, Drop, OnCommandAck, ClockTicks, devVars, histVars
<1>4. CASE DeviceRuns
  BY <1>1, <1>4 DEF DeviceRuns, ExecutorTask, ServeReplay, histVars
<1>5. CASE ButtonPressed
  BY <1>1, <1>5 DEF ButtonPressed, DispatchGesture, histVars
<1>6. CASE GatewayRestarts
  BY <1>1, <1>6 DEF GatewayRestarts, devVars
<1>7. CASE UNCHANGED vars
  BY <1>1, <1>7 DEF vars, devVars, histVars
<1>8. CASE DeviceReboots
  <2>1. reboots' = reboots + 1 /\ taken' = taken
    BY <1>8 DEF DeviceReboots
  <2>2. \A c \in Ids : taken[c] <= reboots + 1 /\ taken[c] \in Nat
    BY DEF TakenByLog
  <2>3. Elements(log') = {}
    BY <1>8, ElementsEmpty DEF DeviceReboots, Reboot
  <2> QED
    BY <2>1, <2>2, <2>3 DEF TakenByLog
<1>9. ASSUME NEW notified \in BOOLEAN, DeviceReceives(notified)
      PROVE  TakenByLog'
  <2> DEFINE id == Head(down)
  <2>0. id \in Ids
    BY <1>9, OneCommandSet, TailFacts
       DEF DeviceReceives, ChannelInv, InFlightMinted, DispTypeOK
  <2>1. UNCHANGED reboots /\ CommandsHandle(id)
    BY <1>9 DEF DeviceReceives
  <2>2. taken' = IF ~AlreadySeen(id)
        /\ ~QueueFull THEN [taken EXCEPT ![id] = @ + 1] ELSE taken
    BY <1>9 DEF DeviceReceives
  <2> HIDE DEF id
  <2>3. CASE HandleDuplicate(id)
    BY <1>1, <2>1, <2>2, <2>3 DEF HandleDuplicate
  <2>4. CASE ~HandleDuplicate(id)
    <3>1. ~AlreadySeen(id) /\ log' = Append(log, id)
      BY <2>1, <2>4 DEF CommandsHandle, HandleAccepted, HandleQueueFull, Remember
    <3>2. Elements(log') = Elements(log) \cup {id}
      BY <1>0, <2>0, <3>1, ElementsAppend
    <3>3. id \notin Elements(log)
      BY <3>1, RingHoldsLog DEF AlreadySeen, ChannelInv
    <3>4. taken[id] <= reboots /\ taken[id] \in Nat /\ reboots \in Nat
      BY <2>0, <3>3 DEF TakenByLog
    <3>5. taken' \in [Ids -> Nat]
      BY <2>0, <2>2 DEF TakenByLog
    <3>6. ASSUME NEW c \in Ids
          PROVE  taken'[c] <= reboots' + IF c \in Elements(log') THEN 1 ELSE 0
      <4>1. CASE c = id
        <5>1. taken'[id] \in {taken[id], taken[id] + 1}
          BY <2>0, <2>2 DEF TakenByLog
        <5> QED
          BY <2>1, <3>2, <3>4, <4>1, <5>1
      <4>2. CASE c # id
        <5>1. taken'[c] = taken[c] /\ (c \in Elements(log') <=> c \in Elements(log))
          BY <2>2, <3>2, <4>2 DEF TakenByLog
        <5> QED
          BY <2>1, <5>1 DEF TakenByLog
      <4> QED
        BY <4>1, <4>2
    <3> QED
      BY <2>1, <3>4, <3>5, <3>6 DEF TakenByLog
  <2> QED
    BY <2>3, <2>4
<1> QED
  BY <1>2, <1>3, <1>4, <1>5, <1>6, <1>7, <1>8, <1>9 DEF Next

\* commands.h: a command is executed at most once per command_id.  With a dedupe ring
\* no smaller than the set of commands in play, one boot of the wearable takes each
\* command once, through any number of lost acks, reconnects, re-offers and restarts
\* of the gateway.
THEOREM TakenOncePerBoot ==
  ASSUME IsFiniteSet(Ids), Cardinality(Ids) <= Slots
  PROVE  Spec => []ExecutedOncePerBoot
<1>1. Init => TakenByLog
  <2>1. reboots = 0 /\ taken = [c \in Ids |-> 0] /\ log = <<>> => TakenByLog
    BY ElementsEmpty DEF TakenByLog
  <2> QED
    BY <2>1 DEF Init, DevInit
<1>2. ChannelInv /\ RingMirrorsLog /\ DedupeWindow /\ TakenByLog /\ [Next]_vars => TakenByLog'
  BY TakenStep
<1>3. TakenByLog => ExecutedOncePerBoot
  <2> SUFFICES ASSUME TakenByLog, NEW c \in Ids
               PROVE  taken[c] <= 1 + reboots
    BY DEF ExecutedOncePerBoot
  <2>1. /\ taken[c] \in Nat /\ reboots \in Nat
        /\ taken[c] <= reboots \/ taken[c] <= reboots + 1
    BY DEF TakenByLog
  <2> QED
    BY <2>1
<1>4. Spec => [](RingMirrorsLog /\ DedupeWindow)
  BY ChannelImplementsEnds, DedupeCorrect, PTL
<1> QED
  BY <1>1, <1>2, <1>3, <1>4, ChannelTypeCorrect, PTL DEF Spec
==============================================================================
