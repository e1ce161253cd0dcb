---------------------------- MODULE Device_proofs ----------------------------
(***************************************************************************)
(* The wearable's command handling, its boot and its button, for any ring  *)
(* size and queue depth, any set of keys and any thresholds.               *)
(*                                                                         *)
(* COMMANDS.  DedupeWindow rests on RingMirrorsLog: the slots of the       *)
(* dedupe ring hold the latest entries of the log.                         *)
(*                                                                         *)
(* BOOT.  The key and the boot id through any number of boots, losses of   *)
(* power and failing NVS calls.  None of the properties is inductive: what *)
(* a boot finds was written by an earlier one, possibly cut short.  The    *)
(* invariants say what the flash holds while the device is off (StoredKey, *)
(* StoredId), what is written and not committed at each step of a GATT     *)
(* write (InWrite), and what RAM and the verifier hold at each step of the *)
(* boot (Verifier, Loaded).                                                *)
(*                                                                         *)
(* BUTTON.  The classifier keeps one state, one time and one flag of all   *)
(* it has seen; ButtonInv says what of the recording they are.  One poll   *)
(* more changes the definition of the gestures at its own time only        *)
(* (ExtendsGestures), so each action needs the gestures at the last poll   *)
(* and the new state.                                                      *)
(***************************************************************************)
EXTENDS DeviceCommands, DeviceBoot, Button, Filter_proofs, FiniteSetTheorems

-----------------------------------------------------------------------------
\* COMMAND HANDLING

\* Appending to a sequence keeps its earlier elements and adds one at the end.
LEMMA AppendFacts ==
    ASSUME NEW S, NEW s \in Seq(S), NEW e \in S
    PROVE  /\ Append(s, e) \in Seq(S)
           /\ Len(Append(s, e)) = Len(s) + 1
           /\ Append(s, e)[Len(s) + 1] = e
           /\ \A i \in 1 .. Len(s) : Append(s, e)[i] = s[i]
  OBVIOUS

\* The tail of a non-empty queue is a queue, shorter by one.
LEMMA TailFacts ==
    ASSUME NEW S, NEW s \in Seq(S), s # <<>>
    PROVE  /\ Tail(s) \in Seq(S)
           /\ Len(Tail(s)) = Len(s) - 1
           /\ Head(s) \in S
           /\ Len(s) \in Nat
  OBVIOUS

\* An empty queue and an all-empty ring are well typed.
LEMMA EmptyFacts ==
    /\ \A S : <<>> \in Seq(S)
    /\ [i \in 0 .. Slots - 1 |-> None] \in [0 .. Slots - 1 -> Ids \union {None}]
    /\ 0 \in 0 .. Slots - 1
<1>1. \A S : <<>> \in Seq(S)
  OBVIOUS
<1>2. [i \in 0 .. Slots - 1 |-> None] \in [0 .. Slots - 1 -> Ids \union {None}]
  OBVIOUS
<1>3. 0 \in 0 .. Slots - 1
  BY SlotsAssumption
<1> QED
  BY <1>1, <1>2, <1>3

\* remember() keeps the ring, the head and the log well typed.
LEMMA RememberType ==
    ASSUME DevTypeOK, NEW id \in Ids, Remember(id)
    PROVE  /\ seen' \in [0 .. Slots - 1 -> Ids \union {None}]
           /\ seenHead' \in 0 .. Slots - 1
           /\ log' \in Seq(Ids)
  BY SlotsAssumption DEF DevTypeOK, Remember

\* A step of the command handler, the executor or the button keeps the types.
LEMMA DevTypeStep == DevTypeOK /\ [DevNext]_devVars => DevTypeOK'
<1> SUFFICES ASSUME DevTypeOK, [DevNext]_devVars
             PROVE  DevTypeOK'
  OBVIOUS
<1>1. ASSUME NEW id \in Ids, HandleDuplicate(id)
      PROVE  DevTypeOK'
  BY <1>1 DEF DevTypeOK, HandleDuplicate
<1>2. ASSUME NEW id \in Ids, HandleAccepted(id)
      PROVE  DevTypeOK'
  <2>1. RequestOf[id] \in Requests
    BY RequestAssumption
  <2>2. execq' \in Seq(Requests)
    BY <1>2, <2>1 DEF DevTypeOK, HandleAccepted, Enqueue
  <2> QED
    BY <1>2, <2>2, RememberType DEF DevTypeOK, HandleAccepted
<1>3. ASSUME NEW id \in Ids, HandleQueueFull(id)
      PROVE  DevTypeOK'
  BY <1>3, RememberType DEF DevTypeOK, HandleQueueFull
<1>4. CASE ExecutorTask
  <2>1. execq' \in Seq(Requests)
    BY <1>4, TailFacts DEF DevTypeOK, ExecutorTask
  <2>2. replayq' \in Seq({"request_buffer"})
    BY <1>4 DEF DevTypeOK, ExecutorTask
  <2>3. paused' \in BOOLEAN
    BY <1>4 DEF DevTypeOK, ExecutorTask
  <2> QED
    BY <1>4, <2>1, <2>2, <2>3 DEF DevTypeOK, ExecutorTask
<1>5. CASE ServeReplay
  BY <1>5 DEF DevTypeOK, ServeReplay
<1>6. ASSUME NEW g \in {"short", "double", "long"}, DispatchGesture(g)
      PROVE  DevTypeOK'
  <2>1. \A req \in Requests : Append(execq, req) \in Seq(Requests)
    BY AppendFacts DEF DevTypeOK
  <2>2. execq' = execq \/ \E req \in Requests : execq' = Append(execq, req)
    BY <1>6 DEF DispatchGesture, Enqueue, Requests
  <2>3. execq' \in Seq(Requests)
    BY <2>1, <2>2 DEF DevTypeOK
  <2> QED
    BY <1>6, <2>3 DEF DevTypeOK, DispatchGesture
<1>7. CASE Reboot
  BY <1>7, EmptyFacts, Zenon DEF DevTypeOK, Reboot
<1>8. CASE UNCHANGED devVars
  BY <1>8 DEF DevTypeOK, devVars
<1> QED
  BY <1>1, <1>2, <1>3, <1>4, <1>5, <1>6, <1>7, <1>8
  DEF DevNext, CommandsHandle

\* Every variable of the command handler, the executor and the button keeps
\* its type whatever the three tasks interleave.
THEOREM DevTypeCorrect == DevSpec => []DevTypeOK
<1>1. DevInit => DevTypeOK
  BY EmptyFacts, Zenon DEF DevInit, DevTypeOK
<1> QED
  BY <1>1, DevTypeStep, PTL DEF DevSpec

-----------------------------------------------------------------------------
\* Neither the BLE host task nor the button nor the executor can push a queue
\* past the depth it was created with.
THEOREM QueuesStayBounded == DevSpec => []QueuesBounded
<1>1. DevInit => QueuesBounded
  BY DepthAssumption DEF DevInit, QueuesBounded
<1>2. DevTypeOK /\ QueuesBounded /\ [DevNext]_devVars => QueuesBounded'
  <2> SUFFICES ASSUME DevTypeOK, QueuesBounded, [DevNext]_devVars
               PROVE  QueuesBounded'
    OBVIOUS
  <2>1. ASSUME NEW id \in Ids, CommandsHandle(id)
        PROVE  QueuesBounded'
    <3>1. RequestOf[id] \in Requests
      BY RequestAssumption
    <3> QED
      BY <2>1, <3>1, DepthAssumption
      DEF DevTypeOK, QueuesBounded, CommandsHandle, HandleDuplicate,
          HandleAccepted, HandleQueueFull, Enqueue, QueueFull
  <2>2. CASE ExecutorTask
    <3>1. Len(execq') <= QueueDepth
      BY <2>2, TailFacts, DepthAssumption DEF DevTypeOK, QueuesBounded, ExecutorTask
    <3>2. Len(replayq') <= ReplayDepth
      BY <2>2, DepthAssumption DEF DevTypeOK, QueuesBounded, ExecutorTask
    <3> QED
      BY <3>1, <3>2 DEF QueuesBounded
  <2>3. CASE ServeReplay
    BY <2>3, DepthAssumption DEF DevTypeOK, QueuesBounded, ServeReplay
  <2>4. ASSUME NEW g \in {"short", "double", "long"}, DispatchGesture(g)
        PROVE  QueuesBounded'
    BY <2>4, DepthAssumption
    DEF DevTypeOK, QueuesBounded, DispatchGesture, Enqueue, QueueFull, Requests
  <2>5. CASE Reboot
    BY <2>5, DepthAssumption DEF QueuesBounded, Reboot
  <2>6. CASE UNCHANGED devVars
    BY <2>6 DEF QueuesBounded, devVars
  <2> QED
    BY <2>1, <2>2, <2>3, <2>4, <2>5, <2>6 DEF DevNext
<1> QED
  BY <1>1, <1>2, DevTypeCorrect, PTL DEF DevSpec

-----------------------------------------------------------------------------
\* remember() of an id that is not in the ring keeps the ring a mirror of the
\* last Slots entries of the log.
LEMMA RememberMirrors ==
    ASSUME DevTypeOK, RingMirrorsLog, NEW id \in Ids, Remember(id)
    PROVE  RingMirrorsLog'
<1>0. Slots \in Nat /\ Slots >= 1
  BY SlotsAssumption
<1>1. /\ Len(log) \in Nat
      /\ Len(log') = Len(log) + 1
      /\ log'[Len(log) + 1] = id
      /\ \A i \in 1 .. Len(log) : log'[i] = log[i]
  BY AppendFacts DEF DevTypeOK, Remember
<1> SUFFICES ASSUME NEW k \in 1 .. Slots, k <= Len(log')
             PROVE  seen'[SlotBack(k)'] = log'[Len(log') + 1 - k]
  BY DEF RingMirrorsLog
<1>2. seenHead \in 0 .. Slots - 1 /\ seen \in [0 .. Slots - 1 -> Ids \union {None}]
  BY DEF DevTypeOK
<1>3. seen' = [seen EXCEPT ![seenHead] = id]
  BY DEF Remember
<1>4. CASE k = 1
  <2>1. SlotBack(k)' = seenHead
    BY <1>0, <1>2, <1>4 DEF SlotBack, Remember
  <2> QED
    BY <1>1, <1>2, <1>3, <1>4, <2>1
<1>5. CASE k # 1
  <2>1. k - 1 \in 1 .. Slots /\ k - 1 <= Len(log)
    BY <1>0, <1>1, <1>5
  <2>2. SlotBack(k)' = SlotBack(k - 1)
    BY <1>0, <1>2, <1>5 DEF SlotBack, Remember
  <2>3. SlotBack(k - 1) # seenHead /\ SlotBack(k - 1) \in 0 .. Slots - 1
    BY <1>0, <1>2, <1>5 DEF SlotBack
  <2>4. seen[SlotBack(k - 1)] = log[Len(log) + 1 - (k - 1)]
    BY <2>1 DEF RingMirrorsLog
  <2>5. Len(log) + 1 - (k - 1) \in 1 .. Len(log)
    BY <1>1, <2>1
  <2>6. Len(log') + 1 - k = Len(log) + 1 - (k - 1)
    BY <1>1
  <2> QED
    BY <1>1, <1>2, <1>3, <2>2, <2>3, <2>4, <2>5, <2>6
<1> QED
  BY <1>4, <1>5

\* Taking an id that is not in the ring cannot repeat one of the last Slots
\* entries of the log.
LEMMA RememberKeepsWindow ==
    ASSUME DevTypeOK, RingMirrorsLog, DedupeWindow,
           NEW id \in Ids, ~AlreadySeen(id), Remember(id)
    PROVE  DedupeWindow'
<1>0. Slots \in Nat /\ Slots >= 1
  BY SlotsAssumption
<1>1. /\ Len(log) \in Nat
      /\ Len(log') = Len(log) + 1
      /\ log'[Len(log) + 1] = id
      /\ \A i \in 1 .. Len(log) : log'[i] = log[i]
  BY AppendFacts DEF DevTypeOK, Remember
<1>2. \A i \in 1 .. Len(log) : Len(log) + 1 - i <= Slots => log[i] # id
  <2> SUFFICES ASSUME NEW i \in 1 .. Len(log), Len(log) + 1 - i <= Slots
               PROVE  log[i] # id
    OBVIOUS
  <2> DEFINE k == Len(log) + 1 - i
  <2>1. k \in 1 .. Slots /\ k <= Len(log) /\ Len(log) + 1 - k = i
    BY <1>0, <1>1
  <2>2. seen[SlotBack(k)] = log[i]
    BY <2>1 DEF RingMirrorsLog
  <2>3. SlotBack(k) \in 0 .. Slots - 1
    BY <1>0, <2>1 DEF SlotBack, DevTypeOK
  <2> QED
    BY <2>2, <2>3 DEF AlreadySeen, SeenIds
<1> SUFFICES ASSUME NEW i \in 1 .. Len(log'), NEW j \in 1 .. Len(log'),
                    i < j, log'[i] = log'[j]
             PROVE  j - i > Slots
  BY DEF DedupeWindow
<1>3. CASE j = Len(log) + 1
  BY <1>0, <1>1, <1>2, <1>3
<1>4. CASE j # Len(log) + 1
  <2>1. i \in 1 .. Len(log) /\ j \in 1 .. Len(log)
    BY <1>1, <1>4
  <2> QED
    BY <1>1, <2>1 DEF DedupeWindow
<1> QED
  BY <1>3, <1>4

\* A step keeps the ring a mirror of the log, and the log free of early repeats.
LEMMA DedupeStep ==
    DevTypeOK /\ RingMirrorsLog /\ DedupeWindow /\ [DevNext]_devVars
        => RingMirrorsLog' /\ DedupeWindow'
<1> SUFFICES ASSUME DevTypeOK, RingMirrorsLog, DedupeWindow, [DevNext]_devVars
             PROVE  RingMirrorsLog' /\ DedupeWindow'
  OBVIOUS
<1>1. ASSUME UNCHANGED <<seen, seenHead, log>>
      PROVE  RingMirrorsLog' /\ DedupeWindow'
  BY <1>1 DEF RingMirrorsLog, DedupeWindow, SlotBack
<1>2. ASSUME NEW id \in Ids, HandleAccepted(id) \/ HandleQueueFull(id)
      PROVE  RingMirrorsLog' /\ DedupeWindow'
  <2>1. ~AlreadySeen(id) /\ Remember(id)
    BY <1>2 DEF HandleAccepted, HandleQueueFull
  <2> QED
    BY <2>1, RememberMirrors, RememberKeepsWindow
<1>3. CASE Reboot
  BY <1>3, SlotsAssumption DEF Reboot, RingMirrorsLog, DedupeWindow
<1>4. ASSUME NEW id \in Ids, HandleDuplicate(id)
      PROVE  UNCHANGED <<seen, seenHead, log>>
  BY <1>4 DEF HandleDuplicate
<1>5. CASE ExecutorTask \/ ServeReplay \/ UNCHANGED devVars
  BY <1>1, <1>5 DEF ExecutorTask, ServeReplay, devVars
<1>6. ASSUME NEW g \in {"short", "double", "long"}, DispatchGesture(g)
      PROVE  UNCHANGED <<seen, seenHead, log>>
  BY <1>6 DEF DispatchGesture
<1> QED
  BY <1>1, <1>2, <1>3, <1>4, <1>5, <1>6 DEF DevNext, CommandsHandle

\* The dedupe ring does exactly what its size promises, in every boot: a
\* command_id is taken as new again only after Slots other commands were.
\* DedupeWindow is not inductive by itself; RingMirrorsLog, which ties the
\* slots to the log, is the strengthening.
THEOREM DedupeCorrect == DevSpec => [](RingMirrorsLog /\ DedupeWindow)
<1>1. DevInit => RingMirrorsLog /\ DedupeWindow
  BY SlotsAssumption DEF DevInit, RingMirrorsLog, DedupeWindow
<1> QED
  BY <1>1, DedupeStep, DevTypeCorrect, PTL DEF DevSpec

-----------------------------------------------------------------------------
\* THE BOOT

\* The entries have values of their kinds.
Typed ==
    /\ BootTypeOK
    /\ \A store \in {flash, written} :
           /\ store["boot_id"] \in Nat \cup {Missing}
           /\ store["srvkey"] \in ServerKeys \cup {Missing}
           /\ store["provd"] \in {0, 1, Missing}
    /\ boot = "commit" => written["boot_id"] \in Nat
    /\ used \subseteq Nat
    /\ lost \subseteq Entries
    /\ misread \in BOOLEAN
    /\ told \in ServerKeys \cup {Missing}

\* What the verifier has at each step of the boot.
Verifier ==
    /\ boot \in {"count", "commit", "provision"} => ~s_state /\ s_pubkey = Zero
    /\ boot = "commands" => s_pubkey = (IF s_state THEN s_key ELSE Zero)
    /\ boot = "ensure" /\ ~s_state => s_pubkey = Zero
    /\ VerifierIsInstalled

\* The step of a GATT write and what it has written.
InWrite ==
    /\ access # "none" => told = Missing /\ written["srvkey"] = offered
    /\ access \in {"commit", "flip"} /\ lost \cap ProvEntries = {} =>
           written["provd"] = (IF offered = Missing THEN 0 ELSE 1)
    /\ access = "flip" => \A en \in ProvEntries : flash[en] = written[en]

\* The key the phone was told is what the next boot finds.
StoredKey ==
    (told # Missing /\ lost \cap ProvEntries = {}) =>
        /\ flash["srvkey"] = told /\ flash["provd"] = 1
        /\ boot # "off" => written["srvkey"] = told /\ written["provd"] = 1

\* It is what this boot has loaded.
Loaded ==
    boot \in {"commands", "ensure", "up"} /\ told # Missing /\ lost \cap ProvEntries = {}
        /\ ~misread => s_state /\ s_key = told

\* No boot had an id above the stored one.
StoredId ==
    "boot_id" \notin lost =>
        \A u \in used :
            /\ flash["boot_id"] \in Nat /\ u <= flash["boot_id"]
            /\ boot # "off" => written["boot_id"] \in Nat /\ u <= written["boot_id"]
            /\ boot = "commit" => u < written["boot_id"]

-----------------------------------------------------------------------------
\* Types, including those of the three entries, hold at first.
LEMMA TypedInit == BootInit => Typed
  BY DEF BootInit, Typed, BootTypeOK, Entries

\* A store written at one entry, or copied from another one entry by entry, is typed.
LEMMA TypedNext == Typed /\ [BootNext]_bootVars => Typed'
<1> SUFFICES ASSUME Typed, [BootNext]_bootVars
             PROVE  Typed'
  OBVIOUS
<1> USE BootAssumption DEF Typed, BootTypeOK, Entries, ProvEntries, Call, Writes, Commits
<1>1. ASSUME NEW erased \in BOOLEAN, PowerOn(erased)
      PROVE  Typed'
  BY <1>1 DEF PowerOn
<1>2. ASSUME NEW ok \in BOOLEAN, BootIdSet(ok)
      PROVE  Typed'
  BY <1>2 DEF BootIdSet, Count, ram
<1>3. ASSUME NEW ok \in BOOLEAN, BootIdCommit(ok)
      PROVE  Typed'
  <2>1. flash' \in [Entries -> ServerKeys \cup Nat \cup {Missing}]
        /\ flash'["boot_id"] \in {flash["boot_id"], written["boot_id"]}
        /\ flash'["srvkey"] = flash["srvkey"] /\ flash'["provd"] = flash["provd"]
    BY <1>3 DEF BootIdCommit
  <2>2. used' \subseteq Nat /\ lost' \subseteq Entries
    BY <1>3 DEF BootIdCommit
  <2> QED
    BY <1>3, <2>1, <2>2 DEF BootIdCommit
<1>4. ASSUME NEW ok \in BOOLEAN, ProvisioningInit(ok)
      PROVE  Typed'
  BY <1>4 DEF ProvisioningInit, Provisioned
<1>5. ASSUME NEW ok \in BOOLEAN, CommandsInit(ok)
      PROVE  Typed'
  BY <1>5 DEF CommandsInit, history
<1>6. ASSUME NEW ok \in BOOLEAN, FlagWrite(ok)
      PROVE  Typed'
  BY <1>6 DEF FlagWrite, ram
<1>7. CASE BootIdFails
  BY <1>7 DEF BootIdFails, ram, history
<1>8. CASE EnsureLiveKey
  BY <1>8 DEF EnsureLiveKey, LiveKey, history
<1>9. ASSUME NEW key \in ServerKeys, KeyWrite(key)
      PROVE  Typed'
  BY <1>9 DEF KeyWrite, ram
<1>10. CASE ResetWrite
  BY <1>10 DEF ResetWrite, ram
<1>11. CASE ProvCommit
  BY <1>11 DEF ProvCommit, CommitsKey, ram, history
<1>12. CASE ProvCommitFails
  BY <1>12 DEF ProvCommitFails, ram, history
<1>13. CASE Flip
  BY <1>13 DEF Flip
<1>14. ASSUME NEW kept \in SUBSET Entries, PowerFails(kept)
       PROVE  Typed'
  BY <1>14 DEF PowerFails, ram, history
<1>15. CASE UNCHANGED bootVars
  BY <1>15 DEF bootVars, ram, history
<1> QED
  BY <1>1, <1>2, <1>3, <1>4, <1>5, <1>6, <1>7, <1>8, <1>9, <1>10, <1>11, <1>12, <1>13,
     <1>14, <1>15 DEF BootNext

\* The verifier through the boot, the GATT writes and power failures.
LEMMA VerifierNext == Typed /\ Verifier /\ [BootNext]_bootVars => Verifier'
<1> SUFFICES ASSUME Typed, Verifier, [BootNext]_bootVars
             PROVE  Verifier'
  OBVIOUS
<1> USE DEF Verifier, VerifierIsInstalled
<1>1. ASSUME NEW erased \in BOOLEAN, PowerOn(erased)
      PROVE  Verifier'
  BY <1>1 DEF PowerOn
<1>2. ASSUME NEW ok \in BOOLEAN, BootIdSet(ok) \/ BootIdCommit(ok)
      PROVE  Verifier'
  BY <1>2 DEF BootIdSet, BootIdCommit, ram
<1>3. ASSUME NEW ok \in BOOLEAN, ProvisioningInit(ok)
      PROVE  Verifier'
  BY <1>3 DEF ProvisioningInit
<1>4. ASSUME NEW ok \in BOOLEAN, CommandsInit(ok)
      PROVE  Verifier'
  BY <1>4 DEF CommandsInit
<1>5. CASE BootIdFails
  BY <1>5 DEF BootIdFails, ram
<1>6. CASE EnsureLiveKey
  BY <1>6 DEF EnsureLiveKey, LiveKey
<1>7. CASE Flip
  BY <1>7 DEF Flip, Typed, BootTypeOK
<1>8. ASSUME NEW kept \in SUBSET Entries, PowerFails(kept)
      PROVE  Verifier'
  BY <1>8 DEF PowerFails
<1>9. CASE UNCHANGED <<boot, ram>>
  BY <1>9 DEF ram
<1> QED
  BY <1>1, <1>2, <1>3, <1>4, <1>5, <1>6, <1>7, <1>8, <1>9
     DEF BootNext, KeyWrite, ResetWrite, FlagWrite, ProvCommit, ProvCommitFails, bootVars

\* InWrite, StoredKey and Loaded hold each other up: a key is announced when the write
\* that carried it is committed, and a boot loads what was committed.
KeyInv == InWrite /\ StoredKey /\ Loaded

\* What is stored, announced and loaded stays in step.
LEMMA KeyInvNext == Typed /\ KeyInv /\ [BootNext]_bootVars => KeyInv'
<1> SUFFICES ASSUME Typed, KeyInv, [BootNext]_bootVars
             PROVE  KeyInv'
  OBVIOUS
<1> USE BootAssumption
    DEF KeyInv, InWrite, StoredKey, Loaded, Entries, ProvEntries, Writes, Commits
<1>0. flash \in [Entries -> ServerKeys \cup Nat \cup {Missing}]
      /\ written \in [Entries -> ServerKeys \cup Nat \cup {Missing}]
      /\ (access # "none" => boot = "up")
      /\ offered \in ServerKeys \cup {Missing} /\ told \in ServerKeys \cup {Missing}
  BY DEF Typed, BootTypeOK
<1>1. ASSUME NEW erased \in BOOLEAN, PowerOn(erased)
      PROVE  KeyInv'
  BY <1>0, <1>1 DEF PowerOn
<1>2. ASSUME NEW ok \in BOOLEAN, BootIdSet(ok)
      PROVE  KeyInv'
  BY <1>0, <1>2 DEF BootIdSet, Count, ram
<1>3. ASSUME NEW ok \in BOOLEAN, BootIdCommit(ok)
      PROVE  KeyInv'
  BY <1>0, <1>3 DEF BootIdCommit
<1>4. ASSUME NEW ok \in BOOLEAN, ProvisioningInit(ok)
      PROVE  KeyInv'
  BY <1>0, <1>4 DEF ProvisioningInit, Provisioned
<1>5. ASSUME NEW ok \in BOOLEAN, CommandsInit(ok)
      PROVE  KeyInv'
  BY <1>0, <1>5 DEF CommandsInit, history
<1>6. ASSUME NEW ok \in BOOLEAN, FlagWrite(ok)
      PROVE  KeyInv'
  BY <1>0, <1>6 DEF FlagWrite, ram
<1>7. CASE BootIdFails
  BY <1>0, <1>7 DEF BootIdFails, ram, history
<1>8. CASE EnsureLiveKey
  BY <1>0, <1>8 DEF EnsureLiveKey, history
<1>9. ASSUME NEW key \in ServerKeys, KeyWrite(key)
      PROVE  KeyInv'
  BY <1>0, <1>9 DEF KeyWrite, ram
<1>10. CASE ResetWrite
  BY <1>0, <1>10 DEF ResetWrite, ram
<1>11. CASE ProvCommit
  BY <1>0, <1>11 DEF ProvCommit, CommitsKey, ram, history
<1>12. CASE ProvCommitFails
  BY <1>0, <1>12 DEF ProvCommitFails, ram, history
<1>13. CASE Flip
  BY <1>0, <1>13 DEF Flip
<1>14. ASSUME NEW kept \in SUBSET Entries, PowerFails(kept)
       PROVE  KeyInv'
  BY <1>0, <1>14 DEF PowerFails, ram, history
<1>15. CASE UNCHANGED bootVars
  BY <1>15 DEF bootVars, ram, history
<1> QED
  BY <1>1, <1>2, <1>3, <1>4, <1>5, <1>6, <1>7, <1>8, <1>9, <1>10, <1>11, <1>12, <1>13,
     <1>14, <1>15 DEF BootNext

\* The boot counter is ahead of every id that was used.
LEMMA StoredIdNext == Typed /\ StoredId /\ [BootNext]_bootVars => StoredId'
<1> SUFFICES ASSUME Typed, StoredId, [BootNext]_bootVars
             PROVE  StoredId'
  OBVIOUS
<1> USE BootAssumption DEF StoredId, Entries, ProvEntries, Writes, Commits
<1>0. flash \in [Entries -> ServerKeys \cup Nat \cup {Missing}]
      /\ written \in [Entries -> ServerKeys \cup Nat \cup {Missing}]
      /\ flash["boot_id"] \in Nat \cup {Missing} /\ written["boot_id"] \in Nat \cup {Missing}
      /\ (boot = "commit" => written["boot_id"] \in Nat)
      /\ used \subseteq Nat /\ (access # "none" => boot = "up")
  BY DEF Typed, BootTypeOK
<1>1. ASSUME NEW erased \in BOOLEAN, PowerOn(erased)
      PROVE  StoredId'
  BY <1>0, <1>1 DEF PowerOn
<1>2. ASSUME NEW ok \in BOOLEAN, BootIdSet(ok)
      PROVE  StoredId'
  BY <1>0, <1>2 DEF BootIdSet, Count
<1>3. ASSUME NEW ok \in BOOLEAN, BootIdCommit(ok)
      PROVE  StoredId'
  BY <1>0, <1>3 DEF BootIdCommit
<1>4. ASSUME NEW ok \in BOOLEAN, ProvisioningInit(ok) \/ CommandsInit(ok)
      PROVE  StoredId'
  BY <1>0, <1>4 DEF ProvisioningInit, CommandsInit, history
<1>5. CASE BootIdFails \/ EnsureLiveKey
  BY <1>0, <1>5 DEF BootIdFails, EnsureLiveKey, history
<1>6. ASSUME NEW ok \in BOOLEAN, FlagWrite(ok)
      PROVE  StoredId'
  BY <1>0, <1>6 DEF FlagWrite
<1>7. ASSUME NEW key \in ServerKeys, KeyWrite(key)
      PROVE  StoredId'
  BY <1>0, <1>7 DEF KeyWrite
<1>8. CASE ResetWrite
  BY <1>0, <1>8 DEF ResetWrite
<1>9. CASE ProvCommit
  BY <1>0, <1>9 DEF ProvCommit, CommitsKey, history
<1>10. CASE ProvCommitFails \/ Flip
  BY <1>0, <1>10 DEF ProvCommitFails, Flip, history
<1>11. ASSUME NEW kept \in SUBSET Entries, PowerFails(kept)
       PROVE  StoredId'
  BY <1>0, <1>11 DEF PowerFails, history
<1>12. CASE UNCHANGED bootVars
  BY <1>12 DEF bootVars, history
<1> QED
  BY <1>1, <1>2, <1>3, <1>4, <1>5, <1>6, <1>7, <1>8, <1>9, <1>10, <1>11, <1>12 DEF BootNext

-----------------------------------------------------------------------------
BootInv == Typed /\ Verifier /\ KeyInv /\ StoredId

\* The device as it leaves the factory.
LEMMA BootInvInit == BootInit => BootInv
<1>1. BootInit => Verifier /\ KeyInv /\ StoredId
  BY DEF BootInit, Verifier, VerifierIsInstalled, KeyInv, InWrite, StoredKey, Loaded, StoredId
<1> QED
  BY <1>1, TypedInit DEF BootInv

\* One boot step, write step or power failure.
LEMMA BootInvNext == BootInv /\ [BootNext]_bootVars => BootInv'
  BY TypedNext, VerifierNext, KeyInvNext, StoredIdNext DEF BootInv

\* Every entry, key and step of provisioning.c and boot_id.c is of its kind.
THEOREM BootTypeCorrect == BootSpec => []BootTypeOK
<1>1. BootInv => BootTypeOK
  BY DEF BootInv, Typed
<1> QED
  BY <1>1, BootInvInit, BootInvNext, PTL DEF BootSpec

\* app_main() and the GATT writes leave the verifier with the installed key or the key
\* of no server, for any keys and whatever NVS and the power supply do.
THEOREM VerifierStaysInstalled == BootSpec => []VerifierIsInstalled
<1>1. BootInv => VerifierIsInstalled
  BY DEF BootInv, Verifier
<1> QED
  BY <1>1, BootInvInit, BootInvNext, PTL DEF BootSpec

\* provisioning.c: a key the phone was told is installed survives any number of crashes,
\* as long as NVS keeps its word.
THEOREM RebootsSeeKey == BootSpec => []RebootSeesKey
<1>1. BootInv => RebootSeesKey
  BY DEF BootInv, KeyInv, Loaded, RebootSeesKey
<1> QED
  BY <1>1, BootInvInit, BootInvNext, PTL DEF BootSpec

\* boot_id.c never hands out an id twice while NVS keeps its word.
THEOREM BootIdsFresh == BootSpec => FreshBootId
<1>1. ASSUME BootInv, [BootNext]_bootVars, boot = "commit", boot' = "provision"
      PROVE  s_boot_id' \notin used \/ "boot_id" \in lost
  <2> SUFFICES ASSUME "boot_id" \notin lost
               PROVE  s_boot_id' \notin used
    OBVIOUS
  <2>1. \A u \in used : u < written["boot_id"] /\ u \in Nat /\ written["boot_id"] \in Nat
    BY <1>1 DEF BootInv, StoredId, Typed
  <2>2. s_boot_id' = written["boot_id"]
    BY <1>1 DEF BootNext, PowerOn, BootIdSet, BootIdCommit, BootIdFails, ProvisioningInit,
                CommandsInit, EnsureLiveKey, KeyWrite, ResetWrite, FlagWrite, ProvCommit,
                ProvCommitFails, Flip, PowerFails, bootVars
  <2> QED
    BY <2>1, <2>2
<1>2. BootInv /\ [BootNext]_bootVars
        => [boot = "commit" /\ boot' = "provision"
               => s_boot_id' \notin used \/ "boot_id" \in lost]_bootVars
  BY <1>1
<1> QED
  BY <1>2, BootInvInit, BootInvNext, PTL DEF BootSpec, FreshBootId

-----------------------------------------------------------------------------
\* THE BUTTON

Recordings == Seq([pressed : BOOLEAN, at : Nat])

\* The passes of SecondPresses.
SecondPass(ps, f, k) ==
    \E h \in {g \in Holds(ps) : Tap(ps, g)} : SoonAfter(ps, k, h) /\ ~f[h[1]]

IsSecond(ps, k) == k \in SecondPresses(ps)

\* The gesture at poll k.
ShortAt(ps, k) ==
    \E h \in Holds(ps) : Tap(ps, h) /\ ~IsSecond(ps, h[1]) /\ Expires(ps, k, h)
DoubleAt(ps, k) == \E h \in Holds(ps) : h[2] = k /\ Tap(ps, h) /\ IsSecond(ps, h[1])
LongAt(ps, k) ==
    \E h \in Holds(ps) : h[2] = k /\ Length(ps, h) \in Long .. VeryLong - 1
VeryLongAt(ps, k) == k \in VeryLongs(ps)

\* Time passes from poll to poll.
Later(ps) == \A i, j \in 1 .. Len(ps) : i < j => At(ps, i) < At(ps, j)

\* The button has been down since poll j, and up since poll j.
DownSince(ps, j) == j \in 1 .. Len(ps) /\ Starts(ps, j) /\ \A i \in j .. Len(ps) : Pressed(ps, i)
UpSince(ps, j) == \A i \in j .. Len(ps) : ~Pressed(ps, i)

\* A tap that may yet be the first of two.
Single(ps, h) ==
    h \in Holds(ps) /\ Tap(ps, h) /\ ~IsSecond(ps, h[1]) /\ UpSince(ps, h[2])

IsIdle(ps) ==
    /\ ~Pressed(ps, Len(ps))
    /\ \A h : Single(ps, h) => At(ps, Len(ps)) - At(ps, h[2]) > DoubleGap

IsPressed(ps, a, second) ==
    \E j : /\ DownSince(ps, j) /\ At(ps, Len(ps)) - At(ps, j) < VeryLong
           /\ a = At(ps, j) % Wrap /\ (second <=> IsSecond(ps, j))

IsWaiting(ps, a) ==
    \E h : /\ Single(ps, h) /\ At(ps, Len(ps)) - At(ps, h[2]) <= DoubleGap
           /\ a = At(ps, h[2]) % Wrap

StateFollows ==
    \/ state = "idle" /\ IsIdle(polls)
    \/ state = "pressed" /\ IsPressed(polls, anchor, second_tap)
    \/ state = "wait_double" /\ IsWaiting(polls, anchor)

ButtonInv ==
    /\ polls \in Recordings /\ Later(polls)
    /\ second_tap \in BOOLEAN
    /\ gestures = Defined(polls)
    /\ awake /\ ~VeryLongSeen => StateFollows

-----------------------------------------------------------------------------
\* The time between two polls, from the first one's time as the clock shows it.
LEMMA ElapsedIs ==
  ASSUME NEW W \in Nat, NEW a \in Nat, NEW b \in Nat, a <= b, b - a < W
  PROVE  (b - (a % W)) % W = b - a
<1>1. W > 0 /\ W \in Int
  OBVIOUS
<1>2. PICK q \in Int : a = q * W + (a % W) /\ a % W \in 0 .. W - 1
  <2>1. a = (a \div W) * W + (a % W) /\ a % W \in 0 .. W - 1 /\ a \div W \in Int
    BY <1>1
  <2> QED
    BY <2>1
<1> DEFINE r == b - a
           x == b - (a % W)
<1>3. r \in 0 .. W - 1 /\ x \in Int /\ x = q * W + r
  BY <1>2
<1>4. PICK p \in Int : x = p * W + (x % W) /\ x % W \in 0 .. W - 1
  <2>1. x = (x \div W) * W + (x % W) /\ x % W \in 0 .. W - 1 /\ x \div W \in Int
    <3> HIDE DEF x
    <3> QED
      BY <1>1, <1>3
  <2> QED
    BY <2>1
<1> DEFINE y == x % W
<1>5. y \in 0 .. W - 1 /\ x = p * W + y
  BY <1>4
<1> HIDE DEF x, y, r
<1>6. (q - p) * W = y - r
  BY <1>1, <1>3, <1>5
<1>7. ~(q - p >= 1)
  <2> SUFFICES ASSUME q - p >= 1
               PROVE  FALSE
    OBVIOUS
  <2>1. (q - p) * W >= W
    BY <1>1
  <2> QED
    BY <1>1, <1>3, <1>5, <1>6, <2>1
<1>8. ~(p - q >= 1)
  <2> SUFFICES ASSUME p - q >= 1
               PROVE  FALSE
    OBVIOUS
  <2>1. (p - q) * W >= W
    BY <1>1
  <2>2. (p - q) * W = r - y
    BY <1>1, <1>3, <1>5
  <2> QED
    BY <1>1, <1>3, <1>5, <2>1, <2>2
<1>9. p = q
  BY <1>7, <1>8
<1>10. y = r
  BY <1>1, <1>3, <1>5, <1>9
<1> QED
  BY <1>10 DEF x, y, r

-----------------------------------------------------------------------------
\* The passes come to an end: a pass asks for an earlier one only.
LEMMA SecondEnds ==
  ASSUME NEW ps, Len(ps) \in Nat
  PROVE  \E f : f = [k \in 0 .. Len(ps) |-> SecondPass(ps, f, k)]
<1> DEFINE Done(n) == \E f : f = [k \in 0 .. n |-> SecondPass(ps, f, k)]
<1>1. ASSUME NEW n \in Nat, NEW f, NEW g, \A k \in 0 .. n : f[k] = g[k],
             NEW k \in 0 .. n + 1
      PROVE  SecondPass(ps, f, k) = SecondPass(ps, g, k)
  <2>1. ASSUME NEW h \in {e \in Holds(ps) : Tap(ps, e)}, SoonAfter(ps, k, h)
        PROVE  f[h[1]] = g[h[1]]
    <3>1. h[1] \in Nat /\ h[2] \in Nat /\ h[1] < h[2] /\ k > h[2]
      BY <2>1 DEF Holds, SoonAfter
    <3> QED
      BY <1>1, <3>1
  <2> QED
    BY <2>1, Zenon DEF SecondPass
<1>2. Done(0)
  <2> DEFINE g == [k \in 0 .. 0 |-> FALSE]
             f == [k \in 0 .. 0 |-> SecondPass(ps, g, k)]
  <2>1. ASSUME NEW k \in 0 .. 0, NEW e PROVE SecondPass(ps, e, k) = FALSE
    <3>1. ASSUME NEW h \in Holds(ps), SoonAfter(ps, k, h) PROVE FALSE
      BY <3>1 DEF Holds, SoonAfter
    <3> QED
      BY <3>1 DEF SecondPass
  <2>2. g = [k \in 0 .. 0 |-> SecondPass(ps, g, k)]
    BY <2>1
  <2> QED
    BY <2>2
<1>3. ASSUME NEW n \in Nat, Done(n)
      PROVE  Done(n + 1)
  <2>1. PICK g : g = [k \in 0 .. n |-> SecondPass(ps, g, k)]
    BY <1>3
  <2> DEFINE h == [k \in 0 .. n + 1 |-> SecondPass(ps, g, k)]
  <2>2. \A k \in 0 .. n : h[k] = g[k]
    <3>1. \A k \in 0 .. n : g[k] = SecondPass(ps, g, k)
      BY <2>1
    <3> QED
      BY <3>1
  <2>3. \A k \in 0 .. n + 1 : SecondPass(ps, h, k) = SecondPass(ps, g, k)
    <3> HIDE DEF h
    <3> QED
      BY <1>1, <2>2
  <2>4. h = [k \in 0 .. n + 1 |-> SecondPass(ps, h, k)]
    BY <2>3
  <2> QED
    BY <2>4
<1> HIDE DEF Done
<1> DEFINE S == {n \in Nat : Done(n)}
<1>4. 0 \in S /\ \A n \in Nat : n \in S => n + 1 \in S
  BY <1>2, <1>3
<1>5. Nat \subseteq S
  <2> HIDE DEF S
  <2> QED
    BY <1>4, NatSetInduction
<1>6. Done(Len(ps))
  BY <1>5
<1> QED
  BY <1>6 DEF Done

\* A press is a second one when it comes soon after a tap that is not.
LEMMA SecondIs ==
  ASSUME NEW ps, Len(ps) \in Nat, NEW k \in 1 .. Len(ps)
  PROVE  IsSecond(ps, k) <=>
             \E h \in Holds(ps) : Tap(ps, h) /\ SoonAfter(ps, k, h) /\ ~IsSecond(ps, h[1])
<1> DEFINE second == CHOOSE f : f = [j \in 0 .. Len(ps) |-> SecondPass(ps, f, j)]
<1>1. second = [j \in 0 .. Len(ps) |-> SecondPass(ps, second, j)]
  <2> DEFINE P(f) == f = [j \in 0 .. Len(ps) |-> SecondPass(ps, f, j)]
  <2>1. \E f : P(f)
    BY SecondEnds, Zenon
  <2> HIDE DEF P
  <2>2. P(CHOOSE f : P(f))
    BY <2>1
  <2> QED
    BY <2>2 DEF P
<1>2. SecondPresses(ps) = {j \in 1 .. Len(ps) : second[j]}
  BY DEF SecondPresses, SecondPass
<1> HIDE DEF second
<1>3. \A j \in 0 .. Len(ps) : second[j] = SecondPass(ps, second, j)
  BY <1>1
<1>4. \A j \in 1 .. Len(ps) : IsSecond(ps, j) <=> second[j]
  BY <1>2 DEF IsSecond
<1>5. \A h \in Holds(ps) : h[1] \in 1 .. Len(ps)
  BY DEF Holds
<1>6. IsSecond(ps, k) <=> SecondPass(ps, second, k)
  <2>1. k \in 0 .. Len(ps)
    OBVIOUS
  <2> QED
    BY <1>3, <1>4, <2>1
<1> QED
  BY <1>4, <1>5, <1>6, Zenon DEF SecondPass

-----------------------------------------------------------------------------
\* The gestures, poll by poll.
LEMMA DefinedIs ==
  ASSUME NEW ps, Len(ps) \in Nat, NEW x
  PROVE  x \in Defined(ps) <=>
             \E k \in 1 .. Len(ps) :
                 \/ ShortAt(ps, k) /\ x = <<At(ps, k), "short">>
                 \/ DoubleAt(ps, k) /\ x = <<At(ps, k), "double">>
                 \/ LongAt(ps, k) /\ x = <<At(ps, k), "long">>
                 \/ VeryLongAt(ps, k) /\ x = <<At(ps, k), "very_long">>
<1> DEFINE holds  == Holds(ps)
           taps   == {h \in holds : Tap(ps, h)}
           second == SecondPresses(ps)
           single == {h \in taps : h[1] \notin second}
           A == {<<At(ps, k), "short">> :
                    k \in {j \in 1 .. Len(ps) : \E h \in single : Expires(ps, j, h)}}
           B == {<<At(ps, h[2]), "double">> : h \in taps \ single}
           C == {<<At(ps, h[2]), "long">> :
                    h \in {g \in holds : Length(ps, g) \in Long .. VeryLong - 1}}
           D == {<<At(ps, k), "very_long">> : k \in VeryLongs(ps)}
<1>1. x \in Defined(ps) <=> x \in A \/ x \in B \/ x \in C \/ x \in D
  BY Zenon DEF Defined
<1>2. \A h \in Holds(ps) : h[2] \in 1 .. Len(ps)
  BY DEF Holds
<1>3. x \in A <=> \E k \in 1 .. Len(ps) : ShortAt(ps, k) /\ x = <<At(ps, k), "short">>
  BY Zenon DEF ShortAt, IsSecond
<1>4. x \in B <=> \E k \in 1 .. Len(ps) : DoubleAt(ps, k) /\ x = <<At(ps, k), "double">>
  BY <1>2, Zenon DEF DoubleAt, IsSecond
<1>5. x \in C <=> \E k \in 1 .. Len(ps) : LongAt(ps, k) /\ x = <<At(ps, k), "long">>
  BY <1>2, Zenon DEF LongAt
<1>6. x \in D <=> \E k \in 1 .. Len(ps) : VeryLongAt(ps, k) /\ x = <<At(ps, k), "very_long">>
  BY Zenon DEF VeryLongAt, VeryLongs
<1> HIDE DEF A, B, C, D
<1> QED
  BY <1>1, <1>3, <1>4, <1>5, <1>6, Zenon

\* What a poll more leaves as it was.
Extends(ps, qs) ==
    /\ Len(ps) \in Nat /\ Len(qs) = Len(ps) + 1
    /\ \A k \in 1 .. Len(ps) : qs[k] = ps[k]

LEMMA ExtendsPolls ==
  ASSUME NEW ps, NEW qs, Extends(ps, qs), NEW k \in Int, k <= Len(ps)
  PROVE  /\ Pressed(qs, k) <=> Pressed(ps, k)
         /\ Starts(qs, k) <=> Starts(ps, k)
         /\ Ends(qs, k) <=> Ends(ps, k)
         /\ k \in 1 .. Len(ps) => At(qs, k) = At(ps, k)
<1>1. \A j \in Int : j <= Len(ps) => (Pressed(qs, j) <=> Pressed(ps, j))
  BY DEF Extends, Pressed
<1>2. k - 1 \in Int /\ k - 1 <= Len(ps) /\ Len(ps) \in Nat
  BY DEF Extends
<1>3. Pressed(qs, k) <=> Pressed(ps, k)
  BY <1>1
<1>4. Pressed(qs, k - 1) <=> Pressed(ps, k - 1)
  BY <1>1, <1>2
<1>5. Starts(qs, k) <=> Starts(ps, k)
  BY <1>3, <1>4 DEF Starts
<1>6. k \in 2 .. Len(qs) <=> k \in 2 .. Len(ps)
  BY DEF Extends
<1>7. Ends(qs, k) <=> Ends(ps, k)
  BY <1>3, <1>4, <1>6 DEF Ends
<1>8. k \in 1 .. Len(ps) => At(qs, k) = At(ps, k)
  BY DEF Extends, At
<1> QED
  BY <1>3, <1>5, <1>7, <1>8

\* A hold of the longer recording that had ended is one of the shorter, and conversely.
LEMMA ExtendsHolds ==
  ASSUME NEW ps, NEW qs, Extends(ps, qs)
  PROVE  /\ \A h \in Holds(qs) : h[2] <= Len(ps) => h \in Holds(ps)
         /\ \A h \in Holds(ps) :
                /\ h \in Holds(qs) /\ h[2] <= Len(ps) /\ h[1] < h[2]
                /\ h[1] \in 1 .. Len(ps) /\ h[2] \in 1 .. Len(ps)
                /\ Length(qs, h) = Length(ps, h) /\ (Tap(qs, h) <=> Tap(ps, h))
<1>1. /\ Len(ps) \in Nat /\ Len(qs) = Len(ps) + 1
  BY DEF Extends
<1>2. ASSUME NEW h \in (1 .. Len(ps)) \X (1 .. Len(ps))
      PROVE  h \in Holds(qs) <=> h \in Holds(ps)
  <2>1. h[1] \in 1 .. Len(ps) /\ h[2] \in 1 .. Len(ps)
    OBVIOUS
  <2>2. h \in (1 .. Len(qs)) \X (1 .. Len(qs))
    BY <1>1
  <2>3. Starts(qs, h[1]) <=> Starts(ps, h[1])
    BY <1>1, <2>1, ExtendsPolls
  <2>4. Ends(qs, h[2]) <=> Ends(ps, h[2])
    BY <1>1, <2>1, ExtendsPolls
  <2>5. \A k \in h[1] .. h[2] - 1 : Pressed(qs, k) <=> Pressed(ps, k)
    <3> TAKE k \in h[1] .. h[2] - 1
    <3>1. k \in Int /\ k <= Len(ps)
      BY <1>1, <2>1
    <3> QED
      BY <3>1, ExtendsPolls
  <2> QED
    BY <2>2, <2>3, <2>4, <2>5, Zenon DEF Holds
<1>3. ASSUME NEW h \in Holds(qs), h[2] <= Len(ps)
      PROVE  h \in Holds(ps)
  <2>1. h \in (1 .. Len(qs)) \X (1 .. Len(qs)) /\ h[1] < h[2]
    BY DEF Holds
  <2>2. h \in (1 .. Len(ps)) \X (1 .. Len(ps))
    BY <1>1, <1>3, <2>1
  <2> QED
    BY <1>2, <2>2
<1>4. ASSUME NEW h \in Holds(ps)
      PROVE  /\ h \in Holds(qs) /\ h[2] <= Len(ps) /\ h[1] < h[2]
             /\ h[1] \in 1 .. Len(ps) /\ h[2] \in 1 .. Len(ps)
             /\ Length(qs, h) = Length(ps, h) /\ (Tap(qs, h) <=> Tap(ps, h))
  <2>1. h \in (1 .. Len(ps)) \X (1 .. Len(ps)) /\ h[1] < h[2]
    BY DEF Holds
  <2>2. h[1] \in 1 .. Len(ps) /\ h[2] \in 1 .. Len(ps) /\ h[2] <= Len(ps)
    BY <1>1, <2>1
  <2>3. At(qs, h[1]) = At(ps, h[1]) /\ At(qs, h[2]) = At(ps, h[2])
    BY <1>1, <2>2, ExtendsPolls
  <2>4. Length(qs, h) = Length(ps, h) /\ (Tap(qs, h) <=> Tap(ps, h))
    BY <2>3, Zenon DEF Length, Tap
  <2>5. h \in Holds(qs)
    BY <1>2, <2>1
  <2> QED
    BY <2>1, <2>2, <2>4, <2>5
<1> QED
  BY <1>3, <1>4

\* Nor does a poll more change which presses were second ones.
LEMMA ExtendsSecond ==
  ASSUME NEW ps, NEW qs, Extends(ps, qs)
  PROVE  \A k \in 1 .. Len(ps) :
             /\ IsSecond(qs, k) <=> IsSecond(ps, k)
             /\ \A h \in Holds(ps) : SoonAfter(qs, k, h) <=> SoonAfter(ps, k, h)
<1>1. Len(ps) \in Nat /\ Len(qs) = Len(ps) + 1 /\ Len(qs) \in Nat
  BY DEF Extends
<1>2. ASSUME NEW k \in 1 .. Len(ps), NEW h \in Holds(ps)
      PROVE  SoonAfter(qs, k, h) <=> SoonAfter(ps, k, h)
  <2>1. h[2] \in 1 .. Len(ps)
    BY ExtendsHolds
  <2>2. At(qs, h[2]) = At(ps, h[2]) /\ At(qs, k) = At(ps, k)
    BY <1>1, <2>1, ExtendsPolls
  <2>3. Starts(qs, k) <=> Starts(ps, k)
    BY <1>1, ExtendsPolls
  <2>4. \A j \in h[2] .. k - 1 : Pressed(qs, j) <=> Pressed(ps, j)
    <3> TAKE j \in h[2] .. k - 1
    <3>1. j \in Int /\ j <= Len(ps)
      BY <1>1, <2>1
    <3> QED
      BY <3>1, ExtendsPolls
  <2> QED
    BY <2>2, <2>3, <2>4, Zenon DEF SoonAfter
<1> DEFINE Same(n) == \A k \in 1 .. Len(ps) : k <= n => (IsSecond(qs, k) <=> IsSecond(ps, k))
<1>3. Same(0)
  OBVIOUS
<1>4. ASSUME NEW n \in Nat, Same(n)
      PROVE  Same(n + 1)
  <2> SUFFICES ASSUME NEW k \in 1 .. Len(ps), k = n + 1
               PROVE  IsSecond(qs, k) <=> IsSecond(ps, k)
    BY <1>4
  <2>1. k \in 1 .. Len(qs)
    BY <1>1
  <2>2. ASSUME NEW h \in Holds(ps), SoonAfter(ps, k, h)
        PROVE  IsSecond(qs, h[1]) <=> IsSecond(ps, h[1])
    <3>1. h[1] \in 1 .. Len(ps) /\ h[2] \in 1 .. Len(ps) /\ h[1] < h[2]
      BY ExtendsHolds
    <3>2. k > h[2]
      BY <2>2 DEF SoonAfter
    <3>3. h[1] <= n
      BY <3>1, <3>2
    <3> QED
      BY <1>4, <3>1, <3>3
  <2>3. ASSUME NEW h \in Holds(qs), SoonAfter(qs, k, h)
        PROVE  h \in Holds(ps)
    <3>1. h[2] <= Len(ps)
      BY <2>3, <1>1 DEF SoonAfter, Holds
    <3> QED
      BY <3>1, ExtendsHolds
  <2>4. ASSUME IsSecond(qs, k)
        PROVE  IsSecond(ps, k)
    <3>1. PICK h \in Holds(qs) : Tap(qs, h) /\ SoonAfter(qs, k, h) /\ ~IsSecond(qs, h[1])
      BY <1>1, <2>1, <2>4, SecondIs
    <3>2. h \in Holds(ps)
      BY <2>3, <3>1
    <3>3. Tap(ps, h) /\ SoonAfter(ps, k, h)
      BY <1>2, <3>1, <3>2, ExtendsHolds
    <3>4. ~IsSecond(ps, h[1])
      BY <2>2, <3>1, <3>2, <3>3
    <3> QED
      BY <1>1, <3>2, <3>3, <3>4, SecondIs
  <2>5. ASSUME IsSecond(ps, k)
        PROVE  IsSecond(qs, k)
    <3>1. PICK h \in Holds(ps) : Tap(ps, h) /\ SoonAfter(ps, k, h) /\ ~IsSecond(ps, h[1])
      BY <1>1, <2>5, SecondIs
    <3>2. h \in Holds(qs) /\ Tap(qs, h) /\ SoonAfter(qs, k, h)
      BY <1>2, <3>1, ExtendsHolds
    <3>3. ~IsSecond(qs, h[1])
      BY <2>2, <3>1
    <3> QED
      BY <1>1, <2>1, <3>2, <3>3, SecondIs
  <2> QED
    BY <2>4, <2>5
<1> HIDE DEF Same
<1> DEFINE S == {n \in Nat : Same(n)}
<1>5. 0 \in S /\ \A n \in Nat : n \in S => n + 1 \in S
  BY <1>3, <1>4
<1>6. Nat \subseteq S
  <2> HIDE DEF S
  <2> QED
    BY <1>5, NatSetInduction
<1>7. Same(Len(ps))
  BY <1>1, <1>6
<1>8. \A k \in 1 .. Len(ps) : IsSecond(qs, k) <=> IsSecond(ps, k)
  BY <1>1, <1>7 DEF Same
<1> QED
  BY <1>2, <1>8

\* The gestures of the polls so far stay what they were.
LEMMA ExtendsGestures ==
  ASSUME NEW ps, NEW qs, Extends(ps, qs), NEW k \in 1 .. Len(ps)
  PROVE  /\ ShortAt(qs, k) <=> ShortAt(ps, k)
         /\ DoubleAt(qs, k) <=> DoubleAt(ps, k)
         /\ LongAt(qs, k) <=> LongAt(ps, k)
         /\ VeryLongAt(qs, k) <=> VeryLongAt(ps, k)
<1>1. Len(ps) \in Nat /\ Len(qs) = Len(ps) + 1
  BY DEF Extends
<1>2. ASSUME NEW h \in Holds(ps)
      PROVE  Expires(qs, k, h) <=> Expires(ps, k, h)
  <2>1. h[2] \in 1 .. Len(ps)
    BY ExtendsHolds
  <2>2. At(qs, h[2]) = At(ps, h[2]) /\ At(qs, k) = At(ps, k)
    BY <1>1, <2>1, ExtendsPolls
  <2>3. \A j \in h[2] .. k - 1 : /\ Pressed(qs, j) <=> Pressed(ps, j)
                                 /\ At(qs, j) = At(ps, j)
    <3> TAKE j \in h[2] .. k - 1
    <3>1. j \in Int /\ j <= Len(ps) /\ j \in 1 .. Len(ps)
      BY <1>1, <2>1
    <3> QED
      BY <3>1, ExtendsPolls
  <2> QED
    BY <2>2, <2>3, Zenon DEF Expires
<1>3. \A h \in Holds(ps) : /\ h \in Holds(qs) /\ (Tap(qs, h) <=> Tap(ps, h))
                           /\ Length(qs, h) = Length(ps, h)
                           /\ IsSecond(qs, h[1]) <=> IsSecond(ps, h[1])
  BY ExtendsHolds, ExtendsSecond
<1>4. ASSUME NEW h \in Holds(qs), Expires(qs, k, h) \/ h[2] = k
      PROVE  h \in Holds(ps)
  <2>1. h[2] <= Len(ps)
    BY <1>1, <1>4 DEF Expires, Holds
  <2> QED
    BY <2>1, ExtendsHolds
<1>5. ShortAt(qs, k) <=> ShortAt(ps, k)
  BY <1>2, <1>3, <1>4, Zenon DEF ShortAt
<1>6. DoubleAt(qs, k) <=> DoubleAt(ps, k)
  BY <1>3, <1>4, Zenon DEF DoubleAt
<1>7. LongAt(qs, k) <=> LongAt(ps, k)
  BY <1>3, <1>4, Zenon DEF LongAt
<1>8. VeryLongAt(qs, k) <=> VeryLongAt(ps, k)
  <2>1. \A j \in 1 .. k - 1 : /\ Starts(qs, j) <=> Starts(ps, j)
                              /\ At(qs, j) = At(ps, j)
                              /\ \A i \in j .. k - 1 : Pressed(qs, i) <=> Pressed(ps, i)
    <3> TAKE j \in 1 .. k - 1
    <3>1. j \in Int /\ j <= Len(ps) /\ j \in 1 .. Len(ps)
      BY <1>1
    <3>2. ASSUME NEW i \in j .. k - 1 PROVE Pressed(qs, i) <=> Pressed(ps, i)
      <4>1. i \in Int /\ i <= Len(ps)
        BY <1>1
      <4> QED
        BY <4>1, ExtendsPolls
    <3> QED
      BY <3>1, <3>2, ExtendsPolls
  <2>2. At(qs, k) = At(ps, k)
    BY <1>1, ExtendsPolls
  <2>3. \A j \in 1 .. k - 1 : At(qs, k - 1) = At(ps, k - 1)
    <3> TAKE j \in 1 .. k - 1
    <3>1. k - 1 \in Int /\ k - 1 <= Len(ps) /\ k - 1 \in 1 .. Len(ps)
      BY <1>1
    <3> QED
      BY <3>1, ExtendsPolls
  <2>4. k \in 1 .. Len(qs) /\ k \in 1 .. Len(ps)
    BY <1>1
  <2> QED
    BY <2>1, <2>2, <2>3, <2>4, Zenon DEF VeryLongAt, VeryLongs
<1> QED
  BY <1>5, <1>6, <1>7, <1>8

\* A poll more adds the gestures of that poll.
LEMMA DefinedMore ==
  ASSUME NEW ps, NEW qs, Extends(ps, qs), NEW m, m = Len(qs), NEW x
  PROVE  x \in Defined(qs) <=>
             \/ x \in Defined(ps)
             \/ ShortAt(qs, m) /\ x = <<At(qs, m), "short">>
             \/ DoubleAt(qs, m) /\ x = <<At(qs, m), "double">>
             \/ LongAt(qs, m) /\ x = <<At(qs, m), "long">>
             \/ VeryLongAt(qs, m) /\ x = <<At(qs, m), "very_long">>
<1> DEFINE Has(rs, k) == \/ ShortAt(rs, k) /\ x = <<At(rs, k), "short">>
                         \/ DoubleAt(rs, k) /\ x = <<At(rs, k), "double">>
                         \/ LongAt(rs, k) /\ x = <<At(rs, k), "long">>
                         \/ VeryLongAt(rs, k) /\ x = <<At(rs, k), "very_long">>
<1>1. Len(ps) \in Nat /\ m = Len(ps) + 1 /\ Len(qs) \in Nat
  BY DEF Extends
<1>2. x \in Defined(qs) <=> \E k \in 1 .. Len(qs) : Has(qs, k)
  BY <1>1, DefinedIs, Zenon
<1>3. x \in Defined(ps) <=> \E k \in 1 .. Len(ps) : Has(ps, k)
  BY <1>1, DefinedIs, Zenon
<1>4. ASSUME NEW k \in 1 .. Len(ps)
      PROVE  Has(qs, k) <=> Has(ps, k)
  <2>1. At(qs, k) = At(ps, k)
    BY <1>1, ExtendsPolls
  <2> QED
    BY <2>1, ExtendsGestures, Zenon
<1>5. x \in Defined(qs) <=> x \in Defined(ps) \/ Has(qs, m)
  <2> HIDE DEF Has
  <2>1. 1 .. Len(qs) = (1 .. Len(ps)) \cup {m}
    BY <1>1
  <2> QED
    BY <1>2, <1>3, <1>4, <2>1, Zenon
<1> QED
  BY <1>5

-----------------------------------------------------------------------------
Grows(ps, qs) == ps \in Recordings /\ qs \in Recordings /\ Extends(ps, qs) /\ Later(qs)

\* The times of a recording that grows.
LEMMA GrowsTimes ==
  ASSUME NEW ps, NEW qs, Grows(ps, qs), NEW n, n = Len(ps), NEW m, m = Len(qs)
  PROVE  /\ n \in Nat /\ m = n + 1 /\ At(qs, m) \in Nat
         /\ \A k \in 1 .. n : /\ At(ps, k) \in Nat /\ At(qs, k) = At(ps, k)
                              /\ At(ps, k) <= At(ps, n) /\ At(ps, k) < At(qs, m)
<1>1. n \in Nat /\ m = n + 1
  BY DEF Grows, Extends
<1>2. \A k \in 1 .. m : At(qs, k) \in Nat
  <2> DEFINE R == [pressed : BOOLEAN, at : Nat]
  <2>1. qs \in Seq(R)
    BY DEF Grows, Recordings
  <2>2. \A k \in 1 .. Len(qs) : qs[k] \in R
    <3> HIDE DEF R
    <3> QED
      BY <2>1
  <2> QED
    BY <2>2 DEF At
<1>3. \A k \in 1 .. n : At(ps, k) = At(qs, k)
  BY <1>1, ExtendsPolls DEF Grows
<1>4. ASSUME NEW k \in 1 .. n
      PROVE  At(ps, k) <= At(ps, n) /\ At(ps, k) < At(qs, m)
  <2>1. k \in 1 .. m /\ n \in 1 .. m /\ m \in 1 .. m /\ n \in 1 .. n /\ k < m
    BY <1>1
  <2>2. k < n => At(qs, k) < At(qs, n)
    BY <2>1 DEF Grows, Later
  <2>3. At(qs, k) < At(qs, m)
    BY <2>1 DEF Grows, Later
  <2>4. k = n \/ k < n
    BY <1>1
  <2> QED
    BY <1>2, <1>3, <2>1, <2>2, <2>3, <2>4
<1> QED
  BY <1>1, <1>2, <1>3, <1>4

\* The hold that is on, and the end of the last one, are unique.
LEMMA DownUnique ==
  ASSUME NEW ps, Len(ps) \in Nat, NEW i, NEW j, DownSince(ps, i), DownSince(ps, j)
  PROVE  i = j
<1>1. ASSUME NEW a, NEW b, DownSince(ps, a), DownSince(ps, b), a < b
      PROVE  FALSE
  <2>1. a \in 1 .. Len(ps) /\ b \in 1 .. Len(ps) /\ b - 1 \in a .. Len(ps)
    BY <1>1 DEF DownSince
  <2>2. Pressed(ps, b - 1)
    BY <1>1, <2>1 DEF DownSince
  <2> QED
    BY <1>1, <2>2 DEF DownSince, Starts
<1>2. i \in Int /\ j \in Int
  BY DEF DownSince
<1>3. i = j \/ i < j \/ j < i
  BY <1>2
<1> QED
  BY <1>1, <1>3

LEMMA UpUnique ==
  ASSUME NEW ps, Len(ps) \in Nat, NEW h, NEW g, Single(ps, h), Single(ps, g)
  PROVE  /\ h[2] = g[2] /\ ~Pressed(ps, Len(ps))
         /\ h[1] \in 1 .. Len(ps) /\ h[2] \in 1 .. Len(ps) /\ Len(ps) \in 1 .. Len(ps)
<1>1. \A e : Single(ps, e) => e[1] \in 1 .. Len(ps) /\ e[2] \in 1 .. Len(ps) /\ Ends(ps, e[2])
  BY DEF Single, Holds
<1>2. ASSUME NEW a, NEW b, Single(ps, a), Single(ps, b), a[2] < b[2]
      PROVE  FALSE
  <2>1. a[2] \in 1 .. Len(ps) /\ b[2] \in 1 .. Len(ps) /\ b[2] - 1 \in a[2] .. Len(ps)
    BY <1>1, <1>2
  <2>2. ~Pressed(ps, b[2] - 1)
    BY <1>2, <2>1 DEF Single, UpSince
  <2> QED
    BY <1>1, <1>2, <2>2 DEF Ends
<1>3. h[2] \in Int /\ g[2] \in Int
  BY <1>1
<1>4. h[2] = g[2]
  BY <1>2, <1>3
<1>5. Len(ps) \in h[2] .. Len(ps) /\ Len(ps) \in 1 .. Len(ps)
  BY <1>1
<1>6. ~Pressed(ps, Len(ps))
  BY <1>5 DEF Single, UpSince
<1> QED
  BY <1>1, <1>4, <1>5, <1>6

-----------------------------------------------------------------------------
\* The last poll: the hold that is on, and the one it ends.
LEMMA LastDown ==
  ASSUME NEW ps, NEW qs, Extends(ps, qs), NEW n, n = Len(ps), NEW m, m = Len(qs), NEW j
  PROVE  DownSince(qs, j) <=>
             Pressed(qs, m) /\ (DownSince(ps, j) \/ (j = m /\ ~Pressed(ps, n)))
<1>1. n \in Nat /\ m = n + 1 /\ m - 1 = n
  BY DEF Extends
<1>2. \A i \in Int : i <= n => /\ Pressed(qs, i) <=> Pressed(ps, i)
                               /\ Starts(qs, i) <=> Starts(ps, i)
  BY <1>1, ExtendsPolls
<1>3. Starts(qs, m) <=> Pressed(qs, m) /\ ~Pressed(ps, n)
  BY <1>1, <1>2 DEF Starts
<1>4. CASE j \in 1 .. n
  <2>1. j \in 1 .. m /\ j # m /\ j .. m = (j .. n) \cup {m} /\ j \in Int /\ j <= n
    BY <1>1, <1>4
  <2>2. Starts(qs, j) <=> Starts(ps, j)
    BY <1>2, <2>1
  <2>3. \A i \in j .. n : Pressed(qs, i) <=> Pressed(ps, i)
    BY <1>1, <1>2, <1>4
  <2> QED
    BY <1>4, <2>1, <2>2, <2>3, Zenon DEF DownSince
<1>5. CASE j = m
  <2>1. m \in 1 .. m /\ m \notin 1 .. n /\ m .. m = {m}
    BY <1>1
  <2> QED
    BY <1>3, <1>5, <2>1, Zenon DEF DownSince
<1>6. CASE j \notin 1 .. m
  <2>1. j \notin 1 .. n /\ j # m
    BY <1>1, <1>6
  <2> QED
    BY <1>6, <2>1, Zenon DEF DownSince
<1>7. j \in 1 .. m => j \in 1 .. n \/ j = m
  BY <1>1
<1> QED
  BY <1>4, <1>5, <1>6, <1>7

LEMMA LastHold ==
  ASSUME NEW ps, NEW qs, Extends(ps, qs), NEW n, n = Len(ps), NEW m, m = Len(qs)
  PROVE  /\ \A h \in Holds(qs) : h[2] = m =>
                h = <<h[1], m>> /\ DownSince(ps, h[1]) /\ ~Pressed(qs, m)
         /\ \A j : DownSince(ps, j) /\ ~Pressed(qs, m) => <<j, m>> \in Holds(qs)
<1>1. n \in Nat /\ m = n + 1 /\ m - 1 = n
  BY DEF Extends
<1>2. \A i \in Int : i <= n => /\ Pressed(qs, i) <=> Pressed(ps, i)
                               /\ Starts(qs, i) <=> Starts(ps, i)
  BY <1>1, ExtendsPolls
<1>3. ASSUME NEW h \in Holds(qs), h[2] = m
      PROVE  h = <<h[1], m>> /\ DownSince(ps, h[1]) /\ ~Pressed(qs, m)
  <2>1. /\ h \in (1 .. m) \X (1 .. m) /\ Starts(qs, h[1]) /\ Ends(qs, m) /\ h[1] < m
        /\ \A k \in h[1] .. n : Pressed(qs, k)
    BY <1>1, <1>3 DEF Holds
  <2>2. h[1] \in 1 .. n /\ h[1] \in Int /\ h[1] <= n
    BY <1>1, <2>1
  <2>3. Starts(ps, h[1]) /\ \A k \in h[1] .. n : Pressed(ps, k)
    BY <1>1, <1>2, <2>1, <2>2
  <2>4. DownSince(ps, h[1])
    BY <2>2, <2>3 DEF DownSince
  <2>5. h = <<h[1], m>>
    BY <1>3, <2>1
  <2> QED
    BY <2>1, <2>4, <2>5 DEF Ends
<1>4. ASSUME NEW j, DownSince(ps, j), ~Pressed(qs, m)
      PROVE  <<j, m>> \in Holds(qs)
  <2>1. j \in 1 .. n /\ Starts(ps, j) /\ \A i \in j .. n : Pressed(ps, i)
    BY <1>4 DEF DownSince
  <2>2. j \in 1 .. m /\ m \in 1 .. m /\ j < m /\ m \in 2 .. m /\ n \in j .. n /\ j <= n /\ j \in Int
    BY <1>1, <2>1
  <2>3. Starts(qs, j) /\ \A i \in j .. m - 1 : Pressed(qs, i)
    BY <1>1, <1>2, <2>1, <2>2
  <2>4. Ends(qs, m)
    BY <1>1, <1>4, <2>2, <2>3 DEF Ends
  <2> DEFINE h == <<j, m>>
  <2>5. h \in (1 .. m) \X (1 .. m) /\ h[1] = j /\ h[2] = m
    BY <2>2
  <2> HIDE DEF h
  <2>6. h \in Holds(qs)
    BY <2>2, <2>3, <2>4, <2>5 DEF Holds
  <2> QED
    BY <2>6 DEF h
<1> QED
  BY <1>3, <1>4

\* A hold that had ended before the last poll.
LEMMA PastHold ==
  ASSUME NEW ps, NEW qs, Grows(ps, qs), NEW n, n = Len(ps), NEW m, m = Len(qs),
         NEW h \in Holds(ps)
  PROVE  /\ h \in Holds(qs) /\ h[1] \in 1 .. n /\ h[2] \in 1 .. n
         /\ n \in h[2] .. n /\ n \in 1 .. n
         /\ h[2] < m /\ At(qs, h[2]) = At(ps, h[2])
         /\ Tap(qs, h) <=> Tap(ps, h)
         /\ IsSecond(qs, h[1]) <=> IsSecond(ps, h[1])
         /\ UpSince(ps, h[2]) <=> \A i \in h[2] .. n : ~Pressed(qs, i)
<1>1. n \in Nat /\ m = n + 1 /\ Extends(ps, qs)
  BY DEF Grows, Extends
<1>2. \A i \in Int : i <= n => (Pressed(qs, i) <=> Pressed(ps, i))
  BY <1>1, ExtendsPolls
<1>3. h \in Holds(qs) /\ h[1] \in 1 .. n /\ h[2] \in 1 .. n /\ (Tap(qs, h) <=> Tap(ps, h))
  BY <1>1, ExtendsHolds
<1>4. h[2] < m /\ n \in h[2] .. n /\ n \in 1 .. n
  BY <1>1, <1>3
<1>5. At(qs, h[2]) = At(ps, h[2])
  BY <1>3, GrowsTimes
<1>6. IsSecond(qs, h[1]) <=> IsSecond(ps, h[1])
  BY <1>1, <1>3, ExtendsSecond
<1>7. \A i \in h[2] .. n : Pressed(qs, i) <=> Pressed(ps, i)
  BY <1>1, <1>2, <1>3
<1>8. UpSince(ps, h[2]) <=> \A i \in h[2] .. n : ~Pressed(qs, i)
  BY <1>7, Zenon DEF UpSince
<1> QED
  BY <1>3, <1>4, <1>5, <1>6, <1>8

\* The last poll: the gap after a tap is over.
LEMMA LastShort ==
  ASSUME NEW ps, NEW qs, Grows(ps, qs), NEW n, n = Len(ps), NEW m, m = Len(qs)
  PROVE  ShortAt(qs, m) <=>
             \E h : /\ Single(ps, h) /\ At(ps, n) - At(ps, h[2]) <= DoubleGap
                    /\ At(qs, m) - At(ps, h[2]) > DoubleGap
<1>1. n \in Nat /\ m = n + 1 /\ m - 1 = n /\ Extends(ps, qs)
  BY DEF Grows, Extends
<1>2. ASSUME ShortAt(qs, m)
      PROVE  \E h : /\ Single(ps, h) /\ At(ps, n) - At(ps, h[2]) <= DoubleGap
                    /\ At(qs, m) - At(ps, h[2]) > DoubleGap
  <2>1. PICK h \in Holds(qs) : Tap(qs, h) /\ ~IsSecond(qs, h[1]) /\ Expires(qs, m, h)
    BY <1>2 DEF ShortAt
  <2>2. /\ m > h[2] /\ At(qs, m) - At(qs, h[2]) > DoubleGap
        /\ \A j \in h[2] .. n : ~Pressed(qs, j) /\ At(qs, j) - At(qs, h[2]) <= DoubleGap
    BY <1>1, <2>1 DEF Expires
  <2>3. h[2] \in Nat
    BY <1>1 DEF Holds
  <2>4. h[2] <= n
    BY <1>1, <2>2, <2>3
  <2>5. h \in Holds(ps)
    BY <1>1, <2>4, ExtendsHolds
  <2>6. Single(ps, h)
    BY PastHold, <2>1, <2>2, <2>5 DEF Single
  <2>7. n \in h[2] .. n /\ At(qs, h[2]) = At(ps, h[2]) /\ At(qs, n) = At(ps, n)
    <3>1. n \in h[2] .. n /\ n \in 1 .. n /\ At(qs, h[2]) = At(ps, h[2])
      BY <2>5, PastHold
    <3> QED
      BY <3>1, GrowsTimes
  <2>8. At(ps, n) - At(ps, h[2]) <= DoubleGap
    BY <2>2, <2>7
  <2> QED
    BY <2>2, <2>6, <2>7, <2>8
<1>3. ASSUME NEW h, Single(ps, h), At(ps, n) - At(ps, h[2]) <= DoubleGap,
             At(qs, m) - At(ps, h[2]) > DoubleGap
      PROVE  ShortAt(qs, m)
  <2>1. h \in Holds(ps) /\ Tap(ps, h) /\ ~IsSecond(ps, h[1]) /\ UpSince(ps, h[2])
    BY <1>3 DEF Single
  <2>2. h[2] \in 1 .. n /\ At(qs, h[2]) = At(ps, h[2]) /\ h[2] < m
    BY PastHold, <2>1
  <2>3. ASSUME NEW j \in h[2] .. n
        PROVE  ~Pressed(qs, j) /\ At(qs, j) - At(qs, h[2]) <= DoubleGap
    <3>1. j \in 1 .. n /\ n \in 1 .. n
      BY <1>1, <2>2
    <3>2. /\ At(ps, j) \in Nat /\ At(ps, n) \in Nat /\ At(ps, h[2]) \in Nat
          /\ At(qs, j) = At(ps, j) /\ At(ps, j) <= At(ps, n)
      BY <2>2, <3>1, GrowsTimes
    <3>3. DoubleGap \in Nat
      BY ButtonAssumption
    <3>4. At(qs, j) - At(qs, h[2]) <= DoubleGap
      BY <1>3, <2>2, <3>2, <3>3
    <3> QED
      BY PastHold, <2>1, <3>4
  <2>4. Expires(qs, m, h)
    BY <1>1, <1>3, <2>2, <2>3 DEF Expires
  <2> QED
    BY PastHold, <2>1, <2>4 DEF ShortAt
<1> QED
  BY <1>2, <1>3

\* The last poll: a press soon after a tap.
LEMMA LastSecond ==
  ASSUME NEW ps, NEW qs, Grows(ps, qs), NEW n, n = Len(ps), NEW m, m = Len(qs)
  PROVE  IsSecond(qs, m) <=>
             /\ Pressed(qs, m)
             /\ \E h : Single(ps, h) /\ At(qs, m) - At(ps, h[2]) <= DoubleGap
<1>1. n \in Nat /\ m = n + 1 /\ m - 1 = n /\ Extends(ps, qs) /\ m \in 1 .. m /\ m \in Nat
  BY DEF Grows, Extends
<1>2. IsSecond(qs, m) <=>
          \E h \in Holds(qs) : Tap(qs, h) /\ SoonAfter(qs, m, h) /\ ~IsSecond(qs, h[1])
  BY <1>1, SecondIs
<1>3. ASSUME IsSecond(qs, m)
      PROVE  /\ Pressed(qs, m)
             /\ \E h : Single(ps, h) /\ At(qs, m) - At(ps, h[2]) <= DoubleGap
  <2>1. PICK h \in Holds(qs) : Tap(qs, h) /\ SoonAfter(qs, m, h) /\ ~IsSecond(qs, h[1])
    BY <1>2, <1>3
  <2>2. /\ Starts(qs, m) /\ m > h[2] /\ At(qs, m) - At(qs, h[2]) <= DoubleGap
        /\ \A j \in h[2] .. n : ~Pressed(qs, j)
    BY <1>1, <2>1 DEF SoonAfter
  <2>3. h[2] \in Nat
    BY <1>1 DEF Holds
  <2>4. h[2] <= n
    BY <1>1, <2>2, <2>3
  <2>5. h \in Holds(ps)
    BY <1>1, <2>4, ExtendsHolds
  <2>6. Single(ps, h)
    BY PastHold, <2>1, <2>2, <2>5 DEF Single
  <2>7. At(qs, h[2]) = At(ps, h[2])
    BY PastHold, <2>5
  <2> QED
    BY <2>2, <2>6, <2>7 DEF Starts
<1>4. ASSUME Pressed(qs, m), NEW h, Single(ps, h), At(qs, m) - At(ps, h[2]) <= DoubleGap
      PROVE  IsSecond(qs, m)
  <2>1. h \in Holds(ps) /\ Tap(ps, h) /\ ~IsSecond(ps, h[1]) /\ UpSince(ps, h[2])
    BY <1>4 DEF Single
  <2>2. \A i \in h[2] .. m - 1 : ~Pressed(qs, i)
    BY <1>1, PastHold, <2>1
  <2>3. ~Pressed(qs, m - 1)
    BY <1>1, PastHold, <2>1, <2>2
  <2>4. SoonAfter(qs, m, h)
    BY PastHold, <1>4, <2>1, <2>2, <2>3 DEF SoonAfter, Starts
  <2> QED
    BY PastHold, <1>2, <2>1, <2>4
<1> QED
  BY <1>3, <1>4

\* The last poll: the gestures of the hold that is on, or that it ends.
LEMMA LastOfHold ==
  ASSUME NEW ps, NEW qs, Grows(ps, qs), NEW n, n = Len(ps), NEW m, m = Len(qs)
  PROVE  /\ DoubleAt(qs, m) <=>
                /\ ~Pressed(qs, m)
                /\ \E j : /\ DownSince(ps, j) /\ At(qs, m) - At(ps, j) < Long
                          /\ IsSecond(ps, j)
         /\ LongAt(qs, m) <=>
                /\ ~Pressed(qs, m)
                /\ \E j : DownSince(ps, j) /\ At(qs, m) - At(ps, j) \in Long .. VeryLong - 1
         /\ VeryLongAt(qs, m) <=>
                \E j : /\ DownSince(ps, j) /\ At(qs, m) - At(ps, j) >= VeryLong
                       /\ At(ps, n) - At(ps, j) < VeryLong
<1>1. n \in Nat /\ m = n + 1 /\ m - 1 = n /\ Extends(ps, qs)
  BY DEF Grows, Extends
<1>2. ASSUME NEW j, DownSince(ps, j)
      PROVE  /\ j \in 1 .. n /\ n \in 1 .. n
             /\ At(qs, j) = At(ps, j) /\ (IsSecond(qs, j) <=> IsSecond(ps, j))
  <2>1. j \in 1 .. n
    BY <1>2 DEF DownSince
  <2>2. n \in 1 .. n
    BY <1>1, <2>1
  <2> QED
    BY <1>1, <2>1, <2>2, GrowsTimes, ExtendsSecond
<1>3. ASSUME NEW h \in Holds(qs), h[2] = m
      PROVE  /\ DownSince(ps, h[1]) /\ ~Pressed(qs, m)
             /\ Length(qs, h) = At(qs, m) - At(ps, h[1])
             /\ Tap(qs, h) <=> At(qs, m) - At(ps, h[1]) < Long
             /\ IsSecond(qs, h[1]) <=> IsSecond(ps, h[1])
  <2>1. DownSince(ps, h[1]) /\ ~Pressed(qs, m)
    BY <1>1, <1>3, LastHold
  <2>2. At(qs, h[1]) = At(ps, h[1]) /\ (IsSecond(qs, h[1]) <=> IsSecond(ps, h[1]))
    BY <1>2, <2>1
  <2> QED
    BY <1>3, <2>1, <2>2, Zenon DEF Length, Tap
<1>4. ASSUME NEW j, DownSince(ps, j), ~Pressed(qs, m)
      PROVE  \E h \in Holds(qs) : h[1] = j /\ h[2] = m
  <2>1. <<j, m>> \in Holds(qs)
    BY <1>1, <1>4, LastHold
  <2>2. <<j, m>>[1] = j /\ <<j, m>>[2] = m
    OBVIOUS
  <2> QED
    BY <2>1, <2>2
<1>5. DoubleAt(qs, m) <=>
          /\ ~Pressed(qs, m)
          /\ \E j : DownSince(ps, j) /\ At(qs, m) - At(ps, j) < Long /\ IsSecond(ps, j)
  BY <1>3, <1>4, Zenon DEF DoubleAt
<1>6. LongAt(qs, m) <=>
          /\ ~Pressed(qs, m)
          /\ \E j : DownSince(ps, j) /\ At(qs, m) - At(ps, j) \in Long .. VeryLong - 1
  BY <1>3, <1>4, Zenon DEF LongAt
<1>7. ASSUME NEW j
      PROVE  DownSince(ps, j) <=> /\ j \in 1 .. n /\ Starts(qs, j)
                                  /\ \A i \in j .. n : Pressed(qs, i)
  <2> SUFFICES ASSUME j \in 1 .. n
               PROVE  /\ Starts(qs, j) <=> Starts(ps, j)
                      /\ \A i \in j .. n : Pressed(qs, i) <=> Pressed(ps, i)
    BY Zenon DEF DownSince
  <2>1. \A i \in j .. n : i \in Int /\ i <= Len(ps)
    BY <1>1
  <2>2. j \in Int /\ j <= Len(ps)
    BY <1>1
  <2> QED
    BY <1>1, <2>1, <2>2, ExtendsPolls
<1>8. VeryLongAt(qs, m) <=>
          \E j : /\ DownSince(ps, j) /\ At(qs, m) - At(ps, j) >= VeryLong
                 /\ At(ps, n) - At(ps, j) < VeryLong
  <2>1. m \in 1 .. m /\ \A j : DownSince(ps, j) => At(qs, n) = At(ps, n)
    <3>1. \A j : DownSince(ps, j) => n \in 1 .. n
      BY <1>2
    <3> QED
      BY <1>1, <3>1, GrowsTimes
  <2>2. VeryLongAt(qs, m) <=>
            \E j \in 1 .. n :
                /\ Starts(qs, j) /\ \A i \in j .. n : Pressed(qs, i)
                /\ At(qs, m) - At(qs, j) >= VeryLong /\ At(qs, n) - At(qs, j) < VeryLong
    BY <1>1, <2>1 DEF VeryLongAt, VeryLongs
  <2> QED
    BY <1>2, <1>7, <2>1, <2>2, Zenon
<1> QED
  BY <1>5, <1>6, <1>8

\* The last poll: the taps that may be the first of two.
LEMMA LastSingle ==
  ASSUME NEW ps, NEW qs, Grows(ps, qs), NEW n, n = Len(ps), NEW m, m = Len(qs), NEW h
  PROVE  Single(qs, h) <=>
             /\ ~Pressed(qs, m)
             /\ \/ Single(ps, h)
                \/ /\ h = <<h[1], m>> /\ DownSince(ps, h[1])
                   /\ At(qs, m) - At(ps, h[1]) < Long /\ ~IsSecond(ps, h[1])
<1>1. n \in Nat /\ m = n + 1 /\ m - 1 = n /\ Extends(ps, qs)
  BY DEF Grows, Extends
<1>2. CASE h \in Holds(ps)
  <2>1. /\ h \in Holds(qs) /\ h[2] \in 1 .. n /\ (Tap(qs, h) <=> Tap(ps, h))
        /\ IsSecond(qs, h[1]) <=> IsSecond(ps, h[1])
        /\ UpSince(ps, h[2]) <=> \A i \in h[2] .. n : ~Pressed(qs, i)
    BY <1>2, PastHold
  <2>2. h[2] .. m = (h[2] .. n) \cup {m} /\ h[2] # m
    BY <1>1, <2>1
  <2>3. UpSince(qs, h[2]) <=> UpSince(ps, h[2]) /\ ~Pressed(qs, m)
    BY <2>1, <2>2, Zenon DEF UpSince
  <2>4. h # <<h[1], m>>
    <3>1. <<h[1], m>>[2] = m
      OBVIOUS
    <3> QED
      BY <2>2, <3>1
  <2> QED
    BY <1>2, <2>1, <2>3, <2>4, Zenon DEF Single
<1>3. CASE h \notin Holds(ps)
  <2>1. ~Single(ps, h)
    BY <1>3 DEF Single
  <2>2. ASSUME Single(qs, h)
        PROVE  /\ ~Pressed(qs, m) /\ h = <<h[1], m>> /\ DownSince(ps, h[1])
               /\ At(qs, m) - At(ps, h[1]) < Long /\ ~IsSecond(ps, h[1])
    <3>1. h \in Holds(qs) /\ Tap(qs, h) /\ ~IsSecond(qs, h[1])
      BY <2>2 DEF Single
    <3>2. ~(h[2] <= n)
      BY <1>1, <1>3, <3>1, ExtendsHolds
    <3>3. h[2] \in 1 .. m
      BY <3>1 DEF Holds
    <3>4. h[2] = m
      BY <1>1, <3>2, <3>3
    <3>5. h = <<h[1], m>> /\ DownSince(ps, h[1]) /\ ~Pressed(qs, m)
      BY <1>1, <3>1, <3>4, LastHold
    <3>6. h[1] \in 1 .. n
      BY <3>5 DEF DownSince
    <3>7. At(qs, h[1]) = At(ps, h[1]) /\ (IsSecond(qs, h[1]) <=> IsSecond(ps, h[1]))
      BY <1>1, <3>6, GrowsTimes, ExtendsSecond
    <3>8. At(qs, m) - At(ps, h[1]) < Long
      BY <3>1, <3>4, <3>7 DEF Tap, Length
    <3> QED
      BY <3>1, <3>5, <3>7, <3>8
  <2>3. ASSUME ~Pressed(qs, m), h = <<h[1], m>>, DownSince(ps, h[1]),
               At(qs, m) - At(ps, h[1]) < Long, ~IsSecond(ps, h[1])
        PROVE  Single(qs, h)
    <3>1. h \in Holds(qs)
      <4>1. <<h[1], m>> \in Holds(qs)
        BY <1>1, <2>3, LastHold
      <4> QED
        BY <2>3, <4>1
    <3>2. h[2] = m
      <4>1. <<h[1], m>>[2] = m
        OBVIOUS
      <4> QED
        BY <2>3, <4>1
    <3>3. h[1] \in 1 .. n
      BY <2>3 DEF DownSince
    <3>4. At(qs, h[1]) = At(ps, h[1]) /\ (IsSecond(qs, h[1]) <=> IsSecond(ps, h[1]))
      BY <1>1, <3>3, GrowsTimes, ExtendsSecond
    <3>5. Tap(qs, h)
      BY <2>3, <3>2, <3>4 DEF Tap, Length
    <3>6. UpSince(qs, h[2])
      <4>1. m .. m = {m}
        BY <1>1
      <4> QED
        BY <2>3, <3>2, <4>1, Zenon DEF UpSince
    <3> QED
      BY <2>3, <3>1, <3>4, <3>5, <3>6 DEF Single
  <2> QED
    BY <2>1, <2>2, <2>3
<1> QED
  BY <1>2, <1>3

-----------------------------------------------------------------------------
Adds(ps, qs, gesture) == Defined(qs) = Defined(ps) \cup {gesture}

\* The definition with one gesture more, and with none.
LEMMA OneMore ==
  ASSUME NEW ps, NEW qs, Extends(ps, qs), NEW m, m = Len(qs)
  PROVE  /\ ~ShortAt(qs, m) /\ ~DoubleAt(qs, m) /\ ~LongAt(qs, m) /\ ~VeryLongAt(qs, m) =>
                Defined(qs) = Defined(ps)
         /\ ShortAt(qs, m) /\ ~DoubleAt(qs, m) /\ ~LongAt(qs, m) /\ ~VeryLongAt(qs, m) =>
                Adds(ps, qs, <<At(qs, m), "short">>)
         /\ ~ShortAt(qs, m) /\ DoubleAt(qs, m) /\ ~LongAt(qs, m) /\ ~VeryLongAt(qs, m) =>
                Adds(ps, qs, <<At(qs, m), "double">>)
         /\ ~ShortAt(qs, m) /\ ~DoubleAt(qs, m) /\ LongAt(qs, m) /\ ~VeryLongAt(qs, m) =>
                Adds(ps, qs, <<At(qs, m), "long">>)
         /\ ~ShortAt(qs, m) /\ ~DoubleAt(qs, m) /\ ~LongAt(qs, m) /\ VeryLongAt(qs, m) =>
                Adds(ps, qs, <<At(qs, m), "very_long">>)
<1> DEFINE a == ShortAt(qs, m)
           b == DoubleAt(qs, m)
           c == LongAt(qs, m)
           d == VeryLongAt(qs, m)
           P == Defined(ps)
           R == Defined(qs)
           s == <<At(qs, m), "short">>
           t == <<At(qs, m), "double">>
           u == <<At(qs, m), "long">>
           v == <<At(qs, m), "very_long">>
<1>1. \A x : x \in R <=> \/ x \in P \/ (a /\ x = s) \/ (b /\ x = t)
                         \/ (c /\ x = u) \/ (d /\ x = v)
  BY DefinedMore, Zenon
<1> HIDE DEF a, b, c, d, P, R, s, t, u, v
<1>2. /\ ~a /\ ~b /\ ~c /\ ~d => R = P
      /\ a /\ ~b /\ ~c /\ ~d => R = P \cup {s}
      /\ ~a /\ b /\ ~c /\ ~d => R = P \cup {t}
      /\ ~a /\ ~b /\ c /\ ~d => R = P \cup {u}
      /\ ~a /\ ~b /\ ~c /\ d => R = P \cup {v}
  BY <1>1
<1> QED
  BY <1>2 DEF Adds, a, b, c, d, P, R, s, t, u, v

\* A poll while no tap waits: a press is a first one, and there is no gesture.
LEMMA FromIdle ==
  ASSUME NEW ps, NEW qs, Grows(ps, qs), NEW m, m = Len(qs), IsIdle(ps)
  PROVE  /\ Defined(qs) = Defined(ps)
         /\ Pressed(qs, m) => IsPressed(qs, At(qs, m) % Wrap, FALSE)
         /\ ~Pressed(qs, m) => IsIdle(qs)
<1> DEFINE n == Len(ps)
<1>1. /\ n \in Nat /\ m = n + 1 /\ Extends(ps, qs) /\ At(qs, m) \in Nat
      /\ \A k \in 1 .. n : /\ At(ps, k) \in Nat /\ At(qs, k) = At(ps, k)
                           /\ At(ps, k) <= At(ps, n) /\ At(ps, k) < At(qs, m)
  BY GrowsTimes DEF Grows
<1>2. DoubleGap \in Nat /\ VeryLong \in Nat /\ VeryLong > 0
  BY ButtonAssumption
<1>3. ~Pressed(ps, n)
  BY DEF IsIdle
<1>4. ASSUME NEW h, Single(ps, h)
      PROVE  At(ps, n) - At(ps, h[2]) > DoubleGap /\ At(qs, m) - At(ps, h[2]) > DoubleGap
  <2>1. h[2] \in 1 .. n /\ n \in 1 .. n
    BY <1>1, <1>4, UpUnique
  <2>2. At(ps, n) - At(ps, h[2]) > DoubleGap
    BY <1>4 DEF IsIdle
  <2>3. At(ps, h[2]) \in Nat /\ At(ps, n) \in Nat /\ At(ps, n) < At(qs, m)
    BY <1>1, <2>1
  <2> QED
    BY <1>1, <1>2, <2>2, <2>3
<1>5. \A j : ~DownSince(ps, j)
  <2> SUFFICES ASSUME NEW j, DownSince(ps, j)
               PROVE  FALSE
    OBVIOUS
  <2>1. n \in j .. n
    BY <1>1 DEF DownSince
  <2> QED
    BY <1>3, <2>1 DEF DownSince
<1>6. ~ShortAt(qs, m)
  <2> SUFFICES ASSUME ShortAt(qs, m)
               PROVE  FALSE
    OBVIOUS
  <2>1. PICK h : Single(ps, h) /\ At(ps, n) - At(ps, h[2]) <= DoubleGap
    BY LastShort
  <2>2. h[2] \in 1 .. n /\ n \in 1 .. n
    BY <1>1, <2>1, UpUnique
  <2> QED
    BY <1>1, <1>2, <1>4, <2>1, <2>2
<1>7. ~DoubleAt(qs, m) /\ ~LongAt(qs, m) /\ ~VeryLongAt(qs, m)
  BY <1>5, LastOfHold, Zenon
<1>8. Defined(qs) = Defined(ps)
  BY <1>1, <1>6, <1>7, OneMore
<1>9. ASSUME Pressed(qs, m)
      PROVE  IsPressed(qs, At(qs, m) % Wrap, FALSE)
  <2>1. DownSince(qs, m)
    BY <1>1, <1>3, <1>9, LastDown
  <2>2. ~IsSecond(qs, m)
    <3> SUFFICES ASSUME IsSecond(qs, m)
                 PROVE  FALSE
      OBVIOUS
    <3>1. PICK h : Single(ps, h) /\ At(qs, m) - At(ps, h[2]) <= DoubleGap
      BY LastSecond
    <3>2. h[2] \in 1 .. n
      BY <1>1, <3>1, UpUnique
    <3> QED
      BY <1>1, <1>2, <1>4, <3>1, <3>2
  <2>3. At(qs, m) - At(qs, m) < VeryLong
    BY <1>1, <1>2
  <2> QED
    BY <2>1, <2>2, <2>3, Zenon DEF IsPressed
<1>10. ASSUME ~Pressed(qs, m)
       PROVE  IsIdle(qs)
  <2> SUFFICES ASSUME NEW h, Single(qs, h)
               PROVE  At(qs, m) - At(qs, h[2]) > DoubleGap
    BY <1>10, Zenon DEF IsIdle
  <2>1. Single(ps, h)
    BY <1>5, LastSingle, Zenon
  <2>2. h[2] \in 1 .. n
    BY <1>1, <2>1, UpUnique
  <2> QED
    BY <1>1, <1>4, <2>1, <2>2
<1> QED
  BY <1>8, <1>9, <1>10

\* A poll of a hold: how long it has been, and what its release makes of it.
LEMMA FromPressed ==
  ASSUME NEW ps, NEW qs, Grows(ps, qs), NEW m, m = Len(qs),
         NEW j, DownSince(ps, j), At(ps, Len(ps)) - At(ps, j) < VeryLong,
         NEW d, d = At(qs, m) - At(ps, j)
  PROVE  /\ d >= VeryLong => Adds(ps, qs, <<At(qs, m), "very_long">>)
         /\ Pressed(qs, m) /\ d < VeryLong =>
                /\ Defined(qs) = Defined(ps)
                /\ \A a, s : /\ a = At(ps, j) % Wrap /\ (s <=> IsSecond(ps, j))
                             => IsPressed(qs, a, s)
         /\ ~Pressed(qs, m) /\ d \in Long .. VeryLong - 1 =>
                Adds(ps, qs, <<At(qs, m), "long">>) /\ IsIdle(qs)
         /\ ~Pressed(qs, m) /\ d < Long /\ IsSecond(ps, j) =>
                Adds(ps, qs, <<At(qs, m), "double">>) /\ IsIdle(qs)
         /\ ~Pressed(qs, m) /\ d < Long /\ ~IsSecond(ps, j) =>
                Defined(qs) = Defined(ps) /\ IsWaiting(qs, At(qs, m) % Wrap)
<1> DEFINE n == Len(ps)
<1>1. /\ n \in Nat /\ m = n + 1 /\ Extends(ps, qs) /\ At(qs, m) \in Nat
      /\ \A k \in 1 .. n : /\ At(ps, k) \in Nat /\ At(qs, k) = At(ps, k)
                           /\ At(ps, k) <= At(ps, n) /\ At(ps, k) < At(qs, m)
  BY GrowsTimes DEF Grows
<1>2. /\ DoubleGap \in Nat /\ VeryLong \in Nat /\ VeryLong > 0 /\ Long \in Nat
      /\ Long < VeryLong
  BY ButtonAssumption
<1>3. j \in 1 .. n /\ n \in j .. n /\ d \in Nat /\ At(ps, j) \in Nat /\ At(qs, j) = At(ps, j)
  <2>1. j \in 1 .. n
    BY DEF DownSince
  <2> QED
    BY <1>1, <2>1
<1>4. Pressed(ps, n)
  BY <1>3 DEF DownSince
<1>5. \A i : DownSince(ps, i) <=> i = j
  BY <1>1, DownUnique
<1>6. \A h : ~Single(ps, h)
  BY <1>1, <1>4, UpUnique
<1>7. ~ShortAt(qs, m)
  BY <1>6, LastShort, Zenon
<1>8. DoubleAt(qs, m) <=> ~Pressed(qs, m) /\ d < Long /\ IsSecond(ps, j)
  BY <1>5, LastOfHold, Zenon
<1>9. LongAt(qs, m) <=> ~Pressed(qs, m) /\ d \in Long .. VeryLong - 1
  BY <1>5, LastOfHold, Zenon
<1>10. VeryLongAt(qs, m) <=> d >= VeryLong
  BY <1>5, LastOfHold, Zenon
<1>11. /\ d >= VeryLong => ~(d < VeryLong) /\ ~(d < Long) /\ d \notin Long .. VeryLong - 1
       /\ d \in Long .. VeryLong - 1 => ~(d < Long)
       /\ d < Long => d < VeryLong
       /\ d < VeryLong => d \in Long .. VeryLong - 1 \/ d < Long
       /\ d \in Long .. VeryLong - 1 => d < VeryLong
       /\ d < VeryLong => ~(d >= VeryLong)
  BY <1>2, <1>3
<1>12. ASSUME d >= VeryLong
       PROVE  Adds(ps, qs, <<At(qs, m), "very_long">>)
  <2>1. ~DoubleAt(qs, m) /\ ~LongAt(qs, m) /\ VeryLongAt(qs, m)
    BY <1>8, <1>9, <1>10, <1>11, <1>12
  <2> QED
    BY <1>1, <1>7, <2>1, OneMore
<1>13. ASSUME Pressed(qs, m), d < VeryLong
       PROVE  Defined(qs) = Defined(ps)
  <2>1. ~DoubleAt(qs, m) /\ ~LongAt(qs, m) /\ ~VeryLongAt(qs, m)
    BY <1>8, <1>9, <1>10, <1>11, <1>13
  <2> QED
    BY <1>1, <1>7, <2>1, OneMore
<1>14. ASSUME ~Pressed(qs, m), d \in Long .. VeryLong - 1
       PROVE  Adds(ps, qs, <<At(qs, m), "long">>)
  <2>1. ~DoubleAt(qs, m) /\ LongAt(qs, m) /\ ~VeryLongAt(qs, m)
    BY <1>8, <1>9, <1>10, <1>11, <1>14
  <2> QED
    BY <1>1, <1>7, <2>1, OneMore
<1>15. ASSUME ~Pressed(qs, m), d < Long, IsSecond(ps, j)
       PROVE  Adds(ps, qs, <<At(qs, m), "double">>)
  <2>1. DoubleAt(qs, m) /\ ~LongAt(qs, m) /\ ~VeryLongAt(qs, m)
    BY <1>8, <1>9, <1>10, <1>11, <1>15
  <2> QED
    BY <1>1, <1>7, <2>1, OneMore
<1>16. ASSUME ~Pressed(qs, m), d < Long, ~IsSecond(ps, j)
       PROVE  Defined(qs) = Defined(ps)
  <2>1. ~DoubleAt(qs, m) /\ ~LongAt(qs, m) /\ ~VeryLongAt(qs, m)
    BY <1>8, <1>9, <1>10, <1>11, <1>16
  <2> QED
    BY <1>1, <1>7, <2>1, OneMore
<1>17. ASSUME Pressed(qs, m), d < VeryLong, NEW a, NEW s, a = At(ps, j) % Wrap,
              s <=> IsSecond(ps, j)
       PROVE  IsPressed(qs, a, s)
  <2>1. DownSince(qs, j)
    <3>1. DownSince(qs, j) <=>
              Pressed(qs, m) /\ (DownSince(ps, j) \/ (j = m /\ ~Pressed(ps, n)))
      BY <1>1, LastDown
    <3> QED
      BY <1>17, <3>1
  <2>2. IsSecond(qs, j) <=> IsSecond(ps, j)
    BY <1>1, <1>3, ExtendsSecond
  <2> QED
    BY <1>3, <1>17, <2>1, <2>2, Zenon DEF IsPressed
<1>18. ASSUME ~Pressed(qs, m), d \in Long .. VeryLong - 1 \/ IsSecond(ps, j)
       PROVE  IsIdle(qs)
  <2>1. ~(d < Long /\ ~IsSecond(ps, j))
    BY <1>11, <1>18
  <2>2. ASSUME NEW h, Single(qs, h)
        PROVE  FALSE
    <3>1. /\ DownSince(ps, h[1])
          /\ At(qs, m) - At(ps, h[1]) < Long /\ ~IsSecond(ps, h[1])
      BY <1>6, <2>2, LastSingle, Zenon
    <3>2. h[1] = j
      BY <1>5, <3>1
    <3> QED
      BY <2>1, <3>1, <3>2
  <2> QED
    BY <1>18, <2>2, Zenon DEF IsIdle
<1>19. ASSUME ~Pressed(qs, m), d < Long, ~IsSecond(ps, j)
       PROVE  IsWaiting(qs, At(qs, m) % Wrap)
  <2> DEFINE h == <<j, m>>
  <2>1. h[1] = j /\ h[2] = m /\ h = <<h[1], m>>
    OBVIOUS
  <2> HIDE DEF h
  <2>2. Single(qs, h)
    BY <1>19, <2>1, LastSingle
  <2>3. At(qs, m) - At(qs, h[2]) <= DoubleGap
    BY <1>1, <1>2, <2>1
  <2> QED
    BY <2>1, <2>2, <2>3, Zenon DEF IsWaiting
<1> QED
  BY <1>12, <1>13, <1>14, <1>15, <1>16, <1>17, <1>18, <1>19, Zenon

\* A poll after a first tap: within the gap, and past it.
LEMMA FromWaiting ==
  ASSUME NEW ps, NEW qs, Grows(ps, qs), NEW m, m = Len(qs),
         NEW h, Single(ps, h), At(ps, Len(ps)) - At(ps, h[2]) <= DoubleGap,
         NEW d, d = At(qs, m) - At(ps, h[2])
  PROVE  /\ d <= DoubleGap =>
                /\ Defined(qs) = Defined(ps)
                /\ Pressed(qs, m) => IsPressed(qs, At(qs, m) % Wrap, TRUE)
                /\ ~Pressed(qs, m) =>
                       \A a : a = At(ps, h[2]) % Wrap => IsWaiting(qs, a)
         /\ d > DoubleGap =>
                /\ Adds(ps, qs, <<At(qs, m), "short">>)
                /\ Pressed(qs, m) => IsPressed(qs, At(qs, m) % Wrap, FALSE)
                /\ ~Pressed(qs, m) => IsIdle(qs)
<1> DEFINE n == Len(ps)
<1>1. /\ n \in Nat /\ m = n + 1 /\ Extends(ps, qs) /\ At(qs, m) \in Nat
      /\ \A k \in 1 .. n : /\ At(ps, k) \in Nat /\ At(qs, k) = At(ps, k)
                           /\ At(ps, k) <= At(ps, n) /\ At(ps, k) < At(qs, m)
  BY GrowsTimes DEF Grows
<1>2. DoubleGap \in Nat /\ VeryLong \in Nat /\ VeryLong > 0
  BY ButtonAssumption
<1>3. /\ ~Pressed(ps, n) /\ h[2] \in 1 .. n
      /\ \A g : Single(ps, g) => g[2] = h[2]
  BY <1>1, UpUnique
<1>4. d \in Nat /\ At(ps, h[2]) \in Nat /\ At(qs, h[2]) = At(ps, h[2])
      /\ (d > DoubleGap <=> ~(d <= DoubleGap))
  BY <1>1, <1>2, <1>3
<1>5. \A i : ~DownSince(ps, i)
  <2> SUFFICES ASSUME NEW i, DownSince(ps, i)
               PROVE  FALSE
    OBVIOUS
  <2>1. n \in i .. n
    BY <1>1 DEF DownSince
  <2> QED
    BY <1>3, <2>1 DEF DownSince
<1>6. ShortAt(qs, m) <=> d > DoubleGap
  <2>1. \A g : Single(ps, g) => At(ps, g[2]) = At(ps, h[2])
    BY <1>3
  <2> QED
    BY <2>1, LastShort, Zenon
<1>7. ~DoubleAt(qs, m) /\ ~LongAt(qs, m) /\ ~VeryLongAt(qs, m)
  BY <1>5, LastOfHold, Zenon
<1>8. ASSUME d <= DoubleGap
      PROVE  Defined(qs) = Defined(ps)
  <2>1. ~ShortAt(qs, m)
    BY <1>4, <1>6, <1>8
  <2> QED
    BY <1>1, <1>7, <2>1, OneMore
<1>9. ASSUME d > DoubleGap
      PROVE  Adds(ps, qs, <<At(qs, m), "short">>)
  <2>1. ShortAt(qs, m)
    BY <1>6, <1>9
  <2> QED
    BY <1>1, <1>7, <2>1, OneMore
<1>10. Pressed(qs, m) => (IsSecond(qs, m) <=> d <= DoubleGap)
  <2>1. \A g : Single(ps, g) => At(ps, g[2]) = At(ps, h[2])
    BY <1>3
  <2> QED
    BY <2>1, LastSecond, Zenon
<1>11. Pressed(qs, m) => DownSince(qs, m) /\ At(qs, m) - At(qs, m) < VeryLong
  <2>1. Pressed(qs, m) => DownSince(qs, m)
    BY <1>1, <1>3, LastDown, Zenon
  <2>2. At(qs, m) - At(qs, m) < VeryLong
    BY <1>1, <1>2
  <2> QED
    BY <2>1, <2>2
<1>12. ASSUME Pressed(qs, m)
       PROVE  /\ d <= DoubleGap => IsPressed(qs, At(qs, m) % Wrap, TRUE)
              /\ d > DoubleGap => IsPressed(qs, At(qs, m) % Wrap, FALSE)
  BY <1>4, <1>10, <1>11, <1>12, Zenon DEF IsPressed
<1>13. ~Pressed(qs, m) => \A g : Single(qs, g) <=> Single(ps, g)
  BY <1>5, LastSingle, Zenon
<1>14. ASSUME ~Pressed(qs, m), d <= DoubleGap, NEW a, a = At(ps, h[2]) % Wrap
       PROVE  IsWaiting(qs, a)
  <2>1. Single(qs, h) /\ At(qs, m) - At(qs, h[2]) <= DoubleGap /\ a = At(qs, h[2]) % Wrap
    BY <1>4, <1>13, <1>14
  <2> QED
    BY <2>1, Zenon DEF IsWaiting
<1>15. ASSUME ~Pressed(qs, m), d > DoubleGap
       PROVE  IsIdle(qs)
  <2> SUFFICES ASSUME NEW g, Single(qs, g)
               PROVE  At(qs, m) - At(qs, g[2]) > DoubleGap
    BY <1>15, Zenon DEF IsIdle
  <2>1. g[2] = h[2]
    BY <1>3, <1>13, <1>15
  <2> QED
    BY <1>4, <1>15, <2>1
<1> QED
  BY <1>8, <1>9, <1>12, <1>14, <1>15, Zenon

-----------------------------------------------------------------------------
LEMMA NothingHeld ==
  /\ <<>> \in Recordings /\ Later(<<>>) /\ IsIdle(<<>>)
  /\ Defined(<<>>) = {}
<1> DEFINE e == <<>>
<1>1. e \in Recordings /\ Len(e) = 0
  BY DEF Recordings
<1> HIDE DEF e
<1>2. 1 .. Len(e) = {}
  BY <1>1
<1>3. Later(e)
  BY <1>2 DEF Later
<1>4. ~Pressed(e, Len(e))
  BY <1>2 DEF Pressed
<1>5. Holds(e) = {}
  BY <1>2 DEF Holds
<1>6. IsIdle(e)
  BY <1>4, <1>5 DEF IsIdle, Single
<1>7. \A x : x \notin Defined(e)
  <2> SUFFICES ASSUME NEW x, x \in Defined(e)
               PROVE  FALSE
    OBVIOUS
  <2>1. Len(e) \in Nat
    BY <1>1
  <2>2. \E k \in 1 .. Len(e) : TRUE
    BY <2>1, DefinedIs, Zenon
  <2> QED
    BY <1>2, <2>2
<1> QED
  BY <1>1, <1>3, <1>6, <1>7 DEF e

LEMMA ButtonInitInv == ButtonInit => ButtonInv
  BY NothingHeld DEF ButtonInit, ButtonInv, StateFollows

LEMMA WakeKeeps == ASSUME ButtonInv, Wake PROVE ButtonInv'
<1>1. polls' = <<>> /\ gestures' = {} /\ state' = "idle" /\ second_tap' = FALSE
  BY DEF Wake, Becomes
<1>2. IsIdle(polls')
  BY <1>1, NothingHeld
<1>3. StateFollows'
  BY <1>1, <1>2 DEF StateFollows
<1> QED
  BY <1>1, <1>3, NothingHeld DEF ButtonInv

\* What a poll adds to the recording.
LEMMA PollGrows ==
  ASSUME ButtonInv, NEW level \in BOOLEAN, NEW lag \in Lags, Poll(level, lag),
         NEW m, m = Len(polls')
  PROVE  /\ Grows(polls, polls') /\ At(polls', m) = Clock + lag /\ Clock + lag \in Nat
         /\ Pressed(polls', m) <=> level
         /\ Len(polls) # 0 => Clock = At(polls, Len(polls))
<1> DEFINE R == [pressed : BOOLEAN, at : Nat]
           p == [pressed |-> level, at |-> Clock + lag]
           n == Len(polls)
<1>1. polls \in Seq(R) /\ Later(polls) /\ polls' = Append(polls, p)
  BY DEF ButtonInv, Recordings, Poll
<1>2. lag \in Nat /\ lag > 0
  BY ButtonAssumption
<1>3. n \in Nat /\ \A k \in 1 .. n : polls[k] \in R
  <2> HIDE DEF R
  <2> QED
    BY <1>1
<1>4. \A k \in 1 .. n : At(polls, k) \in Nat
  BY <1>3 DEF At
<1>5. Clock \in Nat /\ (n # 0 => Clock = At(polls, n))
  <2>1. CASE n = 0
    <3>1. polls = <<>>
      BY <1>1, <2>1
    <3> QED
      BY <2>1, <3>1 DEF Clock
  <2>2. CASE n # 0
    <3>1. polls # <<>> /\ n \in 1 .. n
      BY <1>1, <1>3, <2>2
    <3> QED
      BY <1>4, <3>1 DEF Clock, At
  <2> QED
    BY <2>1, <2>2
<1>6. p \in R /\ p.at = Clock + lag /\ p.pressed = level /\ Clock + lag \in Nat
  BY <1>2, <1>5
<1>7. /\ polls' \in Seq(R) /\ m = n + 1 /\ polls'[m] = p
      /\ \A k \in 1 .. n : polls'[k] = polls[k]
  <2> HIDE DEF R, p
  <2> QED
    BY <1>1, <1>3, <1>6
<1> HIDE DEF p
<1>8. Extends(polls, polls')
  BY <1>3, <1>7 DEF Extends
<1>9. At(polls', m) = Clock + lag /\ (Pressed(polls', m) <=> level)
  <2>1. m \in 1 .. m
    BY <1>3, <1>7
  <2> QED
    BY <1>6, <1>7, <2>1 DEF At, Pressed
<1>10. \A k \in 1 .. n : At(polls', k) = At(polls, k)
  BY <1>7 DEF At
<1>11. Later(polls')
  <2> SUFFICES ASSUME NEW i \in 1 .. m, NEW j \in 1 .. m, i < j
               PROVE  At(polls', i) < At(polls', j)
    BY DEF Later
  <2>1. i \in 1 .. n /\ n # 0 /\ n \in 1 .. n
    BY <1>3, <1>7
  <2>2. CASE j \in 1 .. n
    BY <1>1, <1>10, <2>1, <2>2 DEF Later
  <2>3. CASE j = m
    <3>1. i = n \/ i < n
      BY <1>3, <2>1
    <3>2. At(polls, i) <= At(polls, n)
      BY <1>1, <1>4, <2>1, <3>1 DEF Later
    <3> QED
      BY <1>2, <1>4, <1>5, <1>9, <1>10, <2>1, <2>3, <3>2
  <2> QED
    BY <1>3, <1>7, <2>2, <2>3
<1>12. polls \in Recordings /\ polls' \in Recordings
  BY <1>1, <1>7 DEF Recordings
<1> QED
  BY <1>5, <1>6, <1>8, <1>9, <1>11, <1>12 DEF Grows

\* The time shown since a poll that is not too long ago.
LEMMA ElapsedSince ==
  ASSUME ButtonInv, NEW level \in BOOLEAN, NEW lag \in Lags, Poll(level, lag),
         NEW k \in 1 .. Len(polls), NEW limit \in Nat, limit + lag < Wrap,
         At(polls, Len(polls)) - At(polls, k) <= limit, anchor = At(polls, k) % Wrap
  PROVE  Elapsed(Clock + lag) = (Clock + lag) - At(polls, k)
<1> DEFINE n == Len(polls)
           now == Clock + lag
<1>1. Grows(polls, polls') /\ now \in Nat /\ (n # 0 => Clock = At(polls, n))
  BY PollGrows
<1>2. n \in Nat /\ n # 0 /\ n \in 1 .. n
  BY <1>1, GrowsTimes
<1>3. At(polls, k) \in Nat /\ At(polls, n) \in Nat /\ At(polls, k) <= At(polls, n)
  BY <1>1, <1>2, GrowsTimes
<1>4. lag \in Nat /\ Wrap \in Nat
  BY ButtonAssumption
<1>5. At(polls, k) <= now /\ now - At(polls, k) < Wrap
  BY <1>1, <1>2, <1>3, <1>4
<1> HIDE DEF now
<1>6. (now - (At(polls, k) % Wrap)) % Wrap = now - At(polls, k)
  BY <1>1, <1>3, <1>4, <1>5, ElapsedIs
<1> QED
  BY <1>6 DEF Elapsed, now

\* A poll keeps the invariant.
LEMMA PollKeeps ==
  ASSUME ButtonInv, NEW level \in BOOLEAN, NEW lag \in Lags, Poll(level, lag)
  PROVE  ButtonInv'
<1> DEFINE m == Len(polls')
           n == Len(polls)
           now == Clock + lag
<1>1. /\ Grows(polls, polls') /\ At(polls', m) = now /\ now \in Nat
      /\ Pressed(polls', m) <=> level
  BY PollGrows
<1>2. /\ gestures = Defined(polls) /\ StateFollows /\ second_tap \in BOOLEAN
      /\ level => WhilePressed(now)
      /\ ~level => WhileReleased(now)
  BY DEF ButtonInv, Poll
<1>3. polls' \in Recordings /\ Later(polls')
  BY <1>1 DEF Grows
<1> SUFFICES /\ second_tap' \in BOOLEAN
             /\ gestures' = Defined(polls')
             /\ VeryLongSeen' \/ StateFollows'
  BY <1>3 DEF ButtonInv
<1> HIDE DEF m, n, now
<1>4. CASE state = "idle"
  <2>1. IsIdle(polls)
    BY <1>2, <1>4 DEF StateFollows
  <2>2. /\ Defined(polls') = Defined(polls)
        /\ Pressed(polls', m) => IsPressed(polls', now % Wrap, FALSE)
        /\ ~Pressed(polls', m) => IsIdle(polls')
    BY <1>1, <2>1, FromIdle DEF m
  <2>3. CASE level
    <3>1. Press(now)
      BY <1>2, <1>4, <2>3
         DEF WhilePressed, HeldVeryLong, StillHeld, PressSecond, PressLate
    <3>2. /\ state' = "pressed" /\ anchor' = now % Wrap /\ second_tap' = FALSE
          /\ gestures' = gestures
      BY <3>1 DEF Press, Becomes, Nothing
    <3>3. IsPressed(polls', anchor', second_tap')
      BY <1>1, <2>2, <2>3, <3>2
    <3> QED
      BY <1>2, <2>2, <3>2, <3>3 DEF StateFollows
  <2>4. CASE ~level
    <3>1. StaysIdle
      BY <1>2, <1>4, <2>4
         DEF WhileReleased, HeldVeryLong, ReleaseLong, ReleaseSecond, ReleaseFirst, Tapped,
             GapOver, StaysWaiting
    <3>2. state' = "idle" /\ second_tap' = second_tap /\ gestures' = gestures
      BY <3>1 DEF StaysIdle, Nothing
    <3> QED
      BY <1>1, <1>2, <2>2, <2>4, <3>2 DEF StateFollows
  <2> QED
    BY <2>3, <2>4
<1>5. CASE state = "pressed"
  <2>1. PICK j : /\ DownSince(polls, j) /\ At(polls, n) - At(polls, j) < VeryLong
                 /\ anchor = At(polls, j) % Wrap /\ (second_tap <=> IsSecond(polls, j))
    BY <1>2, <1>5 DEF StateFollows, IsPressed, n
  <2> DEFINE d == At(polls', m) - At(polls, j)
  <2>2. j \in 1 .. n /\ At(polls, j) \in Nat /\ At(polls, n) \in Nat
    <3>1. j \in 1 .. n /\ n \in Nat
      BY <1>1, <2>1 DEF DownSince, Grows, Extends, n
    <3>2. n \in 1 .. n
      BY <3>1
    <3> QED
      BY <1>1, <3>1, <3>2, GrowsTimes DEF n
  <2>3. /\ VeryLong \in Nat /\ VeryLong + lag < Wrap /\ Long \in Nat /\ Long < VeryLong
    BY ButtonAssumption
  <2>4. Elapsed(now) = d /\ d \in Nat
    <3>1. At(polls, n) - At(polls, j) <= VeryLong
      BY <2>1, <2>2, <2>3
    <3>2. Elapsed(now) = now - At(polls, j)
      BY <2>1, <2>2, <2>3, <3>1, ElapsedSince DEF n, now
    <3>3. At(polls, j) < At(polls', m)
      BY <1>1, <2>2, GrowsTimes DEF n, m
    <3> QED
      BY <1>1, <2>2, <3>2, <3>3
  <2>5. /\ d >= VeryLong => Adds(polls, polls', <<At(polls', m), "very_long">>)
        /\ Pressed(polls', m) /\ d < VeryLong =>
               /\ Defined(polls') = Defined(polls)
               /\ \A a, s : /\ a = At(polls, j) % Wrap /\ (s <=> IsSecond(polls, j))
                            => IsPressed(polls', a, s)
        /\ ~Pressed(polls', m) /\ d \in Long .. VeryLong - 1 =>
               Adds(polls, polls', <<At(polls', m), "long">>) /\ IsIdle(polls')
        /\ ~Pressed(polls', m) /\ d < Long /\ IsSecond(polls, j) =>
               Adds(polls, polls', <<At(polls', m), "double">>) /\ IsIdle(polls')
        /\ ~Pressed(polls', m) /\ d < Long /\ ~IsSecond(polls, j) =>
               Defined(polls') = Defined(polls) /\ IsWaiting(polls', At(polls', m) % Wrap)
    BY <1>1, <2>1, FromPressed, Zenon DEF m, n
  <2> HIDE DEF d
  <2>6. /\ level => HeldVeryLong(now) \/ StillHeld(now)
        /\ ~level => \/ HeldVeryLong(now) \/ ReleaseLong(now)
                     \/ ReleaseSecond(now) \/ ReleaseFirst(now)
    BY <1>2, <1>5 DEF WhilePressed, WhileReleased, Press, PressSecond, PressLate, StaysIdle,
                      GapOver, StaysWaiting
  <2>7. CASE HeldVeryLong(now)
    <3>1. /\ d >= VeryLong /\ second_tap' = FALSE
          /\ gestures' = gestures \cup {<<now, "very_long">>}
      BY <2>4, <2>7 DEF HeldVeryLong, Becomes, Returns
    <3>2. Defined(polls') = Defined(polls) \cup {<<now, "very_long">>}
      BY <1>1, <2>5, <3>1 DEF Adds
    <3>3. VeryLongSeen'
      <4>1. <<now, "very_long">> \in gestures' /\ <<now, "very_long">>[2] = "very_long"
        BY <3>1
      <4> QED
        BY <4>1, Zenon DEF VeryLongSeen
    <3> QED
      BY <1>2, <3>1, <3>2, <3>3
  <2>8. CASE level /\ StillHeld(now)
    <3>1. /\ d < VeryLong /\ state' = "pressed" /\ anchor' = anchor
          /\ second_tap' = second_tap /\ gestures' = gestures
      BY <2>4, <2>8 DEF StillHeld, Nothing
    <3>2. Defined(polls') = Defined(polls) /\ IsPressed(polls', anchor', second_tap')
      BY <1>1, <2>1, <2>5, <2>8, <3>1
    <3> QED
      BY <1>2, <3>1, <3>2 DEF StateFollows
  <2>9. CASE ~level /\ ReleaseLong(now)
    <3>1. /\ d \in Long .. VeryLong - 1 /\ state' = "idle" /\ second_tap' = FALSE
          /\ gestures' = gestures \cup {<<now, "long">>}
      BY <2>4, <2>9 DEF ReleaseLong, Becomes, Returns
    <3>2. Defined(polls') = Defined(polls) \cup {<<now, "long">>} /\ IsIdle(polls')
      BY <1>1, <2>5, <2>9, <3>1 DEF Adds
    <3> QED
      BY <1>2, <3>1, <3>2 DEF StateFollows
  <2>10. CASE ~level /\ ReleaseSecond(now)
    <3>1. /\ d < Long /\ second_tap /\ state' = "idle" /\ second_tap' = FALSE
          /\ gestures' = gestures \cup {<<now, "double">>}
      BY <2>4, <2>10 DEF ReleaseSecond, Tapped, Becomes, Returns
    <3>2. Defined(polls') = Defined(polls) \cup {<<now, "double">>} /\ IsIdle(polls')
      BY <1>1, <2>1, <2>5, <2>10, <3>1 DEF Adds
    <3> QED
      BY <1>2, <3>1, <3>2 DEF StateFollows
  <2>11. CASE ~level /\ ReleaseFirst(now)
    <3>1. /\ d < Long /\ ~second_tap /\ state' = "wait_double" /\ second_tap' = FALSE
          /\ gestures' = gestures /\ anchor' = now % Wrap
      BY <2>4, <2>11 DEF ReleaseFirst, Tapped, Becomes, Nothing
    <3>2. Defined(polls') = Defined(polls) /\ IsWaiting(polls', anchor')
      BY <1>1, <2>1, <2>5, <2>11, <3>1
    <3> QED
      BY <1>2, <3>1, <3>2 DEF StateFollows
  <2> QED
    BY <2>6, <2>7, <2>8, <2>9, <2>10, <2>11
<1>6. CASE state = "wait_double"
  <2>1. PICK h : /\ Single(polls, h) /\ At(polls, n) - At(polls, h[2]) <= DoubleGap
                 /\ anchor = At(polls, h[2]) % Wrap
    BY <1>2, <1>6 DEF StateFollows, IsWaiting, n
  <2> DEFINE d == At(polls', m) - At(polls, h[2])
  <2>2. h[2] \in 1 .. n /\ At(polls, h[2]) \in Nat /\ At(polls, h[2]) < At(polls', m)
    <3>1. h[2] \in 1 .. Len(polls)
      BY <1>1, <2>1, UpUnique, GrowsTimes
    <3> QED
      BY <1>1, <3>1, GrowsTimes DEF n, m
  <2>3. DoubleGap \in Nat /\ DoubleGap + lag < Wrap
    BY ButtonAssumption
  <2>4. d \in Nat /\ (InGap(now) <=> d <= DoubleGap) /\ (~InGap(now) <=> d > DoubleGap)
    <3>1. Elapsed(now) = now - At(polls, h[2])
      BY <2>1, <2>2, <2>3, ElapsedSince DEF n, now
    <3> QED
      BY <1>1, <2>2, <2>3, <3>1 DEF InGap
  <2>5. /\ d <= DoubleGap =>
               /\ Defined(polls') = Defined(polls)
               /\ Pressed(polls', m) => IsPressed(polls', At(polls', m) % Wrap, TRUE)
               /\ ~Pressed(polls', m) =>
                      \A a : a = At(polls, h[2]) % Wrap => IsWaiting(polls', a)
        /\ d > DoubleGap =>
               /\ Adds(polls, polls', <<At(polls', m), "short">>)
               /\ Pressed(polls', m) => IsPressed(polls', At(polls', m) % Wrap, FALSE)
               /\ ~Pressed(polls', m) => IsIdle(polls')
    BY <1>1, <2>1, FromWaiting, Zenon DEF m, n
  <2> HIDE DEF d
  <2>6. /\ level => PressSecond(now) \/ PressLate(now)
        /\ ~level => GapOver(now) \/ StaysWaiting(now)
    BY <1>2, <1>6 DEF WhilePressed, WhileReleased, Press, HeldVeryLong, StillHeld, StaysIdle,
                      ReleaseLong, ReleaseSecond, ReleaseFirst, Tapped
  <2>7. CASE level /\ PressSecond(now)
    <3>1. /\ d <= DoubleGap /\ state' = "pressed" /\ anchor' = now % Wrap
          /\ second_tap' = TRUE /\ gestures' = gestures
      BY <2>4, <2>7 DEF PressSecond, Becomes, Nothing
    <3>2. Defined(polls') = Defined(polls) /\ IsPressed(polls', anchor', second_tap')
      BY <1>1, <2>5, <2>7, <3>1
    <3> QED
      BY <1>2, <3>1, <3>2 DEF StateFollows
  <2>8. CASE level /\ PressLate(now)
    <3>1. /\ d > DoubleGap /\ state' = "pressed" /\ anchor' = now % Wrap
          /\ second_tap' = FALSE /\ gestures' = gestures \cup {<<now, "short">>}
      BY <2>4, <2>8 DEF PressLate, Becomes, Returns
    <3>2. /\ Defined(polls') = Defined(polls) \cup {<<now, "short">>}
          /\ IsPressed(polls', anchor', second_tap')
      BY <1>1, <2>5, <2>8, <3>1 DEF Adds
    <3> QED
      BY <1>2, <3>1, <3>2 DEF StateFollows
  <2>9. CASE ~level /\ GapOver(now)
    <3>1. /\ d > DoubleGap /\ state' = "idle" /\ second_tap' = FALSE
          /\ gestures' = gestures \cup {<<now, "short">>}
      BY <2>4, <2>9 DEF GapOver, Becomes, Returns
    <3>2. Defined(polls') = Defined(polls) \cup {<<now, "short">>} /\ IsIdle(polls')
      BY <1>1, <2>5, <2>9, <3>1 DEF Adds
    <3> QED
      BY <1>2, <3>1, <3>2 DEF StateFollows
  <2>10. CASE ~level /\ StaysWaiting(now)
    <3>1. /\ d <= DoubleGap /\ state' = "wait_double" /\ anchor' = anchor
          /\ second_tap' = second_tap /\ gestures' = gestures
      BY <2>4, <2>10 DEF StaysWaiting, Nothing
    <3>2. Defined(polls') = Defined(polls) /\ IsWaiting(polls', anchor')
      BY <1>1, <2>1, <2>5, <2>10, <3>1
    <3> QED
      BY <1>2, <3>1, <3>2 DEF StateFollows
  <2> QED
    BY <2>6, <2>7, <2>8, <2>9, <2>10
<1> QED
  BY <1>2, <1>4, <1>5, <1>6 DEF StateFollows

\* The gestures button_classifier_event() returns are the ones button.h defines, at the
\* polls it defines, for any thresholds, any lateness of the polls, and over any number
\* of wraps of the clock.
THEOREM GesturesCorrect == ButtonSpec => []GesturesAsDefined
<1>1. ButtonInv /\ [ButtonNext]_buttonVars => ButtonInv'
  <2> SUFFICES ASSUME ButtonInv, [ButtonNext]_buttonVars
               PROVE  ButtonInv'
    OBVIOUS
  <2>1. CASE \E level \in BOOLEAN, lag \in Lags : Poll(level, lag)
    BY <2>1, PollKeeps
  <2>2. CASE DeepSleep
    BY <2>2 DEF DeepSleep, ButtonInv
  <2>3. CASE Wake
    BY <2>3, WakeKeeps
  <2>4. CASE UNCHANGED buttonVars
    BY <2>4 DEF ButtonInv, StateFollows, VeryLongSeen, buttonVars
  <2> QED
    BY <2>1, <2>2, <2>3, <2>4 DEF ButtonNext
<1>2. ButtonInv => GesturesAsDefined
  BY DEF ButtonInv, GesturesAsDefined
<1> QED
  BY <1>1, <1>2, ButtonInitInv, PTL DEF ButtonSpec
=============================================================================
