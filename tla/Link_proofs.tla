----------------------------- MODULE Link_proofs -----------------------------
(***************************************************************************)
(* The two ends of the phone's link to the server: the connections that    *)
(* carry one session there (GatewayConnection) and the service that makes  *)
(* them (RelayService).                                                    *)
(*                                                                         *)
(* GatewayInv is the server's inductive invariant.  HelloLeads follows a   *)
(* hello through the queue; Finishing says that a session still open has a *)
(* connection whose end will close it; SoleCarrier says that, until a      *)
(* second hello overlaps, one connection carries the session and counts    *)
(* past every stored event, which rests on Contiguous: the events are      *)
(* numbered without a gap, so that the largest number is the next one.     *)
(*                                                                         *)
(* Alone is the service's.  As long as no start and no retry has crossed a *)
(* softDrop(), its fields name every link that lives, and each of the      *)
(* three actors works by itself and leaves nothing alive for the next one. *)
(***************************************************************************)
EXTENDS GatewayConnection, RelayService, SequenceTheorems, FiniteSetTheorems, TLAPS

-----------------------------------------------------------------------------
\* Types the inductive argument needs besides GatewayTypeOK.
GatewayTyped ==
    /\ relayConn \in 0 .. opened /\ opened \in 0 .. MaxConns
    /\ audioSent \in 0 .. MaxAudio
    /\ spoken \in {"nothing", "hello", "bye"}
    /\ handler \in [Conns -> {"unused", "open", "stopping", "closed"}]
    /\ inbox \in [Conns -> Seq(Messages)]
    /\ \A c \in Conns : Len(inbox[c]) <= MaxQueue
    /\ working \in [Conns -> Messages \cup {Idle}]
    /\ bound \in [Conns -> BOOLEAN]
    /\ coalescing \in [Conns -> Seq(Audio)]

\* A connection's messages are in the order in which the relay says them: a hello, audio,
\* and a bye after which nothing comes.
InOrder(c) ==
    /\ \A i \in 1 .. Len(inbox[c]) :
           /\ inbox[c][i] # Hello =>
                  bound[c] \/ working[c] = Hello \/ (i > 1 /\ inbox[c][1] = Hello)
           /\ inbox[c][i] = Bye => i = Len(inbox[c])
    /\ working[c] \notin {Idle, Hello} => bound[c]
    /\ working[c] = Bye => inbox[c] = <<>>
    /\ c > opened \/ (relayConn = c /\ spoken = "nothing") =>
           inbox[c] = <<>> /\ working[c] = Idle
    /\ relayConn = c /\ spoken = "hello" =>
           /\ \A i \in 1 .. Len(inbox[c]) : inbox[c][i] # Bye
           /\ working[c] # Bye
           /\ bound[c] \/ working[c] = Hello \/ (inbox[c] # <<>> /\ inbox[c][1] = Hello)

HelloLeads == ~overflowed => unheard = {} /\ \A c \in Conns : InOrder(c)

\* A worker at a message has its handler, and a session that is not finished has a
\* connection that is going to finish it.
Finishing ==
    ~straggled =>
        /\ \A c \in Conns : handler[c] \in {"unused", "closed"} => working[c] = Idle
        /\ active \/ unfinalized # {} =>
               \E c \in Conns : bound[c] /\ handler[c] \in {"open", "stopping"}

\* The stored events are numbered without a gap, and no counter is ahead of them.
Contiguous ==
    \E k \in Nat : DOMAIN eventStore = 0 .. k - 1 /\ eventSeq \in [Conns -> 0 .. k]

\* One connection carries the session, it is active, and its counter is past every
\* stored event.
SoleCarrier ==
    ~overlapped /\ ~straggled =>
        /\ refused = {}
        /\ \A c, d \in Conns : Carrying(c) /\ Carrying(d) => c = d
        /\ \A c \in Conns : Carrying(c) =>
               active /\ \A n \in DOMAIN eventStore : n < eventSeq[c]

\* A connection that is not opened yet has no handler and no work.
Unopened == \A c \in Conns : c > opened => handler[c] = "unused" /\ working[c] = Idle

\* The shared state: the numbered events, and which of them await a finalize.
StoredInOrder == Contiguous /\ active \in BOOLEAN /\ unfinalized \subseteq DOMAIN eventStore

-----------------------------------------------------------------------------
\* The four kinds of message differ.
LEMMA MessageKinds ==
    /\ Hello # Bye /\ Hello # Idle /\ Bye # Idle
    /\ Hello[1] # "audio" /\ Bye[1] # "audio" /\ Idle[1] # "audio"
    /\ Hello \in Messages /\ Bye \in Messages
    /\ \A n \in Audio : Packet(n) \in Messages /\ Packet(n)[1] = "audio" /\ Packet(n)[2] = n
    /\ \A m \in Messages : m[1] = "audio" => m[2] \in Audio
    /\ \A m \in Messages : m \in {Hello, Bye} \/ m[1] = "audio"
    /\ \A m \in Messages : m # Idle
  BY DEF Hello, Bye, Idle, Packet, Messages

\* A queue is empty when its length is zero; taking its head shifts the rest.
LEMMA QueueFacts ==
  ASSUME NEW S, NEW q \in Seq(S)
  PROVE  /\ Len(q) \in Nat /\ (Len(q) = 0 => q = <<>>) /\ (Len(q) # 0 => q # <<>>)
         /\ q # <<>> => /\ q[1] \in S /\ Head(q) = q[1] /\ Tail(q) \in Seq(S)
                        /\ Len(Tail(q)) = Len(q) - 1
                        /\ \A i \in 1 .. Len(q) - 1 : Tail(q)[i] = q[i + 1]
  OBVIOUS

\* A message handed to the queue is its last one; without an overflow nothing else changes.
LEMMA EnqueuedFacts ==
  ASSUME NEW S, NEW q \in Seq(S), NEW m \in S, Len(q) <= MaxQueue
  PROVE  /\ Enqueued(q, m) \in Seq(S) /\ Len(Enqueued(q, m)) <= MaxQueue
         /\ Len(q) # MaxQueue => Enqueued(q, m) = Append(q, m)
<1> USE GatewayAssumption DEF Enqueued
<1>1. CASE Len(q) = MaxQueue
  <2>1. q # <<>> /\ Tail(q) \in Seq(S) /\ Len(Tail(q)) = Len(q) - 1
    BY <1>1
  <2> QED
    BY <1>1, <2>1
<1>2. CASE Len(q) # MaxQueue
  BY <1>2
<1> QED
  BY <1>1, <1>2

\* Queues, workers and cores keep their types.
LEMMA GatewayTypedNext == GatewayTyped /\ [GatewayNext]_gatewayVars => GatewayTyped'
<1> SUFFICES ASSUME GatewayTyped, [GatewayNext]_gatewayVars
             PROVE  GatewayTyped'
  OBVIOUS
<1> USE GatewayAssumption DEF GatewayTyped, relayVars, coreVars, sharedVars, gatewayHistory
<1>1. CASE Connect
  <2>1. opened' \in 0 .. MaxConns /\ relayConn' \in 0 .. opened'
    BY <1>1 DEF Connect
  <2>2. handler' \in [Conns -> {"unused", "open", "stopping", "closed"}]
    BY <1>1 DEF Connect
  <2> QED
    BY <1>1, <2>1, <2>2 DEF Connect
<1>2. CASE SendHello
  <2> DEFINE c == relayConn
  <2>1. c \in Conns /\ Hello \in Messages
    BY <1>2, MessageKinds DEF SendHello, Conns, Audio
  <2>2. inbox' = [inbox EXCEPT ![c] = Enqueued(inbox[c], Hello)]
    BY <1>2 DEF SendHello, Receives
  <2>3. Enqueued(inbox[c], Hello) \in Seq(Messages)
        /\ Len(Enqueued(inbox[c], Hello)) <= MaxQueue
    BY <2>1, EnqueuedFacts
  <2>4. inbox' \in [Conns -> Seq(Messages)] /\ \A d \in Conns : Len(inbox'[d]) <= MaxQueue
    BY <2>1, <2>2, <2>3
  <2>5. audioSent' \in 0 .. MaxAudio /\ spoken' \in {"nothing", "hello", "bye"}
    BY <1>2 DEF SendHello
  <2> QED
    BY <1>2, <2>4, <2>5 DEF SendHello, Receives
<1>3. CASE SendAudio
  <2> DEFINE c == relayConn
  <2>1. c \in Conns /\ Packet(audioSent + 1) \in Messages
    BY <1>3, MessageKinds DEF SendAudio, Conns, Audio
  <2>2. inbox' = [inbox EXCEPT ![c] = Enqueued(inbox[c], Packet(audioSent + 1))]
    BY <1>3 DEF SendAudio, Receives
  <2>3. Enqueued(inbox[c], Packet(audioSent + 1)) \in Seq(Messages)
        /\ Len(Enqueued(inbox[c], Packet(audioSent + 1))) <= MaxQueue
    BY <2>1, EnqueuedFacts
  <2>4. inbox' \in [Conns -> Seq(Messages)] /\ \A d \in Conns : Len(inbox'[d]) <= MaxQueue
    BY <2>1, <2>2, <2>3
  <2>5. audioSent' \in 0 .. MaxAudio /\ spoken' \in {"nothing", "hello", "bye"}
    BY <1>3 DEF SendAudio
  <2> QED
    BY <1>3, <2>4, <2>5 DEF SendAudio, Receives
<1>4. CASE SendBye
  <2> DEFINE c == relayConn
  <2>1. c \in Conns /\ Bye \in Messages
    BY <1>4, MessageKinds DEF SendBye, Conns, Audio
  <2>2. inbox' = [inbox EXCEPT ![c] = Enqueued(inbox[c], Bye)]
    BY <1>4 DEF SendBye, Receives
  <2>3. Enqueued(inbox[c], Bye) \in Seq(Messages)
        /\ Len(Enqueued(inbox[c], Bye)) <= MaxQueue
    BY <2>1, EnqueuedFacts
  <2>4. inbox' \in [Conns -> Seq(Messages)] /\ \A d \in Conns : Len(inbox'[d]) <= MaxQueue
    BY <2>1, <2>2, <2>3
  <2>5. audioSent' \in 0 .. MaxAudio /\ spoken' \in {"nothing", "hello", "bye"}
    BY <1>4 DEF SendBye
  <2> QED
    BY <1>4, <2>4, <2>5 DEF SendBye, Receives
<1>5. CASE RelayDrops
  BY <1>5 DEF RelayDrops
<1>6. ASSUME NEW c \in Conns, Stops(c)
      PROVE  GatewayTyped'
  BY <1>6 DEF Stops
<1>7. ASSUME NEW c \in Conns, Takes(c)
      PROVE  GatewayTyped'
  <2>1. Head(inbox[c]) \in Messages /\ Tail(inbox[c]) \in Seq(Messages)
        /\ Len(Tail(inbox[c])) <= MaxQueue
    BY <1>7 DEF Takes
  <2>2. inbox' \in [Conns -> Seq(Messages)] /\ \A d \in Conns : Len(inbox'[d]) <= MaxQueue
    BY <1>7, <2>1 DEF Takes
  <2>3. working' \in [Conns -> Messages \cup {Idle}]
    BY <1>7, <2>1 DEF Takes
  <2> QED
    BY <1>7, <2>2, <2>3 DEF Takes
<1>8. ASSUME NEW c \in Conns, HandleHello(c)
      PROVE  GatewayTyped'
  <2>1. working' \in [Conns -> Messages \cup {Idle}]
    BY <1>8 DEF HandleHello, Done
  <2>2. bound' \in [Conns -> BOOLEAN] /\ coalescing' \in [Conns -> Seq(Audio)]
    BY <1>8 DEF HandleHello
  <2> QED
    BY <1>8, <2>1, <2>2 DEF HandleHello
<1>9. ASSUME NEW c \in Conns, NEW flushed \in BOOLEAN, HandleAudio(c, flushed)
      PROVE  GatewayTyped'
  <2>1. working' \in [Conns -> Messages \cup {Idle}]
    BY <1>9 DEF HandleAudio, Done
  <2>2. working[c][2] \in Audio
    BY <1>9, MessageKinds DEF HandleAudio
  <2>3. coalescing' \in [Conns -> Seq(Audio)]
    <3>1. Append(coalescing[c], working[c][2]) \in Seq(Audio) /\ <<>> \in Seq(Audio)
      BY <2>2
    <3> QED
      BY <1>9, <3>1 DEF HandleAudio
  <2> QED
    BY <1>9, <2>1, <2>3 DEF HandleAudio
<1>10. ASSUME NEW c \in Conns, AudioBeforeHello(c)
       PROVE  GatewayTyped'
  BY <1>10 DEF AudioBeforeHello, Done
<1>11. ASSUME NEW c \in Conns, HandleBye(c)
       PROVE  GatewayTyped'
  <2>1. working' \in [Conns -> Messages \cup {Idle}]
    BY <1>11 DEF HandleBye, Done
  <2>2. bound' \in [Conns -> BOOLEAN] /\ coalescing' \in [Conns -> Seq(Audio)]
    BY <1>11 DEF HandleBye
  <2> QED
    BY <1>11, <2>1, <2>2 DEF HandleBye
<1>12. ASSUME NEW c \in Conns, ByeBeforeHello(c)
       PROVE  GatewayTyped'
  BY <1>12 DEF ByeBeforeHello, Done
<1>13. ASSUME NEW c \in Conns, OnDisconnect(c)
       PROVE  GatewayTyped'
  <2>1. handler' \in [Conns -> {"unused", "open", "stopping", "closed"}]
    BY <1>13 DEF OnDisconnect
  <2>2. coalescing' \in [Conns -> Seq(Audio)]
    <3>1. CASE bound[c]
      <4>1. coalescing' = [coalescing EXCEPT ![c] = <<>>]
        BY <1>13, <3>1 DEF OnDisconnect, TearsDown
      <4>2. <<>> \in Seq(Audio)
        OBVIOUS
      <4> QED
        BY <4>1, <4>2
    <3>2. CASE ~bound[c]
      BY <1>13, <3>2 DEF OnDisconnect, TearsDown
    <3> QED
      BY <3>1, <3>2
  <2> QED
    BY <1>13, <2>1, <2>2 DEF OnDisconnect
<1>14. CASE UNCHANGED gatewayVars
  BY <1>14 DEF gatewayVars
<1> QED
  BY <1>1, <1>2, <1>3, <1>4, <1>5, <1>6, <1>7, <1>8, <1>9, <1>10, <1>11, <1>12, <1>13,
     <1>14 DEF GatewayNext, RelayNext, Serves, Works

\* Who leaves the session last finishes it: a bye, or the teardown that always comes.
LEMMA FinishingNext ==
    GatewayTyped /\ Finishing /\ [GatewayNext]_gatewayVars => Finishing'
<1> SUFFICES ASSUME GatewayTyped, Finishing, [GatewayNext]_gatewayVars
             PROVE  Finishing'
  OBVIOUS
<1> USE DEF GatewayTyped, Finishing, relayVars, coreVars, sharedVars, gatewayHistory
<1>1. CASE Connect
  BY <1>1 DEF Connect
<1>2. CASE SendHello
  BY <1>2 DEF SendHello, Receives
<1>3. CASE SendAudio
  BY <1>3 DEF SendAudio, Receives
<1>4. CASE SendBye
  BY <1>4 DEF SendBye, Receives
<1>5. CASE RelayDrops
  BY <1>5 DEF RelayDrops
<1>6. ASSUME NEW c \in Conns, Stops(c)
      PROVE  Finishing'
  BY <1>6 DEF Stops
<1>7. ASSUME NEW c \in Conns, Takes(c)
      PROVE  Finishing'
  BY <1>7, MessageKinds DEF Takes
<1>8. ASSUME NEW c \in Conns, HandleHello(c)
      PROVE  Finishing'
  BY <1>8, MessageKinds DEF HandleHello, Done, MarksActive
<1>9. ASSUME NEW c \in Conns, NEW flushed \in BOOLEAN, HandleAudio(c, flushed)
      PROVE  Finishing'
  BY <1>9, MessageKinds DEF HandleAudio, Done
<1>10. ASSUME NEW c \in Conns, AudioBeforeHello(c)
       PROVE  Finishing'
  BY <1>10 DEF AudioBeforeHello, Done
<1>11. ASSUME NEW c \in Conns, HandleBye(c)
       PROVE  Finishing'
  BY <1>11 DEF HandleBye, Done, Closes
<1>12. ASSUME NEW c \in Conns, ByeBeforeHello(c)
       PROVE  Finishing'
  BY <1>12 DEF ByeBeforeHello, Done
<1>13. ASSUME NEW c \in Conns, OnDisconnect(c)
       PROVE  Finishing'
  BY <1>13 DEF OnDisconnect, TearsDown, Closes
<1>14. CASE UNCHANGED gatewayVars
  BY <1>14 DEF gatewayVars
<1> QED
  BY <1>1, <1>2, <1>3, <1>4, <1>5, <1>6, <1>7, <1>8, <1>9, <1>10, <1>11, <1>12, <1>13,
     <1>14 DEF GatewayNext, RelayNext, Serves, Works

\* The queue keeps the order, so that no audio is taken before the hello.
LEMMA HelloLeadsNext ==
    GatewayTyped /\ HelloLeads /\ [GatewayNext]_gatewayVars => HelloLeads'
<1> SUFFICES ASSUME GatewayTyped, HelloLeads, [GatewayNext]_gatewayVars
             PROVE  HelloLeads'
  OBVIOUS
<1> USE DEF relayVars, coreVars, sharedVars, gatewayHistory
<1>1. CASE Connect
  <2> SUFFICES ASSUME ~overflowed'
               PROVE  unheard' = {} /\ \A d \in Conns : InOrder(d)'
    BY DEF HelloLeads
  <2>0. ~overflowed /\ unheard' = {}
    BY <1>1 DEF HelloLeads, Connect
  <2> SUFFICES ASSUME NEW d \in Conns
               PROVE  InOrder(d)'
    BY <2>0
  <2>1. InOrder(d)
    BY <2>0 DEF HelloLeads
  <2> QED
    BY <1>1, <2>1 DEF Connect, InOrder, GatewayTyped, Conns
<1>2. CASE SendHello
  <2> DEFINE r == relayConn
             q == inbox[r]
  <2> SUFFICES ASSUME ~overflowed'
               PROVE  HelloLeads'
    BY DEF HelloLeads
  <2>1. r \in Conns /\ Hello \in Messages /\ ~overflowed /\ Len(q) # MaxQueue
    <3>1. r \in Conns
      BY <1>2, GatewayAssumption DEF SendHello, GatewayTyped, Conns
    <3>2. Hello \in Messages
      BY <1>2, GatewayAssumption, MessageKinds DEF SendHello, GatewayTyped, Audio
    <3>3. ~overflowed /\ Len(q) # MaxQueue
      BY <1>2 DEF SendHello, Receives
    <3> QED
      BY <3>1, <3>2, <3>3
  <2>2. /\ inbox' = [inbox EXCEPT ![r] = Append(q, Hello)]
        /\ UNCHANGED <<relayConn, opened, working, bound, unheard>>
    BY <1>2, <2>1, EnqueuedFacts DEF SendHello, Receives, GatewayTyped
  <2>3. inbox'[r] = Append(q, Hello) /\ Len(inbox'[r]) = Len(q) + 1
        /\ inbox'[r][Len(q) + 1] = Hello
        /\ (\A i \in 1 .. Len(q) : inbox'[r][i] = q[i]) /\ Len(q) \in Nat
    BY <2>1, <2>2 DEF GatewayTyped
  <2>4. InOrder(r)
    BY <2>1 DEF HelloLeads
  <2>5. InOrder(r)'
    <3>1. spoken = "nothing" /\ spoken' = "hello" /\ r # 0
      BY <1>2 DEF SendHello
    <3>2. q = <<>> /\ working[r] = Idle
      BY <2>4, <3>1 DEF InOrder
    <3>3. inbox'[r] = <<Hello>>
      BY <2>3, <3>2
    <3>4. Len(inbox'[r]) = 1 /\ inbox'[r][1] = Hello /\ inbox'[r] # <<>>
          /\ working'[r] = Idle
      BY <2>2, <3>2, <3>3
    <3>5. ~(r > opened)
      BY GatewayAssumption DEF GatewayTyped
    <3> QED
      BY <2>2, <3>1, <3>4, <3>5, MessageKinds DEF InOrder
  <2>6. ASSUME NEW d \in Conns, d # r
        PROVE  InOrder(d)'
    <3>1. InOrder(d) /\ inbox'[d] = inbox[d]
      BY <2>1, <2>2, <2>6 DEF HelloLeads, GatewayTyped
    <3> QED
      BY <1>2, <2>2, <2>6, <3>1 DEF SendHello, Receives, InOrder
  <2> QED
    BY <2>1, <2>2, <2>5, <2>6 DEF HelloLeads
<1>3. CASE SendAudio
  <2> DEFINE r == relayConn
             q == inbox[r]
  <2> SUFFICES ASSUME ~overflowed'
               PROVE  HelloLeads'
    BY DEF HelloLeads
  <2>1. r \in Conns /\ Packet(audioSent + 1) \in Messages /\ ~overflowed
        /\ Len(q) # MaxQueue
    <3>1. r \in Conns
      BY <1>3, GatewayAssumption DEF SendAudio, GatewayTyped, Conns
    <3>2. Packet(audioSent + 1) \in Messages
      <4>1. audioSent + 1 \in Audio
        BY <1>3, GatewayAssumption DEF SendAudio, GatewayTyped, Audio
      <4> QED
        BY <4>1, MessageKinds
    <3>3. ~overflowed /\ Len(q) # MaxQueue
      BY <1>3 DEF SendAudio, Receives
    <3> QED
      BY <3>1, <3>2, <3>3
  <2>2. /\ inbox' = [inbox EXCEPT ![r] = Append(q, Packet(audioSent + 1))]
        /\ UNCHANGED <<relayConn, opened, working, bound, unheard>>
    BY <1>3, <2>1, EnqueuedFacts DEF SendAudio, Receives, GatewayTyped
  <2>3. inbox'[r] = Append(q, Packet(audioSent + 1)) /\ Len(inbox'[r]) = Len(q) + 1
        /\ inbox'[r][Len(q) + 1] = Packet(audioSent + 1)
        /\ (\A i \in 1 .. Len(q) : inbox'[r][i] = q[i]) /\ Len(q) \in Nat
    BY <2>1, <2>2 DEF GatewayTyped
  <2>4. InOrder(r)
    BY <2>1 DEF HelloLeads
  <2>5. InOrder(r)'
    <3>1. spoken = "hello" /\ spoken' = "hello" /\ r # 0
      BY <1>3 DEF SendAudio
    <3>2. /\ \A i \in 1 .. Len(q) : q[i] # Bye
          /\ working[r] # Bye
          /\ bound[r] \/ working[r] = Hello \/ (q # <<>> /\ q[1] = Hello)
      BY <2>4, <3>1 DEF InOrder
    <3>3. q # <<>> => Len(q) >= 1
      BY <2>1 DEF GatewayTyped
    <3>4. ~(r > opened)
      BY GatewayAssumption DEF GatewayTyped
    <3>5. inbox'[r] # <<>>
      <4>1. inbox'[r] \in Seq(Messages)
        BY <2>1, <2>3 DEF GatewayTyped
      <4> QED
        BY <2>3, <4>1, QueueFacts
    <3>6. bound[r] \/ working[r] = Hello \/ (Len(q) >= 1 /\ inbox'[r][1] = Hello)
      BY <2>3, <3>2, <3>3
    <3>7. \A i \in 1 .. Len(q) + 1 : inbox'[r][i] # Hello =>
              bound[r] \/ working[r] = Hello \/ (i > 1 /\ inbox'[r][1] = Hello)
      BY <2>3, <2>4, <3>6 DEF InOrder
    <3>8. \A i \in 1 .. Len(q) + 1 : i = Len(q) + 1 \/ inbox'[r][i] # Bye
      BY <2>3, <3>2
    <3>9. working[r] \notin {Idle, Hello} => bound[r]
      BY <2>4 DEF InOrder
    <3>10. inbox'[r][Len(q) + 1] # Bye
      <4>1. audioSent + 1 \in Audio
        BY <1>3, GatewayAssumption DEF SendAudio, GatewayTyped, Audio
      <4>2. Packet(audioSent + 1)[1] = "audio"
        BY <4>1, MessageKinds
      <4> QED
        BY <2>3, <4>2, MessageKinds
    <3>11. \A i \in 1 .. Len(q) + 1 : inbox'[r][i] # Bye
      BY <3>8, <3>10
    <3> QED
      BY <2>2, <2>3, <3>1, <3>2, <3>4, <3>5, <3>6, <3>7, <3>9, <3>11 DEF InOrder
  <2>6. ASSUME NEW d \in Conns, d # r
        PROVE  InOrder(d)'
    <3>1. InOrder(d) /\ inbox'[d] = inbox[d]
      BY <2>1, <2>2, <2>6 DEF HelloLeads, GatewayTyped
    <3> QED
      BY <1>3, <2>2, <2>6, <3>1 DEF SendAudio, Receives, InOrder
  <2> QED
    BY <2>1, <2>2, <2>5, <2>6 DEF HelloLeads
<1>4. CASE SendBye
  <2> DEFINE r == relayConn
             q == inbox[r]
  <2> SUFFICES ASSUME ~overflowed'
               PROVE  HelloLeads'
    BY DEF HelloLeads
  <2>1. r \in Conns /\ Bye \in Messages /\ ~overflowed /\ Len(q) # MaxQueue
    <3>1. r \in Conns
      BY <1>4, GatewayAssumption DEF SendBye, GatewayTyped, Conns
    <3>2. Bye \in Messages
      BY <1>4, GatewayAssumption, MessageKinds DEF SendBye, GatewayTyped, Audio
    <3>3. ~overflowed /\ Len(q) # MaxQueue
      BY <1>4 DEF SendBye, Receives
    <3> QED
      BY <3>1, <3>2, <3>3
  <2>2. /\ inbox' = [inbox EXCEPT ![r] = Append(q, Bye)]
        /\ UNCHANGED <<relayConn, opened, working, bound, unheard>>
    BY <1>4, <2>1, EnqueuedFacts DEF SendBye, Receives, GatewayTyped
  <2>3. inbox'[r] = Append(q, Bye) /\ Len(inbox'[r]) = Len(q) + 1
        /\ inbox'[r][Len(q) + 1] = Bye
        /\ (\A i \in 1 .. Len(q) : inbox'[r][i] = q[i]) /\ Len(q) \in Nat
    BY <2>1, <2>2 DEF GatewayTyped
  <2>4. InOrder(r)
    BY <2>1 DEF HelloLeads
  <2>5. InOrder(r)'
    <3>1. spoken = "hello" /\ spoken' = "bye" /\ r # 0
      BY <1>4 DEF SendBye
    <3>2. /\ \A i \in 1 .. Len(q) : q[i] # Bye
          /\ working[r] # Bye
          /\ bound[r] \/ working[r] = Hello \/ (q # <<>> /\ q[1] = Hello)
      BY <2>4, <3>1 DEF InOrder
    <3>3. q # <<>> => Len(q) >= 1
      BY <2>1 DEF GatewayTyped
    <3>4. ~(r > opened)
      BY GatewayAssumption DEF GatewayTyped
    <3>5. inbox'[r] # <<>>
      <4>1. inbox'[r] \in Seq(Messages)
        BY <2>1, <2>3 DEF GatewayTyped
      <4> QED
        BY <2>3, <4>1, QueueFacts
    <3>6. bound[r] \/ working[r] = Hello \/ (Len(q) >= 1 /\ inbox'[r][1] = Hello)
      BY <2>3, <3>2, <3>3
    <3>7. \A i \in 1 .. Len(q) + 1 : inbox'[r][i] # Hello =>
              bound[r] \/ working[r] = Hello \/ (i > 1 /\ inbox'[r][1] = Hello)
      BY <2>3, <2>4, <3>6 DEF InOrder
    <3>8. \A i \in 1 .. Len(q) + 1 : i = Len(q) + 1 \/ inbox'[r][i] # Bye
      BY <2>3, <3>2
    <3>9. working[r] \notin {Idle, Hello} => bound[r]
      BY <2>4 DEF InOrder
    <3> QED
      BY <2>2, <2>3, <3>1, <3>2, <3>4, <3>5, <3>6, <3>7, <3>8, <3>9 DEF InOrder
  <2>6. ASSUME NEW d \in Conns, d # r
        PROVE  InOrder(d)'
    <3>1. InOrder(d) /\ inbox'[d] = inbox[d]
      BY <2>1, <2>2, <2>6 DEF HelloLeads, GatewayTyped
    <3> QED
      BY <1>4, <2>2, <2>6, <3>1 DEF SendBye, Receives, InOrder
  <2> QED
    BY <2>1, <2>2, <2>5, <2>6 DEF HelloLeads
<1>5. CASE RelayDrops
  BY <1>5 DEF RelayDrops, HelloLeads, InOrder, GatewayTyped, Conns
<1>6. ASSUME NEW c \in Conns, Stops(c)
      PROVE  HelloLeads'
  <2>1. UNCHANGED <<opened, spoken, inbox, working, bound, unheard, overflowed>>
        /\ relayConn' \in {0, relayConn}
    BY <1>6 DEF Stops
  <2>2. \A d \in Conns : d # 0
    BY DEF Conns
  <2> QED
    BY <2>1, <2>2 DEF HelloLeads, InOrder
<1>7. ASSUME NEW c \in Conns, Takes(c)
      PROVE  HelloLeads'
  <2> DEFINE q == inbox[c]
  <2> SUFFICES ASSUME ~overflowed'
               PROVE  unheard' = {} /\ \A d \in Conns : InOrder(d)'
    BY DEF HelloLeads
  <2>0. ~overflowed /\ unheard' = {}
    BY <1>7 DEF HelloLeads, Takes
  <2> SUFFICES ASSUME NEW d \in Conns
               PROVE  InOrder(d)'
    BY <2>0
  <2>1. InOrder(c) /\ InOrder(d)
    BY <2>0 DEF HelloLeads
  <2>2. q \in Seq(Messages) /\ q # <<>> /\ Len(q) \in Nat /\ Len(q) >= 1
    BY <1>7 DEF Takes, GatewayTyped
  <2>3. inbox'[c] = Tail(q) /\ working'[c] = q[1]
    BY <1>7, <2>2 DEF Takes, GatewayTyped
  <2>4. Len(Tail(q)) = Len(q) - 1 /\ \A i \in 1 .. Len(q) - 1 : Tail(q)[i] = q[i + 1]
    BY <2>2
  <2>5. CASE d # c
    <3>1. inbox'[d] = inbox[d] /\ working'[d] = working[d]
      BY <1>7, <2>5 DEF Takes, GatewayTyped
    <3> QED
      BY <1>7, <2>1, <3>1 DEF Takes, InOrder
  <2>6. CASE d = c
    <3>1. UNCHANGED <<relayConn, opened, spoken, bound, unheard>> /\ working[c] = Idle
      BY <1>7 DEF Takes
    <3>2. q[1] # Hello => bound[c]
      BY <2>1, <2>2, <3>1, MessageKinds DEF InOrder
    <3>3. q[1] = Bye => Len(q) = 1
      <4>1. 1 \in 1 .. Len(q)
        BY <2>2
      <4> QED
        BY <2>1, <4>1 DEF InOrder
    <3>4. \A i \in 1 .. Len(q) - 1 : i + 1 \in 1 .. Len(q) /\ (q[i + 1] = Bye => i + 1 = Len(q))
      BY <2>1, <2>2 DEF InOrder
    <3>5. \A i \in 1 .. Len(q) - 1 : q[i + 1] # Hello => bound[c] \/ q[1] = Hello
      BY <3>2
    <3>6. (Len(q) = 1 => Tail(q) = <<>>) /\ (Len(q) # 1 => Tail(q) # <<>>)
      <4>1. Tail(q) \in Seq(Messages)
        BY <2>2
      <4>2. (Len(Tail(q)) = 0 => Tail(q) = <<>>) /\ (Len(Tail(q)) # 0 => Tail(q) # <<>>)
        BY <4>1, QueueFacts
      <4> HIDE DEF q
      <4> QED
        BY <2>2, <2>4, <4>2
    <3>7. relayConn = c /\ spoken = "hello" => \A i \in 1 .. Len(q) : q[i] # Bye
      BY <2>1 DEF InOrder
    <3>8. ~(c > opened) /\ ~(relayConn = c /\ spoken = "nothing")
      BY <2>1, <2>2 DEF InOrder
    <3>9. q[1] \in Messages
      BY <2>2
    <3> DEFINE t == Tail(q)
    <3> HIDE DEF q, t
    <3>10. inbox'[c] = t /\ Len(t) = Len(q) - 1
           /\ \A i \in 1 .. Len(q) - 1 : t[i] = q[i + 1]
      BY <2>3, <2>4 DEF t
    <3>11. \A i \in 1 .. Len(t) : /\ t[i] # Hello => bound[c] \/ q[1] = Hello
                                  /\ t[i] = Bye => i = Len(t)
      BY <2>2, <3>4, <3>5, <3>10
    <3>12. q[1] = Bye => t = <<>>
      BY <3>3, <3>6 DEF t
    <3>13. relayConn = c /\ spoken = "hello" =>
               /\ \A i \in 1 .. Len(t) : t[i] # Bye
               /\ q[1] # Bye /\ (bound[c] \/ q[1] = Hello)
      BY <2>2, <3>2, <3>4, <3>7, <3>10
    <3>14. working'[c] = q[1] /\ q[1] # Idle
      BY <2>3, <3>9, MessageKinds
    <3>15. /\ \A i \in 1 .. Len(inbox'[c]) :
                  /\ inbox'[c][i] # Hello => bound'[c] \/ working'[c] = Hello
                  /\ inbox'[c][i] = Bye => i = Len(inbox'[c])
           /\ working'[c] \notin {Idle, Hello} => bound'[c]
           /\ working'[c] = Bye => inbox'[c] = <<>>
      <4>1. inbox'[c] = t
        BY <3>10
      <4>2. \A i \in 1 .. Len(inbox'[c]) :
                  /\ inbox'[c][i] # Hello => bound'[c] \/ working'[c] = Hello
                  /\ inbox'[c][i] = Bye => i = Len(inbox'[c])
        BY <3>1, <3>11, <3>14, <4>1
      <4>3. working'[c] \notin {Idle, Hello} => bound'[c]
        BY <3>1, <3>2, <3>14
      <4>4. working'[c] = Bye => inbox'[c] = <<>>
        BY <3>12, <3>14, <4>1
      <4> QED
        BY <4>2, <4>3, <4>4
    <3>16. relayConn' = c /\ spoken' = "hello" =>
               /\ \A i \in 1 .. Len(inbox'[c]) : inbox'[c][i] # Bye
               /\ working'[c] # Bye /\ (bound'[c] \/ working'[c] = Hello)
      BY <3>1, <3>10, <3>13, <3>14
    <3>17. ~(c > opened') /\ ~(relayConn' = c /\ spoken' = "nothing")
      BY <3>1, <3>8
    <3> QED
      BY <2>6, <3>15, <3>16, <3>17 DEF InOrder
  <2> QED
    BY <2>5, <2>6
<1>8. ASSUME NEW c \in Conns, HandleHello(c)
      PROVE  HelloLeads'
  <2> SUFFICES ASSUME ~overflowed'
               PROVE  unheard' = {} /\ \A d \in Conns : InOrder(d)'
    BY DEF HelloLeads
  <2>0. ~overflowed /\ unheard' = {}
    BY <1>8 DEF HelloLeads, HandleHello
  <2> SUFFICES ASSUME NEW d \in Conns
               PROVE  InOrder(d)'
    BY <2>0
  <2>1. InOrder(c) /\ InOrder(d)
    BY <2>0 DEF HelloLeads
  <2> QED
    BY <1>8, <2>1, MessageKinds DEF HandleHello, Done, InOrder, GatewayTyped
<1>9. ASSUME NEW c \in Conns, NEW flushed \in BOOLEAN, HandleAudio(c, flushed)
      PROVE  HelloLeads'
  <2> SUFFICES ASSUME ~overflowed'
               PROVE  unheard' = {} /\ \A d \in Conns : InOrder(d)'
    BY DEF HelloLeads
  <2>0. ~overflowed /\ unheard' = {}
    BY <1>9 DEF HelloLeads, HandleAudio
  <2> SUFFICES ASSUME NEW d \in Conns
               PROVE  InOrder(d)'
    BY <2>0
  <2>1. InOrder(c) /\ InOrder(d)
    BY <2>0 DEF HelloLeads
  <2> QED
    BY <1>9, <2>1, MessageKinds DEF HandleAudio, Done, InOrder, GatewayTyped
<1>10. ASSUME NEW c \in Conns, AudioBeforeHello(c)
       PROVE  HelloLeads'
  <2>1. CASE overflowed
    BY <1>10, <2>1 DEF AudioBeforeHello, HelloLeads
  <2>2. CASE ~overflowed
    <3>1. working[c] \notin {Idle, Hello} /\ ~bound[c]
      BY <1>10, MessageKinds DEF AudioBeforeHello
    <3> QED
      BY <2>2, <3>1 DEF HelloLeads, InOrder
  <2> QED
    BY <2>1, <2>2
<1>11. ASSUME NEW c \in Conns, HandleBye(c)
       PROVE  HelloLeads'
  <2> SUFFICES ASSUME ~overflowed'
               PROVE  unheard' = {} /\ \A d \in Conns : InOrder(d)'
    BY DEF HelloLeads
  <2>0. ~overflowed /\ unheard' = {}
    BY <1>11 DEF HelloLeads, HandleBye
  <2> SUFFICES ASSUME NEW d \in Conns
               PROVE  InOrder(d)'
    BY <2>0
  <2>1. InOrder(c) /\ InOrder(d)
    BY <2>0 DEF HelloLeads
  <2> QED
    BY <1>11, <2>1, MessageKinds DEF HandleBye, Done, InOrder, GatewayTyped
<1>12. ASSUME NEW c \in Conns, ByeBeforeHello(c)
       PROVE  HelloLeads'
  <2> SUFFICES ASSUME ~overflowed'
               PROVE  unheard' = {} /\ \A d \in Conns : InOrder(d)'
    BY DEF HelloLeads
  <2>0. ~overflowed /\ unheard' = {}
    BY <1>12 DEF HelloLeads, ByeBeforeHello
  <2> SUFFICES ASSUME NEW d \in Conns
               PROVE  InOrder(d)'
    BY <2>0
  <2>1. InOrder(c) /\ InOrder(d)
    BY <2>0 DEF HelloLeads
  <2> QED
    BY <1>12, <2>1, MessageKinds DEF ByeBeforeHello, InOrder
<1>13. ASSUME NEW c \in Conns, OnDisconnect(c)
       PROVE  HelloLeads'
  <2>1. UNCHANGED <<relayConn, opened, spoken, inbox, working, bound, unheard,
                    overflowed>>
    BY <1>13 DEF OnDisconnect
  <2> QED
    BY <2>1 DEF HelloLeads, InOrder
<1>14. CASE UNCHANGED gatewayVars
  BY <1>14 DEF gatewayVars, HelloLeads, InOrder
<1> QED
  BY <1>1, <1>2, <1>3, <1>4, <1>5, <1>6, <1>7, <1>8, <1>9, <1>10, <1>11, <1>12, <1>13,
     <1>14 DEF GatewayNext, RelayNext, Serves, Works

\* Only opened connections are served.
LEMMA UnopenedNext ==
    GatewayTyped /\ Unopened /\ [GatewayNext]_gatewayVars => Unopened'
<1> SUFFICES ASSUME GatewayTyped, Unopened, [GatewayNext]_gatewayVars
             PROVE  Unopened'
  OBVIOUS
<1> USE GatewayAssumption DEF GatewayTyped, Unopened, Conns, relayVars, coreVars,
           sharedVars, gatewayHistory
<1>1. CASE Connect
  BY <1>1 DEF Connect
<1>2. CASE SendHello
  BY <1>2 DEF SendHello, Receives
<1>3. CASE SendAudio
  BY <1>3 DEF SendAudio, Receives
<1>4. CASE SendBye
  BY <1>4 DEF SendBye, Receives
<1>5. CASE RelayDrops
  BY <1>5 DEF RelayDrops
<1>6. ASSUME NEW c \in Conns, Stops(c)
      PROVE  Unopened'
  BY <1>6 DEF Stops
<1>7. ASSUME NEW c \in Conns, Takes(c)
      PROVE  Unopened'
  BY <1>7 DEF Takes
<1>8. ASSUME NEW c \in Conns, HandleHello(c)
      PROVE  Unopened'
  BY <1>8, MessageKinds DEF HandleHello, Done
<1>9. ASSUME NEW c \in Conns, NEW flushed \in BOOLEAN, HandleAudio(c, flushed)
      PROVE  Unopened'
  BY <1>9, MessageKinds DEF HandleAudio, Done
<1>10. ASSUME NEW c \in Conns, AudioBeforeHello(c)
       PROVE  Unopened'
  BY <1>10, MessageKinds DEF AudioBeforeHello, Done
<1>11. ASSUME NEW c \in Conns, HandleBye(c)
       PROVE  Unopened'
  BY <1>11, MessageKinds DEF HandleBye, Done
<1>12. ASSUME NEW c \in Conns, ByeBeforeHello(c)
       PROVE  Unopened'
  BY <1>12, MessageKinds DEF ByeBeforeHello, Done
<1>13. ASSUME NEW c \in Conns, OnDisconnect(c)
       PROVE  Unopened'
  BY <1>13 DEF OnDisconnect
<1>14. CASE UNCHANGED gatewayVars
  BY <1>14 DEF gatewayVars
<1> QED
  BY <1>1, <1>2, <1>3, <1>4, <1>5, <1>6, <1>7, <1>8, <1>9, <1>10, <1>11, <1>12, <1>13,
     <1>14 DEF GatewayNext, RelayNext, Serves, Works

\* The numbers the counter goes on with are those after the last stored event.
LEMMA NextSeqFacts ==
  ASSUME Contiguous
  PROVE  /\ NextSeq \in Nat /\ DOMAIN eventStore = 0 .. NextSeq - 1
         /\ eventSeq \in [Conns -> 0 .. NextSeq]
<1>1. PICK k \in Nat : DOMAIN eventStore = 0 .. k - 1 /\ eventSeq \in [Conns -> 0 .. k]
  BY DEF Contiguous
<1>2. NextSeq = k
  <2>1. CASE k = 0
    BY <1>1, <2>1 DEF NextSeq
  <2>2. CASE k # 0
    <3>1. DOMAIN eventStore # {} /\ k - 1 \in DOMAIN eventStore
      BY <1>1, <2>2
    <3>2. \A n \in DOMAIN eventStore : (\A j \in DOMAIN eventStore : j <= n) => n = k - 1
      BY <1>1, <3>1
    <3>3. \E n \in DOMAIN eventStore : \A j \in DOMAIN eventStore : j <= n
      BY <1>1, <3>1
    <3> DEFINE top == CHOOSE n \in DOMAIN eventStore : \A j \in DOMAIN eventStore : j <= n
    <3>4. top \in DOMAIN eventStore /\ \A j \in DOMAIN eventStore : j <= top
      BY <3>3
    <3>5. top = k - 1
      BY <3>2, <3>4
    <3>6. NextSeq = 1 + top
      BY <3>1 DEF NextSeq
    <3> HIDE DEF top
    <3> QED
      BY <3>5, <3>6
  <2> QED
    BY <2>1, <2>2
<1> QED
  BY <1>1, <1>2

\* What a batch of transcripts does to the event store: its numbers are stored from the
\* counter on, and none is refused when the counter is past every stored event.
LEMMA EmitsFacts ==
  ASSUME Contiguous, NEW c \in Conns, NEW audio \in Seq(Audio), Emits(c, audio)
  PROVE  /\ Contiguous'
         /\ DOMAIN eventStore \subseteq DOMAIN eventStore'
         /\ (\A n \in DOMAIN eventStore : n < eventSeq[c]) =>
                /\ refused' = refused
                /\ \A n \in DOMAIN eventStore' : n < eventSeq'[c]
<1> DEFINE a == Len(audio)
           e == eventSeq[c]
           ids == e .. e + Len(audio) - 1
           new == ids \ DOMAIN eventStore
<1>1. PICK k \in Nat : DOMAIN eventStore = 0 .. k - 1 /\ eventSeq \in [Conns -> 0 .. k]
  BY DEF Contiguous
<1>2. /\ eventStore' = [n \in DOMAIN eventStore \cup new |->
                           IF n \in new THEN audio[n - e + 1] ELSE eventStore[n]]
      /\ eventSeq' = [eventSeq EXCEPT ![c] = e + Len(audio)]
      /\ refused' = refused \cup {audio[n - e + 1] : n \in ids \ new}
  BY DEF Emits
<1>3. a \in Nat /\ e \in 0 .. k /\ ids = e .. e + a - 1
  BY <1>1
<1>4. DOMAIN eventStore' = DOMAIN eventStore \cup new
  BY <1>2
<1>5. eventSeq'[c] = e + a
  BY <1>1, <1>2
<1> HIDE DEF a, e, ids
<1>6. Contiguous'
  <2> DEFINE m == IF e + a > k THEN e + a ELSE k
  <2>1. m \in Nat /\ k <= m /\ e + a \in 0 .. m
    BY <1>3
  <2>2. DOMAIN eventStore' = 0 .. m - 1
    BY <1>1, <1>3, <1>4
  <2>3. eventSeq' \in [Conns -> 0 .. m]
    <3>1. eventSeq' = [eventSeq EXCEPT ![c] = e + a]
      BY <1>2 DEF a
    <3>2. \A d \in Conns : eventSeq[d] \in 0 .. m
      BY <1>1, <2>1
    <3> HIDE DEF m
    <3> QED
      BY <1>1, <2>1, <3>1, <3>2
  <2> HIDE DEF m
  <2> QED
    BY <2>1, <2>2, <2>3 DEF Contiguous
<1>7. ASSUME \A n \in DOMAIN eventStore : n < e
      PROVE  refused' = refused /\ \A n \in DOMAIN eventStore' : n < eventSeq'[c]
  <2>1. ids \ new = {}
    BY <1>1, <1>3, <1>7
  <2>2. refused' = refused
    BY <1>2, <2>1
  <2>3. \A n \in DOMAIN eventStore' : n < e + a
    BY <1>1, <1>3, <1>4, <1>7
  <2> QED
    BY <1>5, <2>2, <2>3
<1> QED
  BY <1>4, <1>6, <1>7 DEF e

\* Events are only added, and only a hello or an event moves a counter.
LEMMA StoredNext ==
    GatewayTyped /\ StoredInOrder /\ [GatewayNext]_gatewayVars => StoredInOrder'
<1> SUFFICES ASSUME GatewayTyped, StoredInOrder, [GatewayNext]_gatewayVars
             PROVE  StoredInOrder'
  OBVIOUS
<1> USE DEF relayVars, coreVars, sharedVars, gatewayHistory
<1>1. CASE Connect
  BY <1>1 DEF Connect, StoredInOrder, Contiguous
<1>2. CASE SendHello
  BY <1>2 DEF SendHello, Receives, StoredInOrder, Contiguous
<1>3. CASE SendAudio
  BY <1>3 DEF SendAudio, Receives, StoredInOrder, Contiguous
<1>4. CASE SendBye
  BY <1>4 DEF SendBye, Receives, StoredInOrder, Contiguous
<1>5. CASE RelayDrops
  BY <1>5 DEF RelayDrops, StoredInOrder, Contiguous
<1>6. ASSUME NEW c \in Conns, Stops(c)
      PROVE  StoredInOrder'
  BY <1>6 DEF Stops, StoredInOrder, Contiguous
<1>7. ASSUME NEW c \in Conns, Takes(c)
      PROVE  StoredInOrder'
  BY <1>7 DEF Takes, StoredInOrder, Contiguous
<1>8. ASSUME NEW c \in Conns, HandleHello(c)
      PROVE  StoredInOrder'
  <2>1. /\ NextSeq \in Nat /\ DOMAIN eventStore = 0 .. NextSeq - 1
        /\ eventSeq \in [Conns -> 0 .. NextSeq]
    BY NextSeqFacts DEF StoredInOrder
  <2>2. eventSeq' = [eventSeq EXCEPT ![c] = NextSeq]
        /\ UNCHANGED <<eventStore, unfinalized>>
    BY <1>8 DEF HandleHello, Resumes
  <2>3. eventSeq' \in [Conns -> 0 .. NextSeq]
    BY <2>1, <2>2
  <2>4. Contiguous'
    BY <2>1, <2>2, <2>3 DEF Contiguous
  <2> QED
    BY <1>8, <2>2, <2>4 DEF StoredInOrder, HandleHello, MarksActive
<1>9. ASSUME NEW c \in Conns, NEW flushed \in BOOLEAN, HandleAudio(c, flushed)
      PROVE  StoredInOrder'
  <2> DEFINE batch == IF flushed THEN Append(coalescing[c], working[c][2]) ELSE <<>>
  <2>1. working[c][2] \in Audio
    <3>1. working[c] \in Messages /\ working[c][1] = "audio"
      BY <1>9, MessageKinds DEF HandleAudio, GatewayTyped
    <3> QED
      BY <3>1, MessageKinds
  <2>2. Append(coalescing[c], working[c][2]) \in Seq(Audio) /\ <<>> \in Seq(Audio)
    BY <2>1 DEF GatewayTyped
  <2>3. batch \in Seq(Audio)
    BY <2>2
  <2>4. Emits(c, batch)
    BY <1>9 DEF HandleAudio
  <2> HIDE DEF batch
  <2>5. Contiguous' /\ DOMAIN eventStore \subseteq DOMAIN eventStore'
    BY <2>3, <2>4, EmitsFacts DEF StoredInOrder
  <2> QED
    BY <1>9, <2>5 DEF HandleAudio, NewlyStored, StoredInOrder
<1>10. ASSUME NEW c \in Conns, AudioBeforeHello(c)
       PROVE  StoredInOrder'
  BY <1>10 DEF AudioBeforeHello, Done, StoredInOrder, Contiguous
<1>11. ASSUME NEW c \in Conns, HandleBye(c)
       PROVE  StoredInOrder'
  <2>1. Emits(c, coalescing[c]) /\ coalescing[c] \in Seq(Audio)
    BY <1>11 DEF HandleBye, GatewayTyped
  <2>2. Contiguous'
    BY <2>1, EmitsFacts DEF StoredInOrder
  <2> QED
    BY <1>11, <2>2 DEF HandleBye, Closes, StoredInOrder
<1>12. ASSUME NEW c \in Conns, ByeBeforeHello(c)
       PROVE  StoredInOrder'
  BY <1>12 DEF ByeBeforeHello, Done, StoredInOrder, Contiguous
<1>13. ASSUME NEW c \in Conns, OnDisconnect(c)
       PROVE  StoredInOrder'
  <2>1. CASE bound[c]
    <3>1. Emits(c, coalescing[c]) /\ coalescing[c] \in Seq(Audio)
      BY <1>13, <2>1 DEF OnDisconnect, TearsDown, GatewayTyped
    <3>2. Contiguous'
      BY <3>1, EmitsFacts DEF StoredInOrder
    <3> QED
      BY <1>13, <2>1, <3>2 DEF OnDisconnect, TearsDown, Closes, StoredInOrder
  <2>2. CASE ~bound[c]
    BY <1>13, <2>2 DEF OnDisconnect, TearsDown, StoredInOrder, Contiguous
  <2> QED
    BY <2>1, <2>2
<1>14. CASE UNCHANGED gatewayVars
  BY <1>14 DEF gatewayVars, StoredInOrder, Contiguous
<1> QED
  BY <1>1, <1>2, <1>3, <1>4, <1>5, <1>6, <1>7, <1>8, <1>9, <1>10, <1>11, <1>12, <1>13,
     <1>14 DEF GatewayNext, RelayNext, Serves, Works

\* A second hello is the only way to a second carrier.
LEMMA SoleCarrierNext ==
    GatewayTyped /\ Unopened /\ StoredInOrder /\ SoleCarrier /\ [GatewayNext]_gatewayVars
    => SoleCarrier'
<1> SUFFICES ASSUME GatewayTyped, Unopened, StoredInOrder, SoleCarrier, [GatewayNext]_gatewayVars
             PROVE  SoleCarrier'
  OBVIOUS
<1> USE DEF relayVars, coreVars, sharedVars, gatewayHistory
<1>1. CASE Connect
  <2>1. opened + 1 \in Conns /\ opened + 1 > opened
    BY <1>1, GatewayAssumption DEF Connect, GatewayTyped, Conns
  <2>2. handler[opened + 1] = "unused"
    BY <2>1 DEF Unopened
  <2>3. \A d \in Conns : handler'[d] # "closed" <=> handler[d] # "closed"
    BY <1>1, <2>1, <2>2 DEF Connect, GatewayTyped
  <2>4. \A d \in Conns : Carrying(d)' <=> Carrying(d)
    BY <1>1, <2>3 DEF Connect, Carrying
  <2> QED
    BY <1>1, <2>4 DEF Connect, SoleCarrier
<1>2. CASE SendHello
  <2>1. UNCHANGED <<refused, overlapped, straggled, bound, handler, working, active,
                    eventStore, eventSeq>>
    BY <1>2 DEF SendHello, Receives
  <2> QED
    BY <2>1 DEF SoleCarrier, Carrying
<1>3. CASE SendAudio
  <2>1. UNCHANGED <<refused, overlapped, straggled, bound, handler, working, active,
                    eventStore, eventSeq>>
    BY <1>3 DEF SendAudio, Receives
  <2> QED
    BY <2>1 DEF SoleCarrier, Carrying
<1>4. CASE SendBye
  <2>1. UNCHANGED <<refused, overlapped, straggled, bound, handler, working, active,
                    eventStore, eventSeq>>
    BY <1>4 DEF SendBye, Receives
  <2> QED
    BY <2>1 DEF SoleCarrier, Carrying
<1>5. CASE RelayDrops
  <2>1. UNCHANGED <<refused, overlapped, straggled, bound, handler, working, active,
                    eventStore, eventSeq>>
    BY <1>5 DEF RelayDrops
  <2> QED
    BY <2>1 DEF SoleCarrier, Carrying
<1>6. ASSUME NEW c \in Conns, Stops(c)
      PROVE  SoleCarrier'
  <2>1. UNCHANGED <<refused, overlapped, straggled, active, eventStore, eventSeq>>
    BY <1>6 DEF Stops
  <2>2. \A d \in Conns : Carrying(d)' <=> Carrying(d)
    BY <1>6, MessageKinds DEF Stops, Carrying, GatewayTyped
  <2> QED
    BY <2>1, <2>2 DEF SoleCarrier
<1>7. ASSUME NEW c \in Conns, Takes(c)
      PROVE  SoleCarrier'
  <2>1. UNCHANGED <<refused, overlapped, straggled, active, eventStore, eventSeq>>
    BY <1>7 DEF Takes
  <2>2. \A d \in Conns : Carrying(d)' <=> Carrying(d)
    BY <1>7, MessageKinds DEF Takes, Carrying, GatewayTyped
  <2> QED
    BY <2>1, <2>2 DEF SoleCarrier
<1>8. ASSUME NEW c \in Conns, HandleHello(c)
      PROVE  SoleCarrier'
  <2> SUFFICES ASSUME ~overlapped', ~straggled'
               PROVE  SoleCarrier'
    BY DEF SoleCarrier
  <2>1. /\ NextSeq \in Nat /\ DOMAIN eventStore = 0 .. NextSeq - 1
        /\ eventSeq \in [Conns -> 0 .. NextSeq]
    BY NextSeqFacts DEF StoredInOrder
  <2>2. /\ ~overlapped /\ ~straggled /\ refused' = refused /\ active'
        /\ eventStore' = eventStore
        /\ \A d \in Conns \ {c} : ~Carrying(d)
    BY <1>8 DEF HandleHello, MarksActive
  <2>3. eventSeq'[c] = NextSeq
    BY <1>8, <2>1 DEF HandleHello, Resumes
  <2>4. \A d \in Conns : Carrying(d)' => d = c
    BY <1>8, <2>2 DEF HandleHello, Done, Carrying, GatewayTyped
  <2>5. \A n \in DOMAIN eventStore' : n < eventSeq'[c]
    BY <2>1, <2>2, <2>3
  <2> QED
    BY <2>2, <2>4, <2>5 DEF SoleCarrier
<1>9. ASSUME NEW c \in Conns, NEW flushed \in BOOLEAN, HandleAudio(c, flushed)
      PROVE  SoleCarrier'
  <2> SUFFICES ASSUME ~overlapped', ~straggled'
               PROVE  SoleCarrier'
    BY DEF SoleCarrier
  <2> DEFINE batch == IF flushed THEN Append(coalescing[c], working[c][2]) ELSE <<>>
  <2>1. working[c][2] \in Audio
    <3>1. working[c] \in Messages /\ working[c][1] = "audio"
      BY <1>9, MessageKinds DEF HandleAudio, GatewayTyped
    <3> QED
      BY <3>1, MessageKinds
  <2>2. Append(coalescing[c], working[c][2]) \in Seq(Audio) /\ <<>> \in Seq(Audio)
    BY <2>1 DEF GatewayTyped
  <2>3. batch \in Seq(Audio)
    BY <2>2
  <2>4. Emits(c, batch)
    BY <1>9 DEF HandleAudio
  <2> HIDE DEF batch
  <2>5. ~overlapped /\ ~straggled /\ active' = active /\ Carrying(c)
    BY <1>9, MessageKinds DEF HandleAudio, Carrying
  <2>6. refused = {} /\ active /\ (\A n \in DOMAIN eventStore : n < eventSeq[c])
    BY <2>5 DEF SoleCarrier
  <2>7. refused' = refused /\ \A n \in DOMAIN eventStore' : n < eventSeq'[c]
    BY <2>3, <2>4, <2>6, EmitsFacts DEF StoredInOrder
  <2>8. \A d \in Conns : Carrying(d)' => Carrying(d)
    BY <1>9 DEF HandleAudio, Done, Carrying, GatewayTyped
  <2>9. \A d \in Conns : Carrying(d)' => d = c
    BY <2>5, <2>8 DEF SoleCarrier
  <2> QED
    BY <2>5, <2>6, <2>7, <2>9 DEF SoleCarrier
<1>10. ASSUME NEW c \in Conns, AudioBeforeHello(c)
       PROVE  SoleCarrier'
  <2>1. UNCHANGED <<refused, overlapped, straggled, active, eventStore, eventSeq>>
    BY <1>10 DEF AudioBeforeHello, Done
  <2>2. \A d \in Conns : Carrying(d)' <=> Carrying(d)
    BY <1>10 DEF AudioBeforeHello, Done, Carrying, GatewayTyped
  <2> QED
    BY <2>1, <2>2 DEF SoleCarrier
<1>11. ASSUME NEW c \in Conns, HandleBye(c)
       PROVE  SoleCarrier'
  <2> SUFFICES ASSUME ~overlapped', ~straggled'
               PROVE  SoleCarrier'
    BY DEF SoleCarrier
  <2>1. Emits(c, coalescing[c]) /\ coalescing[c] \in Seq(Audio)
    BY <1>11 DEF HandleBye, GatewayTyped
  <2>2. ~overlapped /\ ~straggled /\ Carrying(c)
    BY <1>11, MessageKinds DEF HandleBye, Carrying
  <2>3. refused = {} /\ (\A n \in DOMAIN eventStore : n < eventSeq[c])
    BY <2>2 DEF SoleCarrier
  <2>4. refused' = refused
    BY <2>1, <2>3, EmitsFacts DEF StoredInOrder
  <2>5. \A d \in Conns : Carrying(d)' => Carrying(d) /\ d # c
    BY <1>11 DEF HandleBye, Done, Carrying, GatewayTyped
  <2>6. \A d \in Conns : ~Carrying(d)'
    BY <2>2, <2>5 DEF SoleCarrier
  <2> QED
    BY <2>3, <2>4, <2>6 DEF SoleCarrier
<1>12. ASSUME NEW c \in Conns, ByeBeforeHello(c)
       PROVE  SoleCarrier'
  <2>1. UNCHANGED <<refused, overlapped, straggled, active, eventStore, eventSeq>>
    BY <1>12 DEF ByeBeforeHello, Done
  <2>2. \A d \in Conns : Carrying(d)' <=> Carrying(d)
    BY <1>12 DEF ByeBeforeHello, Done, Carrying, GatewayTyped
  <2> QED
    BY <2>1, <2>2 DEF SoleCarrier
<1>13. ASSUME NEW c \in Conns, OnDisconnect(c)
       PROVE  SoleCarrier'
  <2> SUFFICES ASSUME ~overlapped', ~straggled'
               PROVE  SoleCarrier'
    BY DEF SoleCarrier
  <2>1. ~overlapped /\ ~straggled /\ working[c] = Idle
    BY <1>13 DEF OnDisconnect
  <2>2. \A d \in Conns : Carrying(d)' => Carrying(d) /\ d # c
    BY <1>13, <2>1 DEF OnDisconnect, Carrying, GatewayTyped
  <2>3. CASE bound[c]
    <3>1. Emits(c, coalescing[c]) /\ coalescing[c] \in Seq(Audio)
      BY <1>13, <2>3 DEF OnDisconnect, TearsDown, GatewayTyped
    <3>2. Carrying(c)
      BY <1>13, <2>3 DEF OnDisconnect, Carrying
    <3>3. refused = {} /\ (\A n \in DOMAIN eventStore : n < eventSeq[c])
      BY <2>1, <3>2 DEF SoleCarrier
    <3>4. refused' = refused
      BY <3>1, <3>3, EmitsFacts DEF StoredInOrder
    <3>5. \A d \in Conns : ~Carrying(d)'
      BY <2>1, <2>2, <3>2 DEF SoleCarrier
    <3> QED
      BY <3>3, <3>4, <3>5 DEF SoleCarrier
  <2>4. CASE ~bound[c]
    <3>1. UNCHANGED <<refused, active, eventStore, eventSeq>>
      BY <1>13, <2>4 DEF OnDisconnect, TearsDown
    <3> QED
      BY <2>1, <2>2, <3>1 DEF SoleCarrier
  <2> QED
    BY <2>3, <2>4
<1>14. CASE UNCHANGED gatewayVars
  BY <1>14 DEF gatewayVars, SoleCarrier, Carrying
<1> QED
  BY <1>1, <1>2, <1>3, <1>4, <1>5, <1>6, <1>7, <1>8, <1>9, <1>10, <1>11, <1>12, <1>13,
     <1>14 DEF GatewayNext, RelayNext, Serves, Works

-----------------------------------------------------------------------------
GatewayInv ==
    /\ GatewayTyped /\ Unopened /\ StoredInOrder
    /\ HelloLeads /\ Finishing /\ SoleCarrier

LEMMA GatewayInitHolds == GatewayInit => GatewayInv
<1> SUFFICES ASSUME GatewayInit
             PROVE  GatewayInv
  OBVIOUS
<1> USE GatewayAssumption DEF GatewayInit
<1>1. GatewayTyped
  <2>1. <<>> \in Seq(Messages) /\ <<>> \in Seq(Audio) /\ Len(<<>>) <= MaxQueue
    OBVIOUS
  <2>2. inbox \in [Conns -> Seq(Messages)] /\ coalescing \in [Conns -> Seq(Audio)]
    BY <2>1, Zenon
  <2> QED
    BY <2>1, <2>2 DEF GatewayTyped
<1>2. Unopened
  BY DEF Unopened
<1>3. StoredInOrder
  <2>1. DOMAIN eventStore = 0 .. 0 - 1
    BY SMT
  <2>2. eventSeq \in [Conns -> 0 .. 0]
    BY SMT
  <2> QED
    BY <2>1, <2>2 DEF StoredInOrder, Contiguous
<1>4. HelloLeads
  BY MessageKinds DEF HelloLeads, InOrder
<1>5. Finishing
  BY DEF Finishing
<1>6. SoleCarrier
  BY DEF SoleCarrier, Carrying
<1> QED
  BY <1>1, <1>2, <1>3, <1>4, <1>5, <1>6 DEF GatewayInv

LEMMA GatewayInvInvariant == GatewaySpec => []GatewayInv
<1>1. GatewayInv /\ [GatewayNext]_gatewayVars => GatewayInv'
  BY GatewayTypedNext, UnopenedNext, StoredNext, HelloLeadsNext, FinishingNext,
     SoleCarrierNext
     DEF GatewayInv
<1> QED
  BY GatewayInitHolds, <1>1, PTL DEF GatewaySpec

\* Handlers, queues, workers, cores and the shared store keep their types: a queue never
\* exceeds its limit, and what awaits a finalize is stored.
THEOREM GatewayTypeCorrect == GatewaySpec => []GatewayTypeOK
<1>1. GatewayInv => GatewayTypeOK
  BY DEF GatewayInv, GatewayTyped, StoredInOrder, GatewayTypeOK
<1> QED
  BY GatewayInvInvariant, <1>1, PTL

\* Once every connection has ended, by a bye or by a teardown, and no worker outlived its
\* join, the session is closed and a finalize pass follows its last event.
THEOREM LastOneCloses == GatewaySpec => []EndedIsClosed
<1>1. GatewayInv => EndedIsClosed
  BY DEF GatewayInv, Finishing, EndedIsClosed, Ended
<1> QED
  BY GatewayInvInvariant, <1>1, PTL

\* A session with a connection is active, except where an older one's teardown or worker
\* overlapped it.
THEOREM CarriedStaysActive == GatewaySpec => []CarriedIsActive
<1>1. GatewayInv => CarriedIsActive
  BY DEF GatewayInv, SoleCarrier, Carrying, CarriedIsActive
<1> QED
  BY GatewayInvInvariant, <1>1, PTL

\* However often the relay reconnects, a transcript is refused as a duplicate only where
\* connections overlapped or a worker outlived its join.
THEOREM RefusalNeedsOverlap == GatewaySpec => []RefusedOnlyInOverlap
<1>1. GatewayInv => RefusedOnlyInOverlap
  BY DEF GatewayInv, SoleCarrier, RefusedOnlyInOverlap
<1> QED
  BY GatewayInvInvariant, <1>1, PTL

\* Audio is dropped for want of a hello only after a full queue dropped a message.
THEOREM HelloIsHeardFirst == GatewaySpec => []HeardUnlessOverflow
<1>1. GatewayInv => HeardUnlessOverflow
  BY DEF GatewayInv, HelloLeads, HeardUnlessOverflow
<1> QED
  BY GatewayInvInvariant, <1>1, PTL

-----------------------------------------------------------------------------
SensorStates == {"scan", "linked", "lost", "stopped"}
SocketStates == {"opening", "open", "closing", "closed"}

\* Types the inductive argument needs besides ServiceTypeOK: a run number is one of the
\* runs so far, and somebody's step is a step of one of them.
ServiceTyped ==
    /\ generation \in 0 .. MaxStarts
    /\ sensors \in Seq([run : 1 .. generation, state : SensorStates])
    /\ sockets \in Seq([run : 1 .. generation, state : SocketStates])
    /\ sensor \in 0 .. Len(sensors) /\ socket \in 0 .. Len(sockets)
    /\ reconnectAttempt \in 0 .. MaxAttempts
    /\ reconnectJob \in 0 .. generation
    /\ retrying \in Seq(1 .. generation)
    /\ starting \in {"none", "teardown", "scan"} /\ (starting # "none" => generation # 0)
    /\ dropStep \in {"none", "close", "stop", "schedule"}
    /\ dropRun \in 0 .. generation /\ (dropStep # "none" => dropRun # 0)

NoLiveSensor == \A k \in 1 .. Len(sensors) : ~LiveSensor(k)
NoLiveSocket == \A k \in 1 .. Len(sockets) : ~LiveSocket(k)

\* The fields name everything that lives, and of the run that is on unless a start is
\* about to replace it.
Named ==
    /\ \A k \in 1 .. Len(sensors) : LiveSensor(k) =>
           k = sensor /\ (starting = "none" => sensors[k].run = generation)
    /\ \A k \in 1 .. Len(sockets) : LiveSocket(k) =>
           k = socket /\ (starting = "none" => sockets[k].run = generation)
    /\ \A k \in 1 .. Len(sensors) : sensors[k].state = "scan" => NoLiveSocket

\* A start is alone at work, and everything there is belongs to a run that is over.
StartAlone ==
    starting # "none" =>
        /\ dropStep = "none" /\ retrying = <<>> /\ reconnectJob = 0
        /\ \A k \in 1 .. Len(sensors) : sensors[k].run # generation
        /\ \A k \in 1 .. Len(sockets) : sockets[k].run # generation
        /\ starting = "scan" => NoLiveSensor /\ NoLiveSocket

\* A softDrop() is one of this run and has closed and stopped what it is past; a retry
\* waits, and then scans, with nothing alive.
DropAlone ==
    /\ dropStep # "none" => dropRun = generation /\ retrying = <<>>
    /\ dropStep \in {"stop", "schedule"} => NoLiveSocket
    /\ dropStep = "schedule" => NoLiveSensor
    /\ reconnectJob # 0 => reconnectJob = generation /\ NoLiveSensor /\ NoLiveSocket
    /\ retrying # <<>> =>
           /\ Len(retrying) = 1 /\ retrying[1] = generation /\ reconnectJob = 0
           /\ NoLiveSensor /\ NoLiveSocket

\* With nobody at work, a socket is alive for a device that is connected, and the service
\* is not stranded.
Settled ==
    starting = "none" /\ dropStep = "none" =>
        /\ \A k \in 1 .. Len(sockets) : LiveSocket(k) =>
               sensor # 0 /\ sensors[sensor].state = "linked"
        /\ retrying = <<>> /\ generation > 0 =>
               \/ shown = "failed" \/ reconnectJob = generation
               \/ /\ sensor # 0 /\ sensors[sensor].run = generation
                  /\ \/ sensors[sensor].state = "scan"
                     \/ /\ sensors[sensor].state = "linked"
                        /\ socket # 0 /\ LiveSocket(socket)

Alone == ~overtaken /\ ~crossed => Named /\ StartAlone /\ DropAlone /\ Settled

-----------------------------------------------------------------------------
\* t is the list s with the state of link k, if there is one, changed to one of V.
Restated(s, t, k, V) ==
    /\ Len(t) = Len(s)
    /\ \A j \in 1 .. Len(s) : /\ t[j].run = s[j].run
                              /\ j # k => t[j].state = s[j].state
                              /\ j = k => t[j].state \in V

\* t is the list s with a new link at its end.
Appended(s, t, r, v) ==
    /\ Len(t) = Len(s) + 1
    /\ \A j \in 1 .. Len(s) : t[j].run = s[j].run /\ t[j].state = s[j].state
    /\ t[Len(s) + 1].run = r /\ t[Len(s) + 1].state = v

LEMMA RestatedFacts ==
  ASSUME NEW R, NEW V, NEW s \in Seq([run : R, state : V]), NEW k \in 1 .. Len(s), NEW v \in V,
         NEW t, t = [s EXCEPT ![k].state = v]
  PROVE  t \in Seq([run : R, state : V]) /\ Restated(s, t, k, {v})
<1> DEFINE L == [run : R, state : V]
<1>1. s \in [1 .. Len(s) -> L] /\ Len(s) \in Nat
  BY LenProperties
<1>2. t = [s EXCEPT ![k] = [s[k] EXCEPT !.state = v]]
  OBVIOUS
<1>3. [s[k] EXCEPT !.state = v] \in L
  BY <1>1
<1>4. t \in [1 .. Len(s) -> L]
  BY <1>1, <1>2, <1>3
<1>5. t \in Seq(L) /\ Len(t) = Len(s)
  BY <1>1, <1>4
<1>6. t[k] = [s[k] EXCEPT !.state = v] /\ \A j \in 1 .. Len(s) : j # k => t[j] = s[j]
  BY <1>1, <1>2
<1>7. t[k].state = v /\ t[k].run = s[k].run
  BY <1>1, <1>6
<1> QED
  BY <1>5, <1>6, <1>7 DEF Restated

\* The list of links with a new one at its end.
LEMMA AppendedFacts ==
  ASSUME NEW R, NEW V, NEW s \in Seq([run : R, state : V]), NEW r \in R, NEW v \in V
  PROVE  LET t == Append(s, [run |-> r, state |-> v]) IN
         /\ t \in Seq([run : R, state : V]) /\ Len(t) = Len(s) + 1 /\ Len(s) \in Nat
         /\ t[Len(s) + 1].state = v /\ t[Len(s) + 1].run = r
         /\ \A j \in 1 .. Len(s) : t[j].run = s[j].run /\ t[j].state = s[j].state
  OBVIOUS

\* A retry that has begun to scan is taken off the list.
LEMMA RemoveAtFacts ==
  ASSUME NEW S, NEW s \in Seq(S), NEW k \in 1 .. Len(s)
  PROVE  RemoveAt(s, k) \in Seq(S) /\ (Len(s) = 1 => RemoveAt(s, k) = <<>>)
<1> DEFINE a == SubSeq(s, 1, k - 1)
           b == SubSeq(s, k + 1, Len(s))
<1>1. RemoveAt(s, k) = a \o b
  BY DEF RemoveAt
<1>2. a \in Seq(S) /\ b \in Seq(S)
  BY SubSeqProperties
<1>3. Len(a) = k - 1 /\ Len(b) = Len(s) - k
  BY SubSeqProperties
<1>4. a \o b \in Seq(S) /\ Len(a \o b) = Len(a) + Len(b)
  BY <1>2, ConcatProperties
<1> QED
  BY <1>1, <1>2, <1>3, <1>4

LEMMA RunsSoFar ==
  ASSUME ServiceTyped
  PROVE  /\ \A k \in 1 .. Len(sensors) : sensors[k].run \in 1 .. generation
         /\ \A k \in 1 .. Len(sockets) : sockets[k].run \in 1 .. generation
         /\ \A k \in 1 .. Len(retrying) : retrying[k] \in 1 .. generation
<1>1. \A k \in 1 .. Len(sensors) : sensors[k] \in [run : 1 .. generation, state : SensorStates]
  BY ElementOfSeq DEF ServiceTyped
<1>2. \A k \in 1 .. Len(sockets) : sockets[k] \in [run : 1 .. generation, state : SocketStates]
  BY ElementOfSeq DEF ServiceTyped
<1>3. \A k \in 1 .. Len(retrying) : retrying[k] \in 1 .. generation
  BY ElementOfSeq DEF ServiceTyped
<1> QED
  BY <1>1, <1>2, <1>3

LEMMA SocketClosedFacts ==
  ASSUME ServiceTyped
  PROVE  /\ SocketClosed(socket) \in Seq([run : 1 .. generation, state : SocketStates])
         /\ Restated(sockets, SocketClosed(socket), socket, {"closing", "closed"})
<1>1. CASE socket = 0 \/ sockets[socket].state = "closed"
  BY <1>1 DEF SocketClosed, ServiceTyped, Restated, SocketStates
<1>2. CASE ~(socket = 0 \/ sockets[socket].state = "closed")
  <2>1. SocketClosed(socket) = [sockets EXCEPT ![socket].state = "closing"]
    BY <1>2 DEF SocketClosed
  <2>2. socket \in 1 .. Len(sockets) /\ "closing" \in SocketStates
        /\ sockets \in Seq([run : 1 .. generation, state : SocketStates])
    BY <1>2 DEF ServiceTyped, SocketStates
  <2> QED
    <3>1. /\ SocketClosed(socket) \in Seq([run : 1 .. generation, state : SocketStates])
          /\ Restated(sockets, SocketClosed(socket), socket, {"closing"})
      BY <2>1, <2>2, RestatedFacts
    <3> QED
      BY <3>1 DEF Restated
<1> QED
  BY <1>1, <1>2

LEMMA SensorStoppedFacts ==
  ASSUME ServiceTyped
  PROVE  /\ SensorStopped(sensor) \in Seq([run : 1 .. generation, state : SensorStates])
         /\ Restated(sensors, SensorStopped(sensor), sensor, {"stopped"})
<1>1. CASE sensor = 0
  BY <1>1 DEF SensorStopped, ServiceTyped, Restated, SensorStates
<1>2. CASE sensor # 0
  <2>1. SensorStopped(sensor) = [sensors EXCEPT ![sensor].state = "stopped"]
    BY <1>2 DEF SensorStopped
  <2>2. sensor \in 1 .. Len(sensors) /\ "stopped" \in SensorStates
        /\ sensors \in Seq([run : 1 .. generation, state : SensorStates])
    BY <1>2 DEF ServiceTyped, SensorStates
  <2> QED
    BY <2>1, <2>2, RestatedFacts
<1> QED
  BY <1>1, <1>2

\* What each change to the lists of links does to them, for the steps below.
LEMMA SensorRestated ==
  ASSUME ServiceTyped, NEW k \in 1 .. Len(sensors), NEW v \in SensorStates,
         sensors' = [sensors EXCEPT ![k].state = v]
  PROVE  /\ sensors' \in Seq([run : 1 .. generation, state : SensorStates])
         /\ Restated(sensors, sensors', k, {v})
<1>1. sensors \in Seq([run : 1 .. generation, state : SensorStates])
  BY DEF ServiceTyped, SensorStates
<1> QED
  BY <1>1, RestatedFacts

LEMMA SocketRestated ==
  ASSUME ServiceTyped, NEW k \in 1 .. Len(sockets), NEW v \in SocketStates,
         sockets' = [sockets EXCEPT ![k].state = v]
  PROVE  /\ sockets' \in Seq([run : 1 .. generation, state : SocketStates])
         /\ Restated(sockets, sockets', k, {v})
<1>1. sockets \in Seq([run : 1 .. generation, state : SocketStates])
  BY DEF ServiceTyped, SocketStates
<1> QED
  BY <1>1, RestatedFacts

LEMMA ScansFacts ==
  ASSUME ServiceTyped, NEW r \in 1 .. generation, Scans(r)
  PROVE  /\ sensors' \in Seq([run : 1 .. generation, state : SensorStates])
         /\ Appended(sensors, sensors', r, "scan") /\ Len(sensors) \in Nat
         /\ sensor' = Len(sensors) + 1 /\ sensor' \in 0 .. Len(sensors')
         /\ shown' = "scanning"
<1>1. sensors \in Seq([run : 1 .. generation, state : SensorStates])
      /\ "scan" \in SensorStates
  BY DEF ServiceTyped, SensorStates
<1>2. /\ sensors' \in Seq([run : 1 .. generation, state : SensorStates])
      /\ Appended(sensors, sensors', r, "scan") /\ Len(sensors) \in Nat
      /\ sensor' = Len(sensors) + 1 /\ shown' = "scanning"
  BY <1>1, AppendedFacts DEF Appended, Scans
<1> QED
  BY <1>2 DEF Appended

LEMMA SocketAppended ==
  ASSUME ServiceTyped, NEW r \in 1 .. generation,
         sockets' = Append(sockets, [run |-> r, state |-> "opening"])
  PROVE  /\ sockets' \in Seq([run : 1 .. generation, state : SocketStates])
         /\ Appended(sockets, sockets', r, "opening") /\ Len(sockets) \in Nat
         /\ Len(sockets) + 1 \in 0 .. Len(sockets')
<1>1. sockets \in Seq([run : 1 .. generation, state : SocketStates])
      /\ "opening" \in SocketStates
  BY DEF ServiceTyped, SocketStates
<1>2. /\ sockets' \in Seq([run : 1 .. generation, state : SocketStates])
      /\ Appended(sockets, sockets', r, "opening") /\ Len(sockets) \in Nat
  BY <1>1, AppendedFacts DEF Appended
<1> QED
  BY <1>2 DEF Appended

\* A sequence over a set is one over a larger set.
LEMMA WiderSeq == ASSUME NEW S, NEW T, S \subseteq T, NEW s \in Seq(S) PROVE s \in Seq(T)
  OBVIOUS

LEMMA WiderRuns ==
  ASSUME NEW V, NEW g \in Nat, NEW s \in Seq([run : 1 .. g, state : V])
  PROVE  s \in Seq([run : 1 .. g + 1, state : V])
<1> DEFINE A == [run : 1 .. g, state : V]
           B == [run : 1 .. g + 1, state : V]
<1>1. A \subseteq B
  <2>1. 1 .. g \subseteq 1 .. g + 1
    OBVIOUS
  <2> QED
    BY <2>1
<1>2. s \in Seq(A)
  OBVIOUS
<1> HIDE DEF A, B
<1>3. s \in Seq(B)
  BY <1>1, <1>2, WiderSeq
<1> QED
  BY <1>3 DEF B

\* softDrop() does nothing, or begins for a run that is on while no retry is past its test.
LEMMA SoftDropFacts ==
  ASSUME ServiceTyped, NEW r \in 1 .. generation, SoftDrop(r)
  PROVE  /\ r = generation /\ dropStep = "none" =>
                /\ dropStep' = "close" /\ dropRun' = generation
                /\ crossed' = (crossed \/ retrying # <<>>)
         /\ r # generation \/ dropStep # "none" => UNCHANGED <<dropStep, dropRun,
                                                               crossed>>
         /\ dropStep' \in {"none", "close", "stop", "schedule"}
         /\ dropRun' \in 0 .. generation
         /\ dropStep' # "none" => dropRun' # 0
  BY DEF SoftDrop, Stale, ServiceTyped

\* Every step leaves a run number one of the runs so far and the fields inside the lists.
LEMMA ServiceTypedNext == ServiceTyped /\ [ServiceNext]_serviceVars => ServiceTyped'
<1> SUFFICES ASSUME ServiceTyped, [ServiceNext]_serviceVars
             PROVE  ServiceTyped'
  OBVIOUS
<1> USE RelayServiceAssumption DEF ServiceTyped
<1>1. CASE StartBumps
  <2>1. generation' = generation + 1 /\ generation' \in 0 .. MaxStarts /\ generation' # 0
    BY <1>1 DEF StartBumps
  <2>2. 1 .. generation \subseteq 1 .. generation'
        /\ 0 .. generation \subseteq 0 .. generation'
    BY <2>1
  <2>3. generation \in Nat
    OBVIOUS
  <2>4. /\ sensors' \in Seq([run : 1 .. generation', state : SensorStates])
        /\ sockets' \in Seq([run : 1 .. generation', state : SocketStates])
        /\ retrying' \in Seq(1 .. generation')
    <3>1. sensors' = sensors /\ sockets' = sockets /\ retrying' = retrying
      BY <1>1 DEF StartBumps
    <3>2. sensors \in Seq([run : 1 .. generation', state : SensorStates])
      BY <2>1, <2>3, WiderRuns
    <3>3. sockets \in Seq([run : 1 .. generation', state : SocketStates])
      BY <2>1, <2>3, WiderRuns
    <3>4. retrying \in Seq(1 .. generation')
      BY <2>2, WiderSeq
    <3> QED
      BY <3>1, <3>2, <3>3, <3>4
  <2>5. /\ sensor' \in 0 .. Len(sensors') /\ socket' \in 0 .. Len(sockets')
        /\ reconnectAttempt' \in 0 .. MaxAttempts /\ reconnectJob' \in 0 .. generation'
        /\ starting' = "teardown"
    BY <1>1, <2>1 DEF StartBumps
  <2>6. dropRun' \in 0 .. generation' /\ UNCHANGED <<dropStep, dropRun>>
    BY <1>1, <2>2 DEF StartBumps
  <2> HIDE DEF ServiceTyped
  <2> QED
    BY <2>1, <2>4, <2>5, <2>6 DEF ServiceTyped
<1>2. CASE StartTearsDown
  <2>1. /\ sockets' \in Seq([run : 1 .. generation, state : SocketStates])
        /\ sensors' \in Seq([run : 1 .. generation, state : SensorStates])
        /\ Len(sensors') = Len(sensors)
    BY <1>2, SocketClosedFacts, SensorStoppedFacts DEF StartTearsDown, Restated
  <2>2. socket' \in 0 .. Len(sockets')
    BY <1>2, <2>1 DEF StartTearsDown
  <2> QED
    BY <1>2, <2>1, <2>2 DEF StartTearsDown
<1>3. CASE StartScans
  <2>1. generation \in 1 .. generation /\ Scans(generation)
    BY <1>3 DEF StartScans
  <2>2. /\ sensors' \in Seq([run : 1 .. generation, state : SensorStates])
        /\ sensor' \in 0 .. Len(sensors')
    BY <2>1, ScansFacts
  <2> QED
    BY <1>3, <2>2 DEF StartScans
<1>4. ASSUME NEW k \in 1 .. Len(sensors), OnConnected(k)
      PROVE  ServiceTyped'
  <2>1. sensors' \in Seq([run : 1 .. generation, state : SensorStates])
        /\ Len(sensors') = Len(sensors)
    BY <1>4, SensorRestated DEF OnConnected, Restated, SensorStates
  <2>2. sockets' \in Seq([run : 1 .. generation, state : SocketStates])
        /\ socket' \in 0 .. Len(sockets')
    <3>1. CASE Stale(sensors[k].run)
      BY <1>4, <3>1 DEF OnConnected
    <3>2. CASE ~Stale(sensors[k].run)
      <4>1. sockets' = Append(sockets, [run |-> sensors[k].run, state |-> "opening"])
            /\ socket' = Len(sockets) + 1
        BY <1>4, <3>2 DEF OnConnected
      <4>2. sensors[k].run \in 1 .. generation
        BY RunsSoFar
      <4> QED
        BY <4>1, <4>2, SocketAppended
    <3> QED
      BY <3>1, <3>2
  <2> QED
    BY <1>4, <2>1, <2>2 DEF OnConnected
<1>5. ASSUME NEW k \in 1 .. Len(sensors), OnSensorLost(k)
      PROVE  ServiceTyped'
  <2>1. sensors' \in Seq([run : 1 .. generation, state : SensorStates])
        /\ Len(sensors') = Len(sensors)
    BY <1>5, SensorRestated DEF OnSensorLost, Restated, SensorStates
  <2>2. sensors[k].run \in 1 .. generation /\ SoftDrop(sensors[k].run)
    BY <1>5, RunsSoFar DEF OnSensorLost
  <2>3. /\ dropStep' \in {"none", "close", "stop", "schedule"}
        /\ dropRun' \in 0 .. generation
        /\ dropStep' # "none" => dropRun' # 0
    BY <2>2, SoftDropFacts
  <2> QED
    BY <1>5, <2>1, <2>3 DEF OnSensorLost, fields
<1>6. ASSUME NEW k \in 1 .. Len(sockets), OnOpen(k)
      PROVE  ServiceTyped'
  <2>1. sockets' \in Seq([run : 1 .. generation, state : SocketStates])
        /\ Len(sockets') = Len(sockets)
    BY <1>6, SocketRestated DEF OnOpen, Restated, SocketStates
  <2>2. reconnectAttempt' \in 0 .. MaxAttempts
    BY <1>6 DEF OnOpen
  <2> QED
    BY <1>6, <2>1, <2>2 DEF OnOpen
<1>7. ASSUME NEW k \in 1 .. Len(sockets), OnClosed(k)
      PROVE  ServiceTyped'
  <2>1. sockets' \in Seq([run : 1 .. generation, state : SocketStates])
        /\ Len(sockets') = Len(sockets)
    BY <1>7, SocketRestated DEF OnClosed, Restated, SocketStates
  <2>2. sockets[k].run \in 1 .. generation /\ SoftDrop(sockets[k].run)
    BY <1>7, RunsSoFar DEF OnClosed
  <2>3. /\ dropStep' \in {"none", "close", "stop", "schedule"}
        /\ dropRun' \in 0 .. generation
        /\ dropStep' # "none" => dropRun' # 0
    BY <2>2, SoftDropFacts
  <2> QED
    BY <1>7, <2>1, <2>3 DEF OnClosed, fields
<1>8. CASE SendFails
  <2>1. socket \in 1 .. Len(sockets) /\ sockets[socket].run \in 1 .. generation
    BY <1>8, RunsSoFar DEF SendFails
  <2>2. generation \in 1 .. generation /\ SoftDrop(generation)
    BY <1>8, <2>1 DEF SendFails
  <2>3. /\ dropStep' \in {"none", "close", "stop", "schedule"}
        /\ dropRun' \in 0 .. generation
        /\ dropStep' # "none" => dropRun' # 0
    BY <2>2, SoftDropFacts
  <2> QED
    BY <1>8, <2>3 DEF SendFails, fields
<1>9. CASE DropCloses
  <2>1. sockets' \in Seq([run : 1 .. generation, state : SocketStates])
    BY <1>9, SocketClosedFacts DEF DropCloses
  <2>2. socket' \in 0 .. Len(sockets')
    BY <1>9, <2>1 DEF DropCloses
  <2> QED
    BY <1>9, <2>1, <2>2 DEF DropCloses
<1>10. CASE DropStops
  <2>1. sensors' \in Seq([run : 1 .. generation, state : SensorStates])
        /\ Len(sensors') = Len(sensors)
    BY <1>10, SensorStoppedFacts DEF DropStops, Restated
  <2> QED
    BY <1>10, <2>1 DEF DropStops, fields
<1>11. CASE DropSchedules
  <2>1. reconnectAttempt' \in 0 .. MaxAttempts /\ reconnectJob' \in 0 .. generation
    BY <1>11 DEF DropSchedules, ShouldGiveUp
  <2>2. dropRun' = 0 /\ dropStep' = "none" /\ 0 \in 0 .. generation
    BY <1>11 DEF DropSchedules
  <2> QED
    BY <1>11, <2>1, <2>2 DEF DropSchedules
<1>12. CASE RetryTests
  <2>1. reconnectJob \in 1 .. generation /\ 0 \in 0 .. generation
    BY <1>12 DEF RetryTests
  <2>2. Append(retrying, reconnectJob) \in Seq(1 .. generation)
    BY <2>1
  <2>3. retrying' \in Seq(1 .. generation)
    BY <1>12, <2>2 DEF RetryTests
  <2> QED
    BY <1>12, <2>1, <2>3 DEF RetryTests
<1>13. ASSUME NEW k \in 1 .. Len(retrying), RetryScans(k)
       PROVE  ServiceTyped'
  <2>1. retrying[k] \in 1 .. generation /\ Scans(retrying[k])
    BY <1>13, RunsSoFar DEF RetryScans
  <2>2. /\ sensors' \in Seq([run : 1 .. generation, state : SensorStates])
        /\ sensor' \in 0 .. Len(sensors')
    BY <2>1, ScansFacts
  <2>3. retrying' \in Seq(1 .. generation)
    BY <1>13, RemoveAtFacts DEF RetryScans
  <2> QED
    BY <1>13, <2>2, <2>3 DEF RetryScans
<1>14. CASE UNCHANGED serviceVars
  BY <1>14 DEF serviceVars
<1> QED
  BY <1>1, <1>2, <1>3, <1>4, <1>5, <1>6, <1>7, <1>8, <1>9, <1>10, <1>11, <1>12, <1>13,
     <1>14 DEF ServiceNext

\* With no start and no retry crossing a softDrop(), one thread at a time is at work on the
\* fields, and each leaves what the next one relies on.
LEMMA AloneNext == ServiceTyped /\ Alone /\ [ServiceNext]_serviceVars => Alone'
<1> SUFFICES ASSUME ServiceTyped, Alone, [ServiceNext]_serviceVars
             PROVE  Alone'
  OBVIOUS
<1>1. CASE StartBumps
  <2> SUFFICES ASSUME ~overtaken', ~crossed'
               PROVE  Named' /\ StartAlone' /\ DropAlone' /\ Settled'
    BY DEF Alone
  <2>1. ~overtaken /\ ~crossed
    BY <1>1 DEF StartBumps
  <2>2. Named /\ StartAlone /\ DropAlone /\ Settled
    BY <2>1 DEF Alone
  <2>3. /\ generation' = generation + 1 /\ starting = "none" /\ starting' = "teardown"
        /\ dropStep' = "none" /\ retrying' = <<>> /\ reconnectJob' = 0
        /\ UNCHANGED <<sensors, sockets, sensor, socket>>
    BY <1>1 DEF StartBumps
  <2>4. /\ \A k \in 1 .. Len(sensors) : sensors[k].run # generation'
        /\ \A k \in 1 .. Len(sockets) : sockets[k].run # generation'
    BY <2>3, RunsSoFar DEF ServiceTyped
  <2>5. Named'
    BY <2>2, <2>3, <2>4
       DEF Named, LiveSensor, LiveSocket, NoLiveSensor, NoLiveSocket, Restated, Appended
  <2>6. StartAlone'
    BY <2>2, <2>3, <2>4
       DEF StartAlone, LiveSensor, LiveSocket, NoLiveSensor, NoLiveSocket, Restated,
           Appended
  <2>7. DropAlone'
    BY <2>2, <2>3, <2>4
       DEF DropAlone, LiveSensor, LiveSocket, NoLiveSensor, NoLiveSocket, Restated,
           Appended
  <2>8. Settled'
    BY <2>2, <2>3, <2>4
       DEF Settled, LiveSensor, LiveSocket, NoLiveSensor, NoLiveSocket, Restated,
           Appended, ServiceTyped
  <2> QED
    BY <2>5, <2>6, <2>7, <2>8
<1>2. CASE StartTearsDown
  <2> SUFFICES ASSUME ~overtaken', ~crossed'
               PROVE  Named' /\ StartAlone' /\ DropAlone' /\ Settled'
    BY DEF Alone
  <2>1. ~overtaken /\ ~crossed
    BY <1>2 DEF StartTearsDown
  <2>2. Named /\ StartAlone /\ DropAlone /\ Settled
    BY <2>1 DEF Alone
  <2>3. /\ starting = "teardown" /\ starting' = "scan" /\ socket' = 0
        /\ UNCHANGED <<generation, sensor, reconnectJob, retrying, dropStep>>
    BY <1>2 DEF StartTearsDown
  <2>4. /\ Restated(sockets, sockets', socket, {"closing", "closed"})
        /\ Restated(sensors, sensors', sensor, {"stopped"})
    BY <1>2, SocketClosedFacts, SensorStoppedFacts DEF StartTearsDown
  <2>5. NoLiveSensor' /\ NoLiveSocket'
    BY <2>2, <2>4
       DEF Named, NoLiveSensor, NoLiveSocket, LiveSensor, LiveSocket, Restated
  <2>6. Named'
    BY <2>2, <2>3, <2>4, <2>5
       DEF Named, LiveSensor, LiveSocket, NoLiveSensor, NoLiveSocket, Restated, Appended
  <2>7. StartAlone'
    BY <2>2, <2>3, <2>4, <2>5
       DEF StartAlone, LiveSensor, LiveSocket, NoLiveSensor, NoLiveSocket, Restated,
           Appended
  <2>8. DropAlone'
    <3>1. dropStep = "none" /\ retrying = <<>> /\ reconnectJob = 0
      BY <2>2, <2>3 DEF StartAlone
    <3> QED
      BY <2>3, <3>1 DEF DropAlone
  <2>9. Settled'
    BY <2>2, <2>3, <2>4, <2>5
       DEF Settled, LiveSensor, LiveSocket, NoLiveSensor, NoLiveSocket, Restated,
           Appended, ServiceTyped
  <2> QED
    BY <2>6, <2>7, <2>8, <2>9
<1>3. CASE StartScans
  <2> SUFFICES ASSUME ~overtaken', ~crossed'
               PROVE  Named' /\ StartAlone' /\ DropAlone' /\ Settled'
    BY DEF Alone
  <2>1. ~overtaken /\ ~crossed
    BY <1>3 DEF StartScans
  <2>2. Named /\ StartAlone /\ DropAlone /\ Settled
    BY <2>1 DEF Alone
  <2>3. /\ starting = "scan" /\ starting' = "none"
        /\ UNCHANGED <<generation, sockets, socket, reconnectJob, retrying, dropStep>>
    BY <1>3 DEF StartScans
  <2>4. generation \in 1 .. generation /\ Scans(generation)
    BY <1>3 DEF StartScans, ServiceTyped
  <2>5. /\ Appended(sensors, sensors', generation, "scan") /\ Len(sensors) \in Nat
        /\ sensor' = Len(sensors) + 1
    BY <2>4, ScansFacts
  <2>6. NoLiveSensor /\ NoLiveSocket
    BY <2>2, <2>3 DEF StartAlone
  <2>7. NoLiveSocket'
    BY <2>3, <2>6 DEF NoLiveSocket, LiveSocket
  <2>8. Named'
    BY <2>2, <2>3, <2>4, <2>5, <2>6, <2>7
       DEF Named, LiveSensor, LiveSocket, NoLiveSensor, NoLiveSocket, Restated, Appended
  <2>9. StartAlone'
    BY <2>2, <2>3, <2>4, <2>5, <2>6, <2>7
       DEF StartAlone, LiveSensor, LiveSocket, NoLiveSensor, NoLiveSocket, Restated,
           Appended
  <2>10. DropAlone'
    <3>1. dropStep = "none" /\ retrying = <<>> /\ reconnectJob = 0
      BY <2>2, <2>3 DEF StartAlone
    <3> QED
      BY <2>3, <3>1 DEF DropAlone
  <2>11. Settled'
    BY <2>2, <2>3, <2>4, <2>5, <2>6, <2>7
       DEF Settled, LiveSensor, LiveSocket, NoLiveSensor, NoLiveSocket, Restated,
           Appended, ServiceTyped
  <2> QED
    BY <2>8, <2>9, <2>10, <2>11
<1>4. ASSUME NEW k \in 1 .. Len(sensors), OnConnected(k)
      PROVE  Alone'
  <2> SUFFICES ASSUME ~overtaken', ~crossed'
               PROVE  Named' /\ StartAlone' /\ DropAlone' /\ Settled'
    BY DEF Alone
  <2>1. ~overtaken /\ ~crossed
    BY <1>4 DEF OnConnected
  <2>2. Named /\ StartAlone /\ DropAlone /\ Settled
    BY <2>1 DEF Alone
  <2>3. /\ sensors[k].state = "scan" /\ dropStep = "none" /\ k = sensor /\ NoLiveSocket
        /\ UNCHANGED <<generation, sensor, reconnectJob, retrying, starting, dropStep>>
    BY <1>4, <2>2 DEF OnConnected, Named, LiveSensor
  <2>4. Restated(sensors, sensors', k, {"linked"})
    BY <1>4, SensorRestated DEF OnConnected, SensorStates
  <2>5. /\ ~NoLiveSensor /\ reconnectJob = 0 /\ retrying = <<>> /\ starting # "scan"
    BY <2>2, <2>3 DEF NoLiveSensor, LiveSensor, DropAlone, StartAlone
  <2>6. starting # "none" => UNCHANGED <<sockets, socket>>
    BY <1>4, <2>2, <2>3 DEF OnConnected, Stale, StartAlone
  <2>7. starting = "none" =>
            /\ sensors[k].run = generation /\ socket' = Len(sockets) + 1
            /\ Appended(sockets, sockets', generation, "opening") /\ Len(sockets) \in Nat
    <3> SUFFICES ASSUME starting = "none"
                 PROVE  /\ sensors[k].run = generation /\ socket' = Len(sockets) + 1
                        /\ Appended(sockets, sockets', generation, "opening")
                        /\ Len(sockets) \in Nat
      OBVIOUS
    <3>1. sensors[k].run = generation
      BY <2>2, <2>3 DEF Named, LiveSensor
    <3>2. /\ socket' = Len(sockets) + 1
          /\ sockets' = Append(sockets, [run |-> generation, state |-> "opening"])
      BY <1>4, <3>1 DEF OnConnected, Stale
    <3>3. generation \in 1 .. generation
      BY <3>1, RunsSoFar
    <3> QED
      BY <3>1, <3>2, <3>3, SocketAppended
  <2>8. Named'
    <3>1. \A j \in 1 .. Len(sensors') : LiveSensor(j)' =>
              j = sensor' /\ (starting' = "none" => sensors'[j].run = generation')
      BY <2>2, <2>3, <2>4 DEF Named, LiveSensor, Restated
    <3>2. \A j \in 1 .. Len(sensors') : sensors'[j].state # "scan"
      BY <2>2, <2>3, <2>4 DEF Named, LiveSensor, Restated
    <3>3. \A j \in 1 .. Len(sockets') : LiveSocket(j)' =>
              j = socket' /\ (starting' = "none" => sockets'[j].run = generation')
      <4>1. CASE starting = "none"
        <5>1. \A j \in 1 .. Len(sockets) : sockets'[j].state \notin {"opening", "open"}
          BY <2>3, <2>7, <4>1 DEF NoLiveSocket, LiveSocket, Appended
        <5> QED
          BY <2>3, <2>7, <4>1, <5>1 DEF LiveSocket, Appended
      <4>2. CASE starting # "none"
        BY <2>3, <2>6, <4>2 DEF NoLiveSocket, LiveSocket
      <4> QED
        BY <4>1, <4>2
    <3> QED
      BY <3>1, <3>2, <3>3 DEF Named
  <2>9. StartAlone'
    BY <2>2, <2>3, <2>4, <2>5, <2>6, <2>7
       DEF StartAlone, LiveSensor, LiveSocket, NoLiveSensor, NoLiveSocket, Restated,
           Appended
  <2>10. DropAlone'
    BY <2>2, <2>3, <2>4, <2>5, <2>6, <2>7
       DEF DropAlone, LiveSensor, LiveSocket, NoLiveSensor, NoLiveSocket, Restated,
           Appended
  <2>11. Settled'
    BY <2>2, <2>3, <2>4, <2>5, <2>6, <2>7
       DEF Settled, LiveSensor, LiveSocket, NoLiveSensor, NoLiveSocket, Restated,
           Appended, ServiceTyped
  <2> QED
    BY <2>8, <2>9, <2>10, <2>11
<1>5. ASSUME NEW k \in 1 .. Len(sensors), OnSensorLost(k)
      PROVE  Alone'
  <2> SUFFICES ASSUME ~overtaken', ~crossed'
               PROVE  Named' /\ StartAlone' /\ DropAlone' /\ Settled'
    BY DEF Alone
  <2>1. ~overtaken /\ ~crossed
    BY <1>5 DEF OnSensorLost, SoftDrop
  <2>2. Named /\ StartAlone /\ DropAlone /\ Settled
    BY <2>1 DEF Alone
  <2>3. /\ UNCHANGED <<generation, sockets, sensor, socket, reconnectJob, retrying,
                       starting, shown>>
        /\ SoftDrop(sensors[k].run) /\ sensors[k].run \in 1 .. generation
    BY <1>5, RunsSoFar DEF OnSensorLost, fields
  <2>4. Restated(sensors, sensors', k, {"lost"}) /\ LiveSensor(k)
    BY <1>5, SensorRestated DEF OnSensorLost, SensorStates, LiveSensor
  <2>5. /\ k = sensor /\ reconnectJob = 0 /\ retrying = <<>> /\ starting # "scan"
        /\ dropStep # "schedule"
        /\ starting = "none" => sensors[k].run = generation
    BY <2>2, <2>4 DEF Named, DropAlone, StartAlone, NoLiveSensor
  <2>6. NoLiveSensor'
    BY <2>2, <2>4, <2>5 DEF Named, NoLiveSensor, LiveSensor, Restated
  <2>7. /\ starting # "none" => UNCHANGED <<dropStep, dropRun>>
        /\ starting = "none" /\ dropStep = "none" => dropStep' = "close" /\ dropRun' = generation
        /\ dropStep # "none" => UNCHANGED <<dropStep, dropRun>>
    BY <2>2, <2>3, <2>5, SoftDropFacts DEF StartAlone
  <2>8. Named'
    BY <2>2, <2>3, <2>4, <2>5, <2>6, <2>7
       DEF Named, LiveSensor, LiveSocket, NoLiveSensor, NoLiveSocket, Restated, Appended
  <2>9. StartAlone'
    BY <2>2, <2>3, <2>4, <2>5, <2>6, <2>7
       DEF StartAlone, LiveSensor, LiveSocket, NoLiveSensor, NoLiveSocket, Restated,
           Appended
  <2>10. DropAlone'
    BY <2>2, <2>3, <2>4, <2>5, <2>6, <2>7
       DEF DropAlone, LiveSensor, LiveSocket, NoLiveSensor, NoLiveSocket, Restated,
           Appended
  <2>11. Settled'
    BY <2>2, <2>3, <2>4, <2>5, <2>6, <2>7
       DEF Settled, LiveSensor, LiveSocket, NoLiveSensor, NoLiveSocket, Restated,
           Appended, ServiceTyped
  <2> QED
    BY <2>8, <2>9, <2>10, <2>11
<1>6. ASSUME NEW k \in 1 .. Len(sockets), OnOpen(k)
      PROVE  Alone'
  <2> SUFFICES ASSUME ~overtaken', ~crossed'
               PROVE  Named' /\ StartAlone' /\ DropAlone' /\ Settled'
    BY DEF Alone
  <2>1. ~overtaken /\ ~crossed
    BY <1>6 DEF OnOpen
  <2>2. Named /\ StartAlone /\ DropAlone /\ Settled
    BY <2>1 DEF Alone
  <2>3. /\ UNCHANGED <<generation, sensors, sensor, socket, reconnectJob, retrying,
                       starting, dropStep, dropRun>>
        /\ sockets[k].state = "opening"
    BY <1>6 DEF OnOpen
  <2>4. Restated(sockets, sockets', k, {"open"})
    BY <1>6, SocketRestated DEF OnOpen, SocketStates
  <2>5. LiveSocket(k) /\ k = socket /\ \A j \in 1 .. Len(sockets) : LiveSocket(j)' <=> LiveSocket(j)
    BY <2>2, <2>3, <2>4 DEF LiveSocket, Restated, Named
  <2>6. NoLiveSocket' <=> NoLiveSocket
    BY <2>4, <2>5 DEF NoLiveSocket, Restated
  <2>7. NoLiveSensor' <=> NoLiveSensor
    BY <2>3 DEF NoLiveSensor, LiveSensor
  <2>8. Named'
    BY <2>2, <2>3, <2>4, <2>5, <2>6, <2>7
       DEF Named, LiveSensor, LiveSocket, NoLiveSensor, NoLiveSocket, Restated, Appended
  <2>9. StartAlone'
    BY <2>2, <2>3, <2>4, <2>5, <2>6, <2>7
       DEF StartAlone, LiveSensor, LiveSocket, NoLiveSensor, NoLiveSocket, Restated,
           Appended
  <2>10. DropAlone'
    BY <2>2, <2>3, <2>4, <2>5, <2>6, <2>7
       DEF DropAlone, LiveSensor, LiveSocket, NoLiveSensor, NoLiveSocket, Restated,
           Appended
  <2>11. Settled'
    <3> SUFFICES ASSUME starting = "none", dropStep = "none"
                 PROVE  Settled'
      BY <2>3 DEF Settled
    <3>1. sensor # 0 /\ sensors[sensor].state = "linked"
      BY <2>2, <2>5 DEF Settled
    <3>2. sensor \in 1 .. Len(sensors) /\ LiveSensor(sensor)
      BY <3>1 DEF ServiceTyped, LiveSensor
    <3>3. sensors[sensor].run = generation
      BY <2>2, <3>2 DEF Named
    <3>4. socket # 0 /\ LiveSocket(socket)'
      BY <2>3, <2>5
    <3> QED
      BY <2>3, <3>1, <3>3, <3>4 DEF Settled, LiveSocket
  <2> QED
    BY <2>8, <2>9, <2>10, <2>11
<1>7. ASSUME NEW k \in 1 .. Len(sockets), OnClosed(k)
      PROVE  Alone'
  <2> SUFFICES ASSUME ~overtaken', ~crossed'
               PROVE  Named' /\ StartAlone' /\ DropAlone' /\ Settled'
    BY DEF Alone
  <2>1. ~overtaken /\ ~crossed
    BY <1>7 DEF OnClosed, SoftDrop
  <2>2. Named /\ StartAlone /\ DropAlone /\ Settled
    BY <2>1 DEF Alone
  <2>3. /\ UNCHANGED <<generation, sensors, sensor, socket, reconnectJob, retrying,
                       starting, shown>>
        /\ SoftDrop(sockets[k].run) /\ sockets[k].run \in 1 .. generation
    BY <1>7, RunsSoFar DEF OnClosed, fields
  <2>4. Restated(sockets, sockets', k, {"closed"})
    BY <1>7, SocketRestated DEF OnClosed, SocketStates
  <2>5. \A j \in 1 .. Len(sockets) : LiveSocket(j)' <=> LiveSocket(j) /\ j # k
    BY <2>4 DEF LiveSocket, Restated
  <2>6. /\ NoLiveSocket => NoLiveSocket'
        /\ Len(sockets') = Len(sockets) /\ (NoLiveSensor' <=> NoLiveSensor)
    BY <2>3, <2>4, <2>5 DEF NoLiveSocket, NoLiveSensor, LiveSensor, Restated
  <2>7. /\ sockets[k].run = generation /\ dropStep = "none" =>
               dropStep' = "close" /\ dropRun' = generation /\ retrying = <<>>
        /\ sockets[k].run # generation \/ dropStep # "none" => UNCHANGED <<dropStep,
                                                                           dropRun>>
    BY <2>3, SoftDropFacts
  <2>8. Named'
    BY <2>2, <2>3, <2>4, <2>5, <2>6, <2>7
       DEF Named, LiveSensor, LiveSocket, NoLiveSensor, NoLiveSocket, Restated, Appended
  <2>9. StartAlone'
    BY <2>2, <2>3, <2>4, <2>5, <2>6, <2>7
       DEF StartAlone, LiveSensor, LiveSocket, NoLiveSensor, NoLiveSocket, Restated,
           Appended
  <2>10. DropAlone'
    BY <2>2, <2>3, <2>4, <2>5, <2>6, <2>7
       DEF DropAlone, LiveSensor, LiveSocket, NoLiveSensor, NoLiveSocket, Restated,
           Appended
  <2>11. Settled'
    <3> SUFFICES ASSUME starting = "none", dropStep' = "none"
                 PROVE  Settled'
      BY <2>3 DEF Settled
    <3>1. dropStep = "none" /\ sockets[k].run # generation
      BY <2>7
    <3>2. ~LiveSocket(k)
      BY <2>2, <3>1 DEF Named
    <3>3. \A j \in 1 .. Len(sockets) : LiveSocket(j)' <=> LiveSocket(j)
      BY <2>5, <3>2
    <3>4. socket # 0 => socket \in 1 .. Len(sockets)
      BY DEF ServiceTyped
    <3>5. socket # 0 => (LiveSocket(socket)' <=> LiveSocket(socket))
      BY <2>3, <3>3, <3>4
    <3>6. \A j \in 1 .. Len(sockets') : LiveSocket(j)' =>
              sensor' # 0 /\ sensors'[sensor'].state = "linked"
      BY <2>2, <2>3, <2>6, <3>1, <3>3 DEF Settled
    <3> QED
      BY <2>2, <2>3, <3>1, <3>5, <3>6 DEF Settled, LiveSocket
  <2> QED
    BY <2>8, <2>9, <2>10, <2>11
<1>8. CASE SendFails
  <2> SUFFICES ASSUME ~overtaken', ~crossed'
               PROVE  Named' /\ StartAlone' /\ DropAlone' /\ Settled'
    BY DEF Alone
  <2>1. ~overtaken /\ ~crossed
    BY <1>8 DEF SendFails, SoftDrop
  <2>2. Named /\ StartAlone /\ DropAlone /\ Settled
    BY <2>1 DEF Alone
  <2>3. /\ UNCHANGED <<generation, sensors, sockets, sensor, socket, reconnectJob,
                       retrying, starting, shown>>
        /\ SoftDrop(generation) /\ starting = "none" /\ socket # 0
        /\ sockets[socket].state = "open"
    BY <1>8 DEF SendFails, fields
  <2>4. socket \in 1 .. Len(sockets) /\ LiveSocket(socket)
        /\ generation \in 1 .. generation
    BY <2>3, RunsSoFar DEF ServiceTyped, LiveSocket
  <2>5. /\ dropStep = "none" => dropStep' = "close" /\ dropRun' = generation /\ retrying = <<>>
        /\ dropStep # "none" => UNCHANGED <<dropStep, dropRun>>
    BY <2>3, <2>4, SoftDropFacts
  <2>6. (NoLiveSocket' <=> NoLiveSocket) /\ (NoLiveSensor' <=> NoLiveSensor)
    BY <2>3 DEF NoLiveSocket, NoLiveSensor, LiveSensor, LiveSocket
  <2>7. Named'
    BY <2>2, <2>3, <2>4, <2>5, <2>6
       DEF Named, LiveSensor, LiveSocket, NoLiveSensor, NoLiveSocket, Restated, Appended
  <2>8. StartAlone'
    BY <2>2, <2>3, <2>4, <2>5, <2>6
       DEF StartAlone, LiveSensor, LiveSocket, NoLiveSensor, NoLiveSocket, Restated,
           Appended
  <2>9. DropAlone'
    BY <2>2, <2>3, <2>4, <2>5, <2>6
       DEF DropAlone, LiveSensor, LiveSocket, NoLiveSensor, NoLiveSocket, Restated,
           Appended
  <2>10. Settled'
    BY <2>2, <2>3, <2>4, <2>5, <2>6
       DEF Settled, LiveSensor, LiveSocket, NoLiveSensor, NoLiveSocket, Restated,
           Appended, ServiceTyped
  <2> QED
    BY <2>7, <2>8, <2>9, <2>10
<1>9. CASE DropCloses
  <2> SUFFICES ASSUME ~overtaken', ~crossed'
               PROVE  Named' /\ StartAlone' /\ DropAlone' /\ Settled'
    BY DEF Alone
  <2>1. ~overtaken /\ ~crossed
    BY <1>9 DEF DropCloses
  <2>2. Named /\ StartAlone /\ DropAlone /\ Settled
    BY <2>1 DEF Alone
  <2>3. /\ UNCHANGED <<generation, sensors, sensor, reconnectJob, retrying, starting,
                       dropRun>>
        /\ dropStep = "close" /\ dropStep' = "stop" /\ socket' = 0
    BY <1>9 DEF DropCloses
  <2>4. Restated(sockets, sockets', socket, {"closing", "closed"})
    BY <1>9, SocketClosedFacts DEF DropCloses
  <2>5. NoLiveSocket' /\ (NoLiveSensor' <=> NoLiveSensor) /\ starting = "none"
    BY <2>2, <2>3, <2>4
       DEF Named, NoLiveSocket, NoLiveSensor, LiveSensor, LiveSocket, Restated,
           StartAlone
  <2>6. Named'
    BY <2>2, <2>3, <2>4, <2>5
       DEF Named, LiveSensor, LiveSocket, NoLiveSensor, NoLiveSocket, Restated, Appended
  <2>7. StartAlone'
    BY <2>2, <2>3, <2>4, <2>5
       DEF StartAlone, LiveSensor, LiveSocket, NoLiveSensor, NoLiveSocket, Restated,
           Appended
  <2>8. DropAlone'
    BY <2>2, <2>3, <2>4, <2>5
       DEF DropAlone, LiveSensor, LiveSocket, NoLiveSensor, NoLiveSocket, Restated,
           Appended
  <2>9. Settled'
    BY <2>2, <2>3, <2>4, <2>5
       DEF Settled, LiveSensor, LiveSocket, NoLiveSensor, NoLiveSocket, Restated,
           Appended, ServiceTyped
  <2> QED
    BY <2>6, <2>7, <2>8, <2>9
<1>10. CASE DropStops
  <2> SUFFICES ASSUME ~overtaken', ~crossed'
               PROVE  Named' /\ StartAlone' /\ DropAlone' /\ Settled'
    BY DEF Alone
  <2>1. ~overtaken /\ ~crossed
    BY <1>10 DEF DropStops
  <2>2. Named /\ StartAlone /\ DropAlone /\ Settled
    BY <2>1 DEF Alone
  <2>3. /\ UNCHANGED <<generation, sockets, sensor, socket, reconnectJob, retrying,
                       starting, dropRun>>
        /\ dropStep = "stop" /\ dropStep' = "schedule"
    BY <1>10 DEF DropStops, fields
  <2>4. Restated(sensors, sensors', sensor, {"stopped"})
    BY <1>10, SensorStoppedFacts DEF DropStops
  <2>5. NoLiveSensor' /\ NoLiveSocket' /\ starting = "none"
    BY <2>2, <2>3, <2>4
       DEF Named, NoLiveSocket, NoLiveSensor, LiveSensor, LiveSocket, Restated,
           StartAlone, DropAlone
  <2>6. Named'
    BY <2>2, <2>3, <2>4, <2>5
       DEF Named, LiveSensor, LiveSocket, NoLiveSensor, NoLiveSocket, Restated, Appended
  <2>7. StartAlone'
    BY <2>2, <2>3, <2>4, <2>5
       DEF StartAlone, LiveSensor, LiveSocket, NoLiveSensor, NoLiveSocket, Restated,
           Appended
  <2>8. DropAlone'
    BY <2>2, <2>3, <2>4, <2>5
       DEF DropAlone, LiveSensor, LiveSocket, NoLiveSensor, NoLiveSocket, Restated,
           Appended
  <2>9. Settled'
    BY <2>2, <2>3, <2>4, <2>5
       DEF Settled, LiveSensor, LiveSocket, NoLiveSensor, NoLiveSocket, Restated,
           Appended, ServiceTyped
  <2> QED
    BY <2>6, <2>7, <2>8, <2>9
<1>11. CASE DropSchedules
  <2> SUFFICES ASSUME ~overtaken', ~crossed'
               PROVE  Named' /\ StartAlone' /\ DropAlone' /\ Settled'
    BY DEF Alone
  <2>1. ~overtaken /\ ~crossed
    BY <1>11 DEF DropSchedules
  <2>2. Named /\ StartAlone /\ DropAlone /\ Settled
    BY <2>1 DEF Alone
  <2>3. /\ UNCHANGED <<generation, sensors, sockets, sensor, socket, retrying, starting>>
        /\ dropStep = "schedule" /\ dropStep' = "none"
    BY <1>11 DEF DropSchedules
  <2>4. NoLiveSensor' /\ NoLiveSocket' /\ starting = "none" /\ dropRun = generation
        /\ retrying = <<>>
    BY <2>2, <2>3
       DEF NoLiveSocket, NoLiveSensor, LiveSensor, LiveSocket, StartAlone, DropAlone
  <2>5. \/ shown' = "failed" /\ reconnectJob' = reconnectJob
        \/ reconnectJob' = generation
    BY <1>11, <2>4 DEF DropSchedules, Stale
  <2>6. Named'
    BY <2>2, <2>3, <2>4, <2>5
       DEF Named, LiveSensor, LiveSocket, NoLiveSensor, NoLiveSocket, Restated, Appended
  <2>7. StartAlone'
    BY <2>2, <2>3, <2>4, <2>5
       DEF StartAlone, LiveSensor, LiveSocket, NoLiveSensor, NoLiveSocket, Restated,
           Appended
  <2>8. DropAlone'
    BY <2>2, <2>3, <2>4, <2>5
       DEF DropAlone, LiveSensor, LiveSocket, NoLiveSensor, NoLiveSocket, Restated,
           Appended
  <2>9. Settled'
    BY <2>2, <2>3, <2>4, <2>5
       DEF Settled, LiveSensor, LiveSocket, NoLiveSensor, NoLiveSocket, Restated,
           Appended, ServiceTyped
  <2> QED
    BY <2>6, <2>7, <2>8, <2>9
<1>12. CASE RetryTests
  <2> SUFFICES ASSUME ~overtaken', ~crossed'
               PROVE  Named' /\ StartAlone' /\ DropAlone' /\ Settled'
    BY DEF Alone
  <2>1. ~overtaken /\ ~crossed
    BY <1>12 DEF RetryTests
  <2>2. Named /\ StartAlone /\ DropAlone /\ Settled
    BY <2>1 DEF Alone
  <2>3. /\ UNCHANGED <<generation, sensors, sockets, sensor, socket, starting, dropStep,
                       dropRun>>
        /\ reconnectJob # 0 /\ reconnectJob' = 0 /\ dropStep = "none"
    BY <1>12 DEF RetryTests
  <2>4. /\ NoLiveSensor' /\ NoLiveSocket' /\ starting = "none"
        /\ reconnectJob = generation /\ retrying = <<>>
    BY <2>2, <2>3
       DEF NoLiveSocket, NoLiveSensor, LiveSensor, LiveSocket, StartAlone, DropAlone,
           ServiceTyped
  <2>5. retrying' = <<generation>>
    BY <1>12, <2>4 DEF RetryTests, Stale
  <2>6. Named'
    BY <2>2, <2>3, <2>4, <2>5
       DEF Named, LiveSensor, LiveSocket, NoLiveSensor, NoLiveSocket, Restated, Appended
  <2>7. StartAlone'
    BY <2>2, <2>3, <2>4, <2>5
       DEF StartAlone, LiveSensor, LiveSocket, NoLiveSensor, NoLiveSocket, Restated,
           Appended
  <2>8. DropAlone'
    BY <2>2, <2>3, <2>4, <2>5
       DEF DropAlone, LiveSensor, LiveSocket, NoLiveSensor, NoLiveSocket, Restated,
           Appended
  <2>9. Settled'
    BY <2>2, <2>3, <2>4, <2>5
       DEF Settled, LiveSensor, LiveSocket, NoLiveSensor, NoLiveSocket, Restated,
           Appended, ServiceTyped
  <2> QED
    BY <2>6, <2>7, <2>8, <2>9
<1>13. ASSUME NEW k \in 1 .. Len(retrying), RetryScans(k)
       PROVE  Alone'
  <2> SUFFICES ASSUME ~overtaken', ~crossed'
               PROVE  Named' /\ StartAlone' /\ DropAlone' /\ Settled'
    BY DEF Alone
  <2>1. ~overtaken /\ ~crossed
    BY <1>13 DEF RetryScans
  <2>2. Named /\ StartAlone /\ DropAlone /\ Settled
    BY <2>1 DEF Alone
  <2>3. /\ Len(retrying) = 1 /\ retrying[k] = generation /\ reconnectJob = 0
        /\ NoLiveSensor /\ NoLiveSocket /\ dropStep = "none" /\ starting = "none"
    BY <2>2 DEF DropAlone, StartAlone, ServiceTyped
  <2>4. /\ generation \in 1 .. generation /\ Scans(generation) /\ retrying' = <<>>
        /\ UNCHANGED <<generation, sockets, socket, reconnectJob, starting, dropStep>>
    BY <1>13, <2>3, RunsSoFar, RemoveAtFacts DEF RetryScans, ServiceTyped
  <2>5. /\ Appended(sensors, sensors', generation, "scan") /\ Len(sensors) \in Nat
        /\ sensor' = Len(sensors) + 1
    BY <2>4, ScansFacts
  <2>6. NoLiveSocket'
    BY <2>3, <2>4 DEF NoLiveSocket, LiveSocket
  <2>7. Named'
    BY <2>2, <2>3, <2>4, <2>5, <2>6
       DEF Named, LiveSensor, LiveSocket, NoLiveSensor, NoLiveSocket, Restated, Appended
  <2>8. StartAlone'
    BY <2>2, <2>3, <2>4, <2>5, <2>6
       DEF StartAlone, LiveSensor, LiveSocket, NoLiveSensor, NoLiveSocket, Restated,
           Appended
  <2>9. DropAlone'
    BY <2>2, <2>3, <2>4, <2>5, <2>6
       DEF DropAlone, LiveSensor, LiveSocket, NoLiveSensor, NoLiveSocket, Restated,
           Appended
  <2>10. Settled'
    <3>1. sensor' # 0 /\ sensors'[sensor'].run = generation
          /\ sensors'[sensor'].state = "scan"
      BY <2>5 DEF Appended
    <3> QED
      BY <2>4, <2>6, <3>1 DEF Settled, NoLiveSocket
  <2> QED
    BY <2>7, <2>8, <2>9, <2>10
<1>14. CASE UNCHANGED serviceVars
  BY <1>14 DEF serviceVars, Alone, Named, StartAlone, DropAlone, Settled, NoLiveSensor,
         NoLiveSocket, LiveSensor, LiveSocket
<1> QED
  BY <1>1, <1>2, <1>3, <1>4, <1>5, <1>6, <1>7, <1>8, <1>9, <1>10, <1>11, <1>12, <1>13,
     <1>14 DEF ServiceNext

LEMMA ServiceInvariant == ServiceSpec => [](ServiceTyped /\ Alone)
<1>1. ServiceInit => ServiceTyped
  <2> SUFFICES ASSUME ServiceInit
               PROVE  ServiceTyped
    OBVIOUS
  <2>1. /\ <<>> \in Seq([run : 1 .. generation, state : SensorStates])
        /\ <<>> \in Seq([run : 1 .. generation, state : SocketStates])
        /\ <<>> \in Seq(1 .. generation) /\ Len(<<>>) = 0
    OBVIOUS
  <2> QED
    BY <2>1, RelayServiceAssumption DEF ServiceInit, ServiceTyped
<1>2. ServiceInit => Alone
  BY
     DEF ServiceInit, Alone, Named, StartAlone, DropAlone, Settled, NoLiveSensor,
         NoLiveSocket
<1> QED
  BY <1>1, <1>2, ServiceTypedNext, AloneNext, PTL DEF ServiceSpec

\* The fields name links that were made, every link is of a run that was started, and the
\* attempts stay within the limit.
THEOREM ServiceTypeCorrect == ServiceSpec => []ServiceTypeOK
<1>1. ServiceTyped => ServiceTypeOK
  <2> SUFFICES ASSUME ServiceTyped
               PROVE  ServiceTypeOK
    OBVIOUS
  <2>1. 1 .. generation \subseteq 1 .. MaxStarts
    BY RelayServiceAssumption DEF ServiceTyped
  <2>2. \A k \in 1 .. Len(sensors) : sensors[k] \in [run : 1 .. generation, state : SensorStates]
    BY ElementOfSeq DEF ServiceTyped
  <2>3. \A k \in 1 .. Len(sockets) : sockets[k] \in [run : 1 .. generation, state : SocketStates]
    BY ElementOfSeq DEF ServiceTyped
  <2>4. \A k \in 1 .. Len(sensors) :
            sensors[k] \in [run : 1 .. MaxStarts, state : {"scan", "linked", "lost", "stopped"}]
    BY <2>1, <2>2 DEF SensorStates
  <2>5. \A k \in 1 .. Len(sockets) :
            sockets[k] \in [run : 1 .. MaxStarts,
                            state : {"opening", "open", "closing", "closed"}]
    BY <2>1, <2>3 DEF SocketStates
  <2> QED
    BY <2>4, <2>5 DEF ServiceTyped, ServiceTypeOK
<1> QED
  BY ServiceInvariant, <1>1, PTL

\* A set with no two members has at most one.
LEMMA AtMostOne ==
  ASSUME NEW S, NEW x, S \subseteq {x}
  PROVE  Cardinality(S) <= 1
<1>1. IsFiniteSet({x}) /\ Cardinality({x}) = 1
  BY FS_Singleton
<1> QED
  BY <1>1, FS_Subset

\* However starts, drops and retries follow each other, there is one device link and one
\* socket, unless they crossed.
THEOREM LinksAreSingle == ServiceSpec => []OneLinkAtATime
<1>1. Alone => OneLinkAtATime
  <2> SUFFICES ASSUME Alone, ~overtaken, ~crossed
               PROVE  /\ Cardinality({k \in 1 .. Len(sensors) : LiveSensor(k)}) <= 1
                      /\ Cardinality({k \in 1 .. Len(sockets) : LiveSocket(k)}) <= 1
    BY DEF OneLinkAtATime
  <2>1. /\ {k \in 1 .. Len(sensors) : LiveSensor(k)} \subseteq {sensor}
        /\ {k \in 1 .. Len(sockets) : LiveSocket(k)} \subseteq {socket}
    BY DEF Alone, Named
  <2> QED
    BY <2>1, AtMostOne
<1> QED
  BY ServiceInvariant, <1>1, PTL

\* With nobody at work the service scans, has its device and socket, waits for a retry, or
\* has told the user that it gave up, unless starts, drops and retries crossed.
THEOREM ServiceGoesOn == ServiceSpec => []NeverStranded
<1>1. ServiceTyped /\ Alone => NeverStranded
  <2> SUFFICES ASSUME ServiceTyped, Alone, ~overtaken, ~crossed, AtRest,
                      shown # "failed", reconnectJob # generation
               PROVE  \E k \in 1 .. Len(sensors) :
                          /\ sensors[k].run = generation
                          /\ \/ sensors[k].state = "scan"
                             \/ sensors[k].state = "linked" /\ socket # 0 /\ LiveSocket(socket)
    BY DEF NeverStranded
  <2>1. /\ sensor # 0 /\ sensors[sensor].run = generation
        /\ \/ sensors[sensor].state = "scan"
           \/ sensors[sensor].state = "linked" /\ socket # 0 /\ LiveSocket(socket)
    BY DEF Alone, Settled, AtRest
  <2>2. sensor \in 1 .. Len(sensors)
    BY <2>1 DEF ServiceTyped
  <2> QED
    BY <2>1, <2>2
<1> QED
  BY ServiceInvariant, <1>1, PTL
=============================================================================
