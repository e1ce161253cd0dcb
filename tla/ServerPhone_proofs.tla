------------------------- MODULE ServerPhone_proofs -------------------------
(***************************************************************************)
(* The two ends of the relayed link, for every choice of their constants:  *)
(* the server's packet reassembler and settings reconciler, and the        *)
(* phone's relay session.                                                  *)
(*                                                                         *)
(* InOrder is not inductive: that the drain extends the order needs the    *)
(* cursor between what was handed on and what is held (CursorSplits).      *)
(* Ordered(...) is that argument about one outcome of the skip, so that it *)
(* can be used after the skip as well as in a state.                       *)
(*                                                                         *)
(* NoDuplicateInFlight is not inductive.  That a reconcile finds the       *)
(* command it would repeat needs the idempotency key of every command in   *)
(* flight to lead to that command (KeyHeld), and that needs whoever still  *)
(* refers to a command to refer to one that was issued (InPlayIssued).     *)
(*                                                                         *)
(* OnceOnWire is not inductive either: a packet can also be held, about to *)
(* be flushed or in the GATT thread's hands.  OnePlace says it is in two   *)
(* of these places only if the server asked for it, or while start() has   *)
(* read the held audio and not yet cleared it; Numbered keeps a new packet *)
(* from being an old one, and Greeting the hello and the bye from          *)
(* repeating.                                                              *)
(***************************************************************************)
EXTENDS MCServerPhone, Filter_proofs

-----------------------------------------------------------------------------
\* THE REASSEMBLER

Below(s, n) == \A i \in 1 .. Len(s) : s[i] < n

Rising(s) == \A i, j \in 1 .. Len(s) : i < j => s[i] < s[j]

Has(s, e) == \E i \in 1 .. Len(s) : s[i] = e

\* Cursor n, held B, parked p and handed on d are where they should be.
Ordered(n, B, p, d) ==
    /\ n \in Nat
    /\ B \in SUBSET Nat
    /\ p \in Seq(Nat)
    /\ d \in Seq(Nat)
    /\ Below(d, n)
    /\ Below(p, n)
    /\ \A b \in B : n < b
    /\ Rising(d)
    /\ Rising(p)
    /\ \A i \in 1 .. Len(d), j \in 1 .. Len(p) : d[i] < p[j]

\* Run(n, m) counts from n up to m - 1.
LEMMA RunFacts ==
    ASSUME NEW n \in Nat, NEW m \in Nat, n <= m
    PROVE  /\ Run(n, m) \in Seq(Nat)
           /\ Len(Run(n, m)) = m - n
           /\ \A i \in 1 .. (m - n) : Run(n, m)[i] = n + i - 1
<1>1. m - n \in Nat
  OBVIOUS
<1>2. \A i \in 1 .. (m - n) : n + i - 1 \in Nat
  OBVIOUS
<1>. QED
  BY <1>1, <1>2 DEF Run

\* Indexing a concatenation.
LEMMA ConcatFacts ==
    ASSUME NEW s \in Seq(Nat), NEW t \in Seq(Nat)
    PROVE  /\ s \o t \in Seq(Nat)
           /\ Len(s \o t) = Len(s) + Len(t)
           /\ \A i \in 1 .. Len(s) : (s \o t)[i] = s[i]
           /\ \A i \in 1 .. Len(t) : (s \o t)[Len(s) + i] = t[i]
           /\ \A i \in 1 .. Len(s \o t) : i <= Len(s) \/ i - Len(s) \in 1 .. Len(t)
<1>1. Len(s) \in Nat /\ Len(t) \in Nat
  OBVIOUS
<1>2. s \o t \in Seq(Nat) /\ Len(s \o t) = Len(s) + Len(t)
  OBVIOUS
<1>3. \A i \in 1 .. Len(s) : (s \o t)[i] = s[i]
  OBVIOUS
<1>4. ASSUME NEW i \in 1 .. Len(t) PROVE (s \o t)[Len(s) + i] = t[i]
  BY <1>1
<1>. QED
  BY <1>1, <1>2, <1>3, <1>4

\* Joining two rising sequences, the first below the second.
LEMMA JoinRising ==
    ASSUME NEW s \in Seq(Nat), NEW t \in Seq(Nat), Rising(s), Rising(t),
           \A i \in 1 .. Len(s), j \in 1 .. Len(t) : s[i] < t[j]
    PROVE  Rising(s \o t)
<1> DEFINE u == s \o t
<1>1. /\ Len(u) = Len(s) + Len(t)
      /\ \A i \in 1 .. Len(s) : u[i] = s[i]
      /\ \A i \in 1 .. Len(u) :
           i <= Len(s) \/ (i - Len(s) \in 1 .. Len(t) /\ u[i] = t[i - Len(s)])
  <2>1. /\ Len(u) = Len(s) + Len(t)
        /\ \A i \in 1 .. Len(s) : u[i] = s[i]
        /\ \A i \in 1 .. Len(t) : u[Len(s) + i] = t[i]
        /\ \A i \in 1 .. Len(u) : i <= Len(s) \/ i - Len(s) \in 1 .. Len(t)
    BY ConcatFacts
  <2>2. ASSUME NEW i \in 1 .. Len(u), ~(i <= Len(s))
        PROVE  i - Len(s) \in 1 .. Len(t) /\ u[i] = t[i - Len(s)]
    <3>1. i - Len(s) \in 1 .. Len(t)
      BY <2>1, <2>2
    <3>2. Len(s) + (i - Len(s)) = i
      OBVIOUS
    <3>3. u[Len(s) + (i - Len(s))] = t[i - Len(s)]
      BY <2>1, <3>1
    <3>. QED
      BY <3>1, <3>2, <3>3
  <2>. QED
    BY <2>1, <2>2
<1>2. Len(s) \in Nat /\ Len(t) \in Nat
  OBVIOUS
<1>3. ASSUME NEW i \in 1 .. Len(u), NEW j \in 1 .. Len(u), i < j
      PROVE  u[i] < u[j]
  <2>1. CASE j <= Len(s)
    <3>1. i \in 1 .. Len(s) /\ j \in 1 .. Len(s)
      BY <1>1, <1>2, <1>3, <2>1
    <3>. QED
      BY <1>1, <1>3, <3>1 DEF Rising
  <2>2. CASE ~(j <= Len(s)) /\ i <= Len(s)
    <3>1. i \in 1 .. Len(s) /\ u[i] = s[i]
      BY <1>1, <1>2, <2>2
    <3>2. j - Len(s) \in 1 .. Len(t) /\ u[j] = t[j - Len(s)]
      BY <1>1, <2>2
    <3>. QED
      BY <3>1, <3>2
  <2>3. CASE ~(j <= Len(s)) /\ ~(i <= Len(s))
    <3>1. i - Len(s) \in 1 .. Len(t) /\ u[i] = t[i - Len(s)]
      BY <1>1, <2>3
    <3>2. j - Len(s) \in 1 .. Len(t) /\ u[j] = t[j - Len(s)]
      BY <1>1, <2>3
    <3>3. i - Len(s) < j - Len(s)
      BY <1>2, <1>3
    <3>. QED
      BY <3>1, <3>2, <3>3 DEF Rising
  <2>. QED
    BY <2>1, <2>2, <2>3
<1>. QED
  BY <1>3 DEF Rising

\* What a concatenation is below, and what it has.
LEMMA JoinBelow ==
    ASSUME NEW s \in Seq(Nat), NEW t \in Seq(Nat)
    PROVE  /\ \A n \in Nat : Below(s, n) /\ Below(t, n) => Below(s \o t, n)
           /\ \A e : Has(s, e) \/ Has(t, e) <=> Has(s \o t, e)
<1> DEFINE u == s \o t
<1>0. Len(s) \in Nat /\ Len(t) \in Nat
  OBVIOUS
<1>1. /\ Len(u) = Len(s) + Len(t)
      /\ \A i \in 1 .. Len(s) : u[i] = s[i]
      /\ \A i \in 1 .. Len(t) : u[Len(s) + i] = t[i]
      /\ \A i \in 1 .. Len(u) : i <= Len(s) \/ i - Len(s) \in 1 .. Len(t)
  BY ConcatFacts
<1>2. ASSUME NEW i \in 1 .. Len(u)
      PROVE  (\E k \in 1 .. Len(s) : u[i] = s[k]) \/ (\E k \in 1 .. Len(t) : u[i] = t[k])
  <2>1. CASE i <= Len(s)
    BY <1>0, <1>1, <2>1
  <2>2. CASE i - Len(s) \in 1 .. Len(t)
    <3>1. Len(s) + (i - Len(s)) = i
      BY <1>0
    <3>2. u[Len(s) + (i - Len(s))] = t[i - Len(s)]
      BY <1>1, <2>2
    <3>. QED
      BY <2>2, <3>1, <3>2
  <2>. QED
    BY <1>1, <2>1, <2>2
<1>3. ASSUME NEW n \in Nat, Below(s, n), Below(t, n) PROVE Below(u, n)
  BY <1>2, <1>3 DEF Below
<1>4. ASSUME NEW e, Has(s, e) \/ Has(t, e) PROVE Has(u, e)
  <2>1. CASE Has(s, e)
    <3>1. PICK k \in 1 .. Len(s) : s[k] = e
      BY <2>1 DEF Has
    <3>2. k \in 1 .. Len(u) /\ u[k] = e
      BY <1>0, <1>1, <3>1
    <3>. QED
      BY <3>2 DEF Has
  <2>2. CASE Has(t, e)
    <3>1. PICK k \in 1 .. Len(t) : t[k] = e
      BY <2>2 DEF Has
    <3>2. Len(s) + k \in 1 .. Len(u) /\ u[Len(s) + k] = e
      BY <1>0, <1>1, <3>1
    <3>. QED
      BY <3>2 DEF Has
  <2>. QED
    BY <1>4, <2>1, <2>2
<1>5. ASSUME NEW e, Has(u, e) PROVE Has(s, e) \/ Has(t, e)
  BY <1>2, <1>5 DEF Has
<1>. QED
  BY <1>3, <1>4, <1>5

\* A run rises, stays below its end, and has exactly the numbers it counts.
LEMMA RunOrder ==
    ASSUME NEW n \in Nat, NEW m \in Nat, n <= m
    PROVE  /\ Rising(Run(n, m))
           /\ Below(Run(n, m), m)
           /\ \A i \in 1 .. Len(Run(n, m)) : n <= Run(n, m)[i]
           /\ \A e : Has(Run(n, m), e) <=> e \in n .. (m - 1)
<1> DEFINE r == Run(n, m)
<1>1. /\ Len(r) = m - n
      /\ \A i \in 1 .. (m - n) : r[i] = n + i - 1
  BY RunFacts
<1> HIDE DEF r
<1>2. Rising(r)
  BY <1>1 DEF Rising
<1>3. Below(r, m)
  BY <1>1 DEF Below
<1>4. \A i \in 1 .. Len(r) : n <= r[i]
  BY <1>1
<1>5. ASSUME NEW e, Has(r, e) PROVE e \in n .. (m - 1)
  BY <1>1, <1>5 DEF Has
<1>6. ASSUME NEW e \in n .. (m - 1) PROVE Has(r, e)
  <2>1. e - n + 1 \in 1 .. (m - n) /\ n + (e - n + 1) - 1 = e
    OBVIOUS
  <2>2. r[e - n + 1] = e
    BY <1>1, <2>1
  <2>. QED
    BY <1>1, <2>1, <2>2 DEF Has
<1>. QED
  BY <1>2, <1>3, <1>4, <1>5, <1>6 DEF r

\* A drain ends at a number, past its start, with a gap at the head again.
LEMMA DrainFacts ==
    ASSUME NEW B \in SUBSET Nat, NEW n \in Nat, \A b \in B : n <= b,
           NEW m \in DrainEnds(n, B), DrainsTo(n, m, B)
    PROVE  /\ m \in Nat
           /\ n <= m
           /\ n .. (m - 1) \subseteq B
           /\ \A b \in B \ (n .. (m - 1)) : m < b
<1>1. m \in Nat
  BY DEF DrainEnds
<1>2. n <= m /\ m \notin B /\ n .. (m - 1) \subseteq B
  BY DEF DrainsTo
<1>3. ASSUME NEW b \in B, b \notin n .. (m - 1) PROVE m < b
  <2>1. b \in Nat /\ n <= b /\ b # m
    BY <1>2
  <2>. QED
    BY <1>1, <1>3, <2>1
<1>. QED
  BY <1>1, <1>2, <1>3

\* The skip keeps the order, loses nothing and makes nothing up.
LEMMA SkipKeeps ==
    ASSUME ReasmTypeOK, Ordered(next, buffer, pending, delivered),
           NEW o \in SkipOutcomes
    PROVE  /\ Ordered(o.next, o.buffer, o.pending, delivered)
           /\ o.age \in 0 .. GapTimeout \union {Closed}
           /\ o = Outcome(o.next, o.buffer, o.pending, o.age)
           /\ buffer = {} => o.buffer = {} /\ o.pending = pending /\ o.next = next
           /\ \A e : e \in o.buffer \/ Has(o.pending, e)
                    <=> e \in buffer \/ Has(pending, e)
<1>1. CASE /\ o.next = next /\ o.buffer = buffer /\ o.pending = pending
           /\ o.age \in 0 .. GapTimeout \union {Closed}
           /\ o = Outcome(o.next, o.buffer, o.pending, o.age)
  BY <1>1
<1>2. CASE buffer = {}
  <2>1. o = Outcome(next, buffer, pending, Closed)
    BY <1>2 DEF SkipOutcomes
  <2>. QED
    BY <1>1, <2>1 DEF Outcome
<1>3. CASE buffer # {} /\ age = Closed
  <2>1. o = Outcome(next, buffer, pending, 0)
    BY <1>3 DEF SkipOutcomes
  <2>2. 0 \in 0 .. GapTimeout
    BY TimeoutAssumption
  <2>. QED
    BY <1>1, <2>1, <2>2 DEF Outcome
<1>4. CASE buffer # {} /\ age # Closed /\ ~Due
  <2>1. o = Outcome(next, buffer, pending, age)
    BY <1>4 DEF SkipOutcomes
  <2>. QED
    BY <1>1, <2>1 DEF Outcome, ReasmTypeOK
<1>5. CASE buffer # {} /\ age # Closed /\ Due
  <2>0. PICK lo \in buffer :
          /\ Lowest(lo, buffer)
          /\ \E m \in DrainEnds(lo, buffer) :
               /\ DrainsTo(lo, m, buffer)
               /\ o = Outcome(m, buffer \ (lo .. (m - 1)), pending \o Run(lo, m), Closed)
    BY <1>5 DEF SkipOutcomes, PassedGaps, PassedGap
  <2>1. PICK m \in DrainEnds(lo, buffer) :
          /\ Lowest(lo, buffer)
          /\ DrainsTo(lo, m, buffer)
          /\ o = Outcome(m, buffer \ (lo .. (m - 1)), pending \o Run(lo, m), Closed)
    BY <2>0
  <2>2. /\ lo \in Nat /\ next < lo /\ next \in Nat
        /\ buffer \in SUBSET Nat
        /\ \A b \in buffer : lo <= b
        /\ pending \in Seq(Nat) /\ delivered \in Seq(Nat)
    BY <2>1 DEF Lowest, Ordered
  <2>3. /\ m \in Nat /\ lo <= m
        /\ lo .. (m - 1) \subseteq buffer
        /\ \A b \in buffer \ (lo .. (m - 1)) : m < b
    BY <2>1, <2>2, DrainFacts
  <2> DEFINE r == Run(lo, m)
  <2>4. r \in Seq(Nat) /\ Len(r) \in Nat
    BY <2>2, <2>3, RunFacts
  <2>5. /\ Rising(r)
        /\ Below(r, m)
        /\ \A i \in 1 .. Len(r) : lo <= r[i]
        /\ \A e : Has(r, e) <=> e \in lo .. (m - 1)
    BY <2>2, <2>3, RunOrder
  <2> HIDE DEF r
  <2>6. /\ o.next = m
        /\ o.buffer = buffer \ (lo .. (m - 1))
        /\ o.pending = pending \o r
        /\ o.age = Closed
    BY <2>1 DEF Outcome, r
  <2>7. /\ \A n \in Nat : Below(pending, n) /\ Below(r, n) => Below(pending \o r, n)
        /\ \A e : Has(pending, e) \/ Has(r, e) <=> Has(pending \o r, e)
    BY <2>2, <2>4, JoinBelow
  <2>8. Below(pending, m) /\ Below(delivered, m)
    <3>1. next < m
      BY <2>2, <2>3
    <3>2. /\ \A i \in 1 .. Len(pending) : pending[i] \in Nat /\ pending[i] < next
          /\ \A i \in 1 .. Len(delivered) : delivered[i] \in Nat /\ delivered[i] < next
      BY <2>2 DEF Ordered, Below
    <3>. QED
      BY <2>2, <2>3, <3>1, <3>2 DEF Below
  <2>9. ASSUME NEW s \in Seq(Nat), Below(s, next),
               NEW i \in 1 .. Len(s), NEW j \in 1 .. Len(r)
        PROVE  s[i] < r[j]
    <3>1. s[i] \in Nat /\ s[i] < next /\ r[j] \in Nat /\ lo <= r[j]
      BY <2>4, <2>5, <2>9 DEF Below
    <3>. QED
      BY <2>2, <3>1
  <2>10. Rising(pending \o r)
    BY <2>2, <2>4, <2>5, <2>9, JoinRising DEF Ordered
  <2>11. \A i \in 1 .. Len(delivered), j \in 1 .. Len(pending \o r) :
           delivered[i] < (pending \o r)[j]
    <3>. SUFFICES ASSUME NEW i \in 1 .. Len(delivered), NEW j \in 1 .. Len(pending \o r)
                  PROVE  delivered[i] < (pending \o r)[j]
      OBVIOUS
    <3>1. Has(pending \o r, (pending \o r)[j])
      BY DEF Has
    <3>2. Has(pending, (pending \o r)[j]) \/ Has(r, (pending \o r)[j])
      BY <2>7, <3>1
    <3>3. CASE Has(pending, (pending \o r)[j])
      BY <3>3 DEF Has, Ordered
    <3>4. CASE Has(r, (pending \o r)[j])
      BY <2>2, <2>9, <3>4 DEF Has, Ordered
    <3>. QED
      BY <3>2, <3>3, <3>4
  <2>12. pending \o r \in Seq(Nat)
    BY <2>2, <2>4
  <2>13. Ordered(o.next, o.buffer, o.pending, delivered)
    BY <2>2, <2>3, <2>5, <2>6, <2>7, <2>8, <2>10, <2>11, <2>12 DEF Ordered
  <2>14. \A e : e \in o.buffer \/ Has(o.pending, e) <=> e \in buffer \/ Has(pending, e)
    BY <2>3, <2>5, <2>6, <2>7
  <2>15. o = Outcome(o.next, o.buffer, o.pending, o.age)
    BY <2>1 DEF Outcome
  <2>. QED
    BY <1>5, <2>6, <2>13, <2>14, <2>15
<1>. QED
  BY <1>2, <1>3, <1>4, <1>5

\* The parked packets are handed on: they leave the parking in order.
LEMMA FlushKeeps ==
    ASSUME NEW n, NEW B, NEW p, NEW d, Ordered(n, B, p, d)
    PROVE  /\ Ordered(n, B, <<>>, d \o p)
           /\ \A e : Has(d \o p, e) <=> Has(d, e) \/ Has(p, e)
<1>1. p \in Seq(Nat) /\ d \in Seq(Nat) /\ n \in Nat
  BY DEF Ordered
<1>2. Rising(d \o p)
  BY <1>1, JoinRising DEF Ordered
<1>3. Below(d \o p, n) /\ \A e : Has(d \o p, e) <=> Has(d, e) \/ Has(p, e)
  BY <1>1, JoinBelow DEF Ordered
<1>4. d \o p \in Seq(Nat)
  BY <1>1
<1>5. Below(<<>>, n) /\ Rising(<<>>) /\ <<>> \in Seq(Nat)
  BY DEF Below, Rising
<1>6. \A i \in 1 .. Len(d \o p), j \in 1 .. Len(<<>>) : (d \o p)[i] < <<>>[j]
  OBVIOUS
<1>. QED
  BY <1>2, <1>3, <1>4, <1>5, <1>6 DEF Ordered

\* The packet at the cursor and the run behind it are handed on.
LEMMA DrainKeeps ==
    ASSUME NEW n, NEW B, NEW d, Ordered(n, B, <<>>, d),
           NEW m \in DrainEnds(n + 1, B), DrainsTo(n + 1, m, B)
    PROVE  /\ Ordered(m, B \ (n .. (m - 1)), <<>>, d \o Run(n, m))
           /\ \A e : e \in B \ (n .. (m - 1)) \/ Has(d \o Run(n, m), e)
                    <=> e \in B \/ Has(d, e) \/ e = n
<1> DEFINE r == Run(n, m)
<1>1. /\ n \in Nat /\ n + 1 \in Nat /\ B \in SUBSET Nat /\ d \in Seq(Nat)
      /\ Below(d, n) /\ Rising(d)
      /\ \A b \in B : n < b
  BY DEF Ordered
<1>2. \A b \in B : n + 1 <= b
  BY <1>1
<1>3. /\ m \in Nat
      /\ n + 1 <= m
      /\ (n + 1) .. (m - 1) \subseteq B
      /\ \A b \in B \ ((n + 1) .. (m - 1)) : m < b
  BY <1>1, <1>2, DrainFacts
<1>4. n <= m /\ n < m /\ n .. (m - 1) = {n} \union (n + 1) .. (m - 1)
  BY <1>1, <1>3
<1>5. \A b \in B \ (n .. (m - 1)) : m < b
  BY <1>3, <1>4
<1>6. r \in Seq(Nat) /\ Len(r) \in Nat
  BY <1>1, <1>3, <1>4, RunFacts
<1>7. /\ Rising(r)
      /\ Below(r, m)
      /\ \A i \in 1 .. Len(r) : n <= r[i]
      /\ \A e : Has(r, e) <=> e \in n .. (m - 1)
  BY <1>1, <1>3, <1>4, RunOrder
<1> HIDE DEF r
<1>8. ASSUME NEW i \in 1 .. Len(d), NEW j \in 1 .. Len(r) PROVE d[i] < r[j]
  <2>1. d[i] \in Nat /\ d[i] < n /\ r[j] \in Nat /\ n <= r[j]
    BY <1>1, <1>6, <1>7 DEF Below
  <2>. QED
    BY <1>1, <2>1
<1>9. Rising(d \o r)
  BY <1>1, <1>6, <1>7, <1>8, JoinRising
<1>10. Below(d, m)
  <2>1. \A i \in 1 .. Len(d) : d[i] \in Nat /\ d[i] < n
    BY <1>1 DEF Below
  <2>. QED
    BY <1>1, <1>3, <1>4, <2>1 DEF Below
<1>11. Below(d \o r, m) /\ \A e : Has(d, e) \/ Has(r, e) <=> Has(d \o r, e)
  BY <1>1, <1>3, <1>6, <1>7, <1>10, JoinBelow
<1>12. d \o r \in Seq(Nat)
  BY <1>1, <1>6
<1>13. Below(<<>>, m) /\ Rising(<<>>) /\ <<>> \in Seq(Nat)
  BY DEF Below, Rising
<1>14. \A i \in 1 .. Len(d \o r), j \in 1 .. Len(<<>>) : (d \o r)[i] < <<>>[j]
  OBVIOUS
<1>15. Ordered(m, B \ (n .. (m - 1)), <<>>, d \o r)
  BY <1>1, <1>3, <1>5, <1>9, <1>11, <1>12, <1>13, <1>14 DEF Ordered
<1>16. \A e : e \in B \ (n .. (m - 1)) \/ Has(d \o r, e) <=> e \in B \/ Has(d, e) \/ e = n
  BY <1>3, <1>4, <1>7, <1>11
<1>. QED
  BY <1>15, <1>16 DEF r

\* Concatenation extends, in the abstract stream's sense.
LEMMA JoinExtends ==
    ASSUME NEW s \in Seq(Nat), NEW t \in Seq(Nat), NEW u \in Seq(Nat)
    PROVE  /\ Stream!Extends(s, s)
           /\ Stream!Extends(s \o t, s)
           /\ Stream!Extends((s \o t) \o u, s)
<1>0. Len(s) \in Nat /\ Len(t) \in Nat /\ Len(u) \in Nat /\ s \o t \in Seq(Nat)
  OBVIOUS
<1>1. /\ Len(s \o t) = Len(s) + Len(t)
      /\ \A i \in 1 .. Len(s) : (s \o t)[i] = s[i]
  BY ConcatFacts
<1>2. /\ Len((s \o t) \o u) = Len(s \o t) + Len(u)
      /\ \A i \in 1 .. Len(s \o t) : ((s \o t) \o u)[i] = (s \o t)[i]
  BY <1>0, ConcatFacts
<1>3. \A i \in 1 .. Len(s) : i \in 1 .. Len(s \o t)
  BY <1>0, <1>1
<1>. QED
  BY <1>0, <1>1, <1>2, <1>3 DEF Stream!Extends

-----------------------------------------------------------------------------
\* Exactly what was accepted is held, parked or handed on.
Kept == \A e : e \in accepted <=> e \in buffer \/ Has(pending, e) \/ Has(delivered, e)

Unseen ==
    ~anchored => buffer = {} /\ accepted = {} /\ pending = <<>> /\ delivered = <<>>

\* The inductive invariant.
IInv ==
    /\ ReasmTypeOK
    /\ Unseen
    /\ Ordered(next, buffer, pending, delivered)
    /\ Kept

LEMMA EmptyOrdered == \A n \in Nat : Ordered(n, {}, <<>>, <<>>)
  BY DEF Ordered, Below, Rising

LEMMA InitIInv == ReasmInit => IInv
<1>. SUFFICES ASSUME ReasmInit PROVE IInv
  OBVIOUS
<1>0. anchored \in BOOLEAN
  BY Zenon DEF ReasmInit
<1>1. ReasmTypeOK
  <2>1. /\ next = StartSeq /\ buffer = {} /\ pending = <<>> /\ age = Closed
        /\ lastGap = NoGap /\ busy = FALSE /\ live = TRUE /\ accepted = {} /\ delivered = <<>>
    BY DEF ReasmInit
  <2>2. buffer \in SUBSET Nat /\ accepted \in SUBSET Nat
    BY <2>1
  <2>3. pending \in Seq(Nat) /\ delivered \in Seq(Nat)
    BY <2>1
  <2>4. age \in 0 .. GapTimeout \union {Closed} /\ lastGap \in Nat \X Nat \union {NoGap}
    BY <2>1
  <2>. QED
    BY <1>0, <2>1, <2>2, <2>3, <2>4, SeqAssumption DEF ReasmTypeOK
<1>2. Ordered(next, buffer, pending, delivered)
  BY EmptyOrdered, SeqAssumption DEF ReasmInit
<1>. QED
  BY <1>1, <1>2 DEF IInv, Unseen, Kept, Has, ReasmInit

\* One packet, after the skip left s: the three branches of accept_packets.
\* The last conjunct is the step of the abstract stream.
LEMMA PacketKeeps ==
    ASSUME NEW seq \in Nat, NEW s, s.age \in 0 .. GapTimeout \union {Closed},
           delivered \in Seq(Nat), accepted \in SUBSET Nat,
           Ordered(s.next, s.buffer, s.pending, delivered),
           \A e : e \in accepted <=> e \in s.buffer \/ Has(s.pending, e) \/ Has(delivered, e),
           Old(seq, s) \/ Future(seq, s) \/ InTurn(seq, s), pending' = <<>>
    PROVE  /\ Ordered(next', buffer', pending', delivered')
           /\ Kept'
           /\ age' \in 0 .. GapTimeout \union {Closed}
           /\ accepted' \in SUBSET Nat
           /\ accepted \subseteq accepted'
           /\ Stream!Extends(delivered', delivered)
<1> DEFINE f == delivered \o s.pending
<1>1. /\ Ordered(s.next, s.buffer, <<>>, f)
      /\ \A e : Has(f, e) <=> Has(delivered, e) \/ Has(s.pending, e)
  BY FlushKeeps
<1>2. \A e : ~Has(<<>>, e)
  BY DEF Has
<1>3. s.pending \in Seq(Nat) /\ f \in Seq(Nat) /\ s.next \in Nat /\ s.buffer \in SUBSET Nat
  BY <1>1 DEF Ordered
<1>4. Stream!Extends(f, delivered)
  BY <1>3, JoinExtends
<1>5. CASE Old(seq, s)
  <2>1. /\ next' = s.next /\ buffer' = s.buffer /\ age' = s.age
        /\ delivered' = f /\ accepted' = accepted
    BY <1>5 DEF Old, Flushed
  <2>2. Kept'
    BY <1>1, <1>2, <2>1 DEF Kept
  <2>. QED
    BY <1>1, <1>4, <2>1, <2>2
<1>6. CASE Future(seq, s)
  <2>1. /\ next' = s.next /\ buffer' = s.buffer \union {seq} /\ age' = s.age
        /\ delivered' = f /\ accepted' = accepted \union {seq} /\ seq > s.next
    BY <1>6 DEF Future, Flushed
  <2>2. Kept'
    BY <1>1, <1>2, <2>1 DEF Kept
  <2>3. Ordered(next', buffer', pending', delivered')
    BY <1>1, <2>1 DEF Ordered
  <2>. QED
    BY <1>4, <2>1, <2>2, <2>3
<1>7. CASE InTurn(seq, s)
  <2>1. PICK m \in DrainEnds(seq + 1, s.buffer) :
          /\ DrainsTo(seq + 1, m, s.buffer)
          /\ next' = m
          /\ buffer' = s.buffer \ (seq .. (m - 1))
          /\ delivered' = f \o Run(seq, m)
    BY <1>7 DEF InTurn, Flushed
  <2>2. seq = s.next /\ age' = Closed /\ accepted' = accepted \union {seq}
    BY <1>7 DEF InTurn
  <2>3. /\ Ordered(m, s.buffer \ (seq .. (m - 1)), <<>>, f \o Run(seq, m))
        /\ \A e : e \in s.buffer \ (seq .. (m - 1)) \/ Has(f \o Run(seq, m), e)
                 <=> e \in s.buffer \/ Has(f, e) \/ e = seq
    <3> HIDE DEF f
    <3>1. Ordered(seq, s.buffer, <<>>, f)
      BY <1>1, <2>2
    <3>. QED
      BY <2>1, <3>1, DrainKeeps
  <2>4. Kept'
    BY <1>1, <1>2, <2>1, <2>2, <2>3 DEF Kept
  <2>5. Run(seq, m) \in Seq(Nat)
    <3>1. m \in Nat /\ seq <= m
      BY <1>3, <2>1, <2>2 DEF DrainEnds, DrainsTo
    <3>. QED
      BY <3>1, RunFacts
  <2>6. Stream!Extends((delivered \o s.pending) \o Run(seq, m), delivered)
    BY <1>3, <2>5, JoinExtends
  <2>7. Stream!Extends(delivered', delivered)
    BY <2>1, <2>6
  <2>8. Ordered(next', buffer', pending', delivered')
    BY <2>1, <2>3
  <2>9. accepted' \in SUBSET Nat /\ accepted \subseteq accepted'
    BY <2>2
  <2>. QED
    BY <2>2, <2>4, <2>7, <2>8, <2>9
<1>. QED
  BY <1>5, <1>6, <1>7

LEMMA AcceptKeeps ==
    ASSUME IInv, NEW seq \in Nat, Accept(seq)
    PROVE  IInv' /\ accepted \subseteq accepted' /\ Stream!Extends(delivered', delivered)
<1>1. ReasmTypeOK /\ Ordered(next, buffer, pending, delivered)
  BY DEF IInv
<1>2. PICK o \in SkipOutcomes :
        LET s == [o EXCEPT !.next = IF anchored THEN o.next ELSE seq]
        IN  Old(seq, s) \/ Future(seq, s) \/ InTurn(seq, s)
  BY DEF Accept
<1> DEFINE s == [o EXCEPT !.next = IF anchored THEN o.next ELSE seq]
<1>3. /\ Ordered(o.next, o.buffer, o.pending, delivered)
      /\ o.age \in 0 .. GapTimeout \union {Closed}
      /\ o = Outcome(o.next, o.buffer, o.pending, o.age)
      /\ buffer = {} => o.buffer = {} /\ o.pending = pending /\ o.next = next
      /\ \A e : e \in o.buffer \/ Has(o.pending, e) <=> e \in buffer \/ Has(pending, e)
  BY <1>1, SkipKeeps
<1>4. /\ s.next = IF anchored THEN o.next ELSE seq
      /\ s.buffer = o.buffer /\ s.pending = o.pending /\ s.age = o.age
  BY <1>3 DEF Outcome
<1>5. Ordered(s.next, s.buffer, s.pending, delivered)
  <2>1. CASE anchored
    BY <1>3, <1>4, <2>1
  <2>2. CASE ~anchored
    <3>1. buffer = {} /\ pending = <<>> /\ delivered = <<>>
      BY <2>2 DEF IInv, Unseen
    <3>2. s.buffer = {} /\ s.pending = <<>> /\ s.next = seq
      BY <1>3, <1>4, <2>2, <3>1
    <3>. QED
      BY <3>1, <3>2, EmptyOrdered
  <2>. QED
    BY <2>1, <2>2
<1>6. Old(seq, s) \/ Future(seq, s) \/ InTurn(seq, s)
  BY <1>2
<1>7. s.age \in 0 .. GapTimeout \union {Closed}
  BY <1>3, <1>4
<1>8. \A e : e \in accepted <=> e \in s.buffer \/ Has(s.pending, e) \/ Has(delivered, e)
  BY <1>3, <1>4 DEF IInv, Kept
<1>9. /\ pending' = <<>> /\ busy' = TRUE /\ anchored' = TRUE
      /\ lastGap' = lastGap /\ live' = live
  BY DEF Accept
<1> HIDE DEF s
<1>10. /\ Ordered(next', buffer', pending', delivered')
       /\ Kept'
       /\ age' \in 0 .. GapTimeout \union {Closed}
       /\ accepted' \in SUBSET Nat
       /\ accepted \subseteq accepted'
       /\ Stream!Extends(delivered', delivered)
  BY <1>1, <1>5, <1>6, <1>7, <1>8, <1>9, PacketKeeps DEF ReasmTypeOK
<1>11. ReasmTypeOK'
  BY <1>1, <1>9, <1>10 DEF ReasmTypeOK, Ordered
<1>12. Unseen'
  BY <1>9 DEF Unseen
<1>. QED
  BY <1>10, <1>11, <1>12 DEF IInv

LEMMA CheckGapKeeps ==
    ASSUME IInv, CheckGap
    PROVE  IInv' /\ accepted' = accepted /\ delivered' = delivered
<1>1. ReasmTypeOK /\ Ordered(next, buffer, pending, delivered)
  BY DEF IInv
<1>2. PICK o \in SkipOutcomes :
        /\ next' = o.next /\ buffer' = o.buffer
        /\ pending' = o.pending /\ age' = o.age
        /\ \E hi \in o.buffer \union {0} :
             /\ o.buffer = {} \/ Lowest(hi, o.buffer)
             /\ lastGap' = GapAfter(o, hi)
  BY DEF CheckGap
<1>3. /\ Ordered(o.next, o.buffer, o.pending, delivered)
      /\ o.age \in 0 .. GapTimeout \union {Closed}
      /\ buffer = {} => o.buffer = {} /\ o.pending = pending /\ o.next = next
      /\ \A e : e \in o.buffer \/ Has(o.pending, e) <=> e \in buffer \/ Has(pending, e)
  BY <1>1, SkipKeeps
<1>4. /\ busy' = FALSE /\ anchored' = anchored /\ live' = live
      /\ accepted' = accepted /\ delivered' = delivered
  BY DEF CheckGap
<1>5. lastGap' \in Nat \X Nat \union {NoGap}
  <2>1. o.next \in Nat /\ o.buffer \in SUBSET Nat
    BY <1>3 DEF Ordered
  <2>. QED
    BY <1>2, <2>1 DEF GapAfter
<1>6. Ordered(next', buffer', pending', delivered')
  BY <1>2, <1>3, <1>4
<1>7. ReasmTypeOK'
  BY <1>1, <1>2, <1>3, <1>4, <1>5, <1>6 DEF ReasmTypeOK, Ordered
<1>8. Unseen'
  BY <1>2, <1>3, <1>4 DEF IInv, Unseen
<1>9. Kept'
  BY <1>2, <1>3, <1>4 DEF IInv, Kept
<1>. QED
  BY <1>4, <1>6, <1>7, <1>8, <1>9 DEF IInv

LEMMA NewKeeps ==
    ASSUME IInv, NewReassembler
    PROVE  IInv'
<1>0. anchored' \in BOOLEAN
  BY Zenon DEF NewReassembler
<1>1. ReasmTypeOK'
  <2>1. /\ next' = StartSeq /\ buffer' = {} /\ pending' = <<>>
        /\ age' = Closed /\ lastGap' = NoGap /\ busy' = FALSE /\ live' = TRUE
        /\ accepted' = {} /\ delivered' = <<>>
    BY DEF NewReassembler
  <2>2. buffer' \in SUBSET Nat /\ accepted' \in SUBSET Nat
    BY <2>1
  <2>3. pending' \in Seq(Nat) /\ delivered' \in Seq(Nat)
    BY <2>1
  <2>4. age' \in 0 .. GapTimeout \union {Closed} /\ lastGap' \in Nat \X Nat \union {NoGap}
    BY <2>1
  <2>. QED
    BY <1>0, <2>1, <2>2, <2>3, <2>4, SeqAssumption DEF IInv, ReasmTypeOK
<1>2. Ordered(next', buffer', pending', delivered')
  BY EmptyOrdered, SeqAssumption DEF NewReassembler
<1>. QED
  BY <1>1, <1>2 DEF IInv, Unseen, Kept, Has, NewReassembler

LEMMA IInvInductive == IInv /\ [ReasmNext]_reasmVars => IInv'
<1>. SUFFICES ASSUME IInv, [ReasmNext]_reasmVars PROVE IInv'
  OBVIOUS
<1>1. CASE \E seq \in Nat : Accept(seq)
  BY <1>1, AcceptKeeps
<1>2. CASE CheckGap
  BY <1>2, CheckGapKeeps
<1>3. CASE NewReassembler
  BY <1>3, NewKeeps
<1>4. CASE IngestFails \/ EndSession \/ ClockTicks
  <2>1. ReasmTypeOK'
    <3>1. CASE IngestFails
      BY <3>1 DEF IInv, ReasmTypeOK, IngestFails
    <3>2. CASE EndSession
      BY <3>2 DEF IInv, ReasmTypeOK, EndSession
    <3>3. CASE ClockTicks
      <4>1. age' \in 0 .. GapTimeout
        BY <3>3, TimeoutAssumption DEF ClockTicks
      <4>. QED
        BY <3>3, <4>1 DEF IInv, ReasmTypeOK, ClockTicks
    <3>. QED
      BY <1>4, <3>1, <3>2, <3>3
  <2>2. UNCHANGED <<next, anchored, buffer, pending, accepted, delivered>>
    BY <1>4 DEF IngestFails, EndSession, ClockTicks
  <2>. QED
    BY <2>1, <2>2 DEF IInv, Unseen, Ordered, Kept, Below, Rising, Has
<1>5. CASE UNCHANGED reasmVars
  BY <1>5 DEF reasmVars, IInv, ReasmTypeOK, Unseen, Ordered, Kept, Below, Rising, Has
<1>. QED
  BY <1>1, <1>2, <1>3, <1>4, <1>5 DEF ReasmNext

\* The invariant of every behaviour of accept_packets and missing_range.
THEOREM ReasmInvariant == ReasmSpec => []IInv
  BY InitIInv, IInvInductive, PTL DEF ReasmSpec

LEMMA IInvImplies == IInv => ReasmTypeOK /\ CursorSplits /\ InOrder /\ NothingDropped
<1>. SUFFICES ASSUME IInv PROVE ReasmTypeOK /\ CursorSplits /\ InOrder /\ NothingDropped
  OBVIOUS
<1>1. CursorSplits
  BY DEF IInv, Unseen, Ordered, Below, CursorSplits
<1>2. InOrder
  BY DEF IInv, Ordered, Rising, InOrder
<1>3. NothingDropped
  BY DEF IInv, Kept, Has, NothingDropped
<1>. QED
  BY <1>1, <1>2, <1>3 DEF IInv

\* The state of ingest/reassembler.py keeps its types.
THEOREM ReasmTypeCorrect == ReasmSpec => []ReasmTypeOK
  BY ReasmInvariant, IInvImplies, PTL

\* accept_packets hands packets on strictly in chunk_seq order, for every
\* start_seq, deadline and order of arrivals.
THEOREM DeliversInOrder == ReasmSpec => []InOrder
  BY ReasmInvariant, IInvImplies, PTL

\* The head of _buffer is always a gap beyond what was handed on or parked.
THEOREM CursorAlwaysSplits == ReasmSpec => []CursorSplits
  BY ReasmInvariant, IInvImplies, PTL

\* Neither a skip nor a drain loses an accepted packet of an open session.
THEOREM LosesNothing == ReasmSpec => []NothingDropped
  BY ReasmInvariant, IInvImplies, PTL

LEMMA SkipKeepsDeadline ==
    ASSUME ReasmTypeOK, NEW o \in SkipOutcomes
    PROVE  o.age < GapTimeout
<1>0. GapTimeout \in Nat /\ 0 < GapTimeout /\ Closed < GapTimeout
  BY TimeoutAssumption DEF Closed
<1>1. CASE o.age = Closed \/ o.age = 0
  BY <1>0, <1>1
<1>2. CASE buffer = {} \/ age = Closed
  BY <1>1, <1>2 DEF SkipOutcomes, Outcome
<1>3. CASE buffer # {} /\ age # Closed /\ ~Due
  <2>1. o.age = age
    BY <1>3 DEF SkipOutcomes, Outcome
  <2>2. age \in Nat /\ ~(age >= GapTimeout)
    BY <1>0, <1>3 DEF Due, ReasmTypeOK
  <2>. QED
    BY <1>0, <2>1, <2>2
<1>4. CASE buffer # {} /\ age # Closed /\ Due
  <2>1. o.age = Closed
    BY <1>4 DEF SkipOutcomes, PassedGaps, PassedGap, Outcome
  <2>. QED
    BY <1>1, <2>1
<1>. QED
  BY <1>2, <1>3, <1>4

\* missing_range() never answers with a gap past its deadline, for every
\* deadline and order of arrivals.
THEOREM KeepsDeadline == ReasmSpec => DeadlineKept
<1>1. IInv /\ [ReasmNext]_reasmVars => [CheckGap => age' < GapTimeout]_reasmVars
  BY SkipKeepsDeadline DEF IInv, CheckGap
<1>. QED
  BY <1>1, ReasmInvariant, PTL DEF ReasmSpec, DeadlineKept

\* Every step of the reassembler is a delivery, a new session or a stutter of
\* the ordered stream.
LEMMA StepRefines ==
    IInv /\ IInv' /\ [ReasmNext]_reasmVars
      => [Stream!Deliver \/ Stream!NewSession]_<<accepted, delivered>>
<1>. SUFFICES ASSUME IInv, IInv', [ReasmNext]_reasmVars
              PROVE  [Stream!Deliver \/ Stream!NewSession]_<<accepted, delivered>>
  OBVIOUS
<1>1. CASE \E seq \in Nat : Accept(seq)
  <2>1. accepted \subseteq accepted' /\ Stream!Extends(delivered', delivered)
    BY <1>1, AcceptKeeps
  <2>2. Stream!Increasing(delivered')
    BY DEF IInv, Ordered, Rising, Stream!Increasing
  <2>3. \A i \in 1 .. Len(delivered') : delivered'[i] \in accepted'
    BY DEF IInv, Kept, Has
  <2>. QED
    BY <2>1, <2>2, <2>3 DEF Stream!Deliver
<1>2. CASE CheckGap
  BY <1>2, CheckGapKeeps
<1>3. CASE NewReassembler
  BY <1>3 DEF NewReassembler, Stream!NewSession
<1>4. CASE IngestFails \/ EndSession \/ ClockTicks
  BY <1>4 DEF IngestFails, EndSession, ClockTicks
<1>5. CASE UNCHANGED reasmVars
  BY <1>5 DEF reasmVars
<1>. QED
  BY <1>1, <1>2, <1>3, <1>4, <1>5 DEF ReasmNext

\* The reassembler implements the ordered stream, for every start_seq,
\* deadline and order of arrivals.
THEOREM RefinesStream == ReasmSpec => ImplementsStream
<1>1. ReasmInit => Stream!StreamInit
  BY DEF ReasmInit, Stream!StreamInit
<1>. QED
  BY <1>1, ReasmInvariant, StepRefines, PTL
  DEF ReasmSpec, ImplementsStream, Stream!StreamSpec

-----------------------------------------------------------------------------
\* THE SETTINGS RECONCILER

\* The elements of a list are its range.
LEMMA RangeIsElements ==
  ASSUME NEW F, NEW s \in Seq(F)
  PROVE  Range(s) = Elements(s)
<1>1. DOMAIN s = 1 .. Len(s)
  OBVIOUS
<1> QED
  BY <1>1 DEF Range, Elements

-----------------------------------------------------------------------------
\* The key reconcile() issues a command under.
KeyOf(type) ==
    CASE type = "sleep" -> "sleep"
      [] type = "set_snapshot_interval" -> "interval"
      [] type = "start_audio" -> "audio:on"
      [] type = "stop_audio" -> "audio:off"

\* What a command the reconciler issued can be.
Bodies ==
    {b \in [type : {"sleep", "set_snapshot_interval", "start_audio", "stop_audio"},
            seconds : Intervals \union {Absent}] :
        b.type = "set_snapshot_interval" => b.seconds \in Intervals}

InPlay == Elements(order) \union Elements(down) \union Elements(upq)

SettingsTyped ==
    /\ desired \in Documents
    /\ known \in [audio : BOOLEAN \union {Absent}, sleep : BOOLEAN \union {Absent},
                  interval : Intervals \union {Absent}]
    /\ order \in Seq(Ids) /\ down \in Seq(Ids) /\ upq \in Seq(Ids)
    /\ idem \in [Keys -> Ids \union {Absent}]
    /\ expired \subseteq Elements(order)
    /\ up \in BOOLEAN /\ audio \in BOOLEAN /\ woken \in BOOLEAN
    /\ interval \in Intervals
    /\ done \subseteq Ids

\* Whoever still refers to a command refers to one that was issued.
InPlayIssued ==
    /\ body \in [Ids -> Bodies \union {Absent}]
    /\ \A c \in InPlay : body[c] \in Bodies

\* NoDuplicateInFlight is not inductive: issue() looks the key up and not the
\* commands.  The key of every unacked command still names it.
KeyHeld ==
    /\ Distinct(order)
    /\ \A c \in Elements(order) : idem[KeyOf(body[c].type)] = c

SettingsInv == SettingsTyped /\ InPlayIssued /\ KeyHeld

-----------------------------------------------------------------------------
\* reconcile() decides on nothing or on a well-formed command under its own key.
LEMMA DecisionBody ==
  ASSUME SettingsTyped, NEW d \in Documents, Decision(d) # Nothing
  PROVE  /\ [type |-> Decision(d).type, seconds |-> Decision(d).seconds] \in Bodies
         /\ Decision(d).key = KeyOf(Decision(d).type)
         /\ Decision(d).key \in Keys
<1> DEFINE w == Decision(d)
<1>1. d.interval \in Intervals /\ d.sleep \in BOOLEAN /\ d.audio \in BOOLEAN
  BY DEF Documents
<1>2. \/ w = [type |-> "sleep", seconds |-> Absent, key |-> "sleep"]
      \/ w = [type |-> "set_snapshot_interval", seconds |-> d.interval, key |-> "interval"]
      \/ w = [type |-> "start_audio", seconds |-> Absent, key |-> "audio:on"]
      \/ w = [type |-> "stop_audio", seconds |-> Absent, key |-> "audio:off"]
  BY <1>1 DEF Decision
<1> HIDE DEF w
<1>3. CASE w = [type |-> "sleep", seconds |-> Absent, key |-> "sleep"]
  BY <1>3 DEF w, Bodies, KeyOf, Keys
<1>4. CASE w = [type |-> "set_snapshot_interval", seconds |-> d.interval, key |-> "interval"]
  BY <1>1, <1>4 DEF w, Bodies, KeyOf, Keys
<1>5. CASE w = [type |-> "start_audio", seconds |-> Absent, key |-> "audio:on"]
  BY <1>5 DEF w, Bodies, KeyOf, Keys
<1>6. CASE w = [type |-> "stop_audio", seconds |-> Absent, key |-> "audio:off"]
  BY <1>6 DEF w, Bodies, KeyOf, Keys
<1> QED
  BY <1>2, <1>3, <1>4, <1>5, <1>6

\* The commands, keys and unexpired ids after reconcile(), before the link is touched.
CommandsFine ==
    /\ order' \in Seq(Ids)
    /\ idem' \in [Keys -> Ids \union {Absent}]
    /\ expired' \subseteq Elements(order')
    /\ done' \subseteq Ids
    /\ body' \in [Ids -> Bodies \union {Absent}]
    /\ \A c \in InPlay \union Elements(order') : body'[c] \in Bodies
    /\ KeyHeld'

LEMMA ReconcileFine ==
  ASSUME SettingsInv, NEW d \in Documents, Reconcile(d) \/ ReconcileRefused(d)
  PROVE  CommandsFine
<1> USE DEF SettingsInv
<1>1. CASE UNCHANGED <<cmdVars, done>>
  <2>1. UNCHANGED <<body, order, idem, expired, done>>
    BY <1>1 DEF cmdVars
  <2>2. KeyHeld'
    BY <2>1 DEF KeyHeld
  <2> QED
    BY <2>1, <2>2 DEF CommandsFine, SettingsTyped, InPlayIssued, InPlay
<1>2. CASE ReconcileIssues(d)
  <2> DEFINE what == Decision(d)
             c == CHOOSE id \in Ids : Fresh(id)
             b == [type |-> what.type, seconds |-> what.seconds]
  <2>0. /\ what # Nothing /\ ~Held(what.key)
        /\ \E id \in Ids : Fresh(id)
        /\ body' = [body EXCEPT ![c] = b]
        /\ order' = Append(order, c)
        /\ idem' = [idem EXCEPT ![what.key] = c]
        /\ done' = done \ {c}
        /\ UNCHANGED expired
    BY <1>2 DEF ReconcileIssues
  <2>1. c \in Ids /\ Fresh(c)
    BY <2>0
  <2>2. b \in Bodies /\ what.key = KeyOf(what.type) /\ what.key \in Keys
    BY <2>0, DecisionBody
  <2> HIDE DEF what, c
  <2>3. b.type = what.type
    OBVIOUS
  <2> HIDE DEF b
  <2>4. c \notin InPlay
    BY <2>1, RangeIsElements DEF Fresh, InPlay, SettingsTyped
  <2>5. /\ order' \in Seq(Ids)
        /\ Elements(order') = Elements(order) \cup {c}
        /\ Distinct(order')
    BY <2>0, <2>1, <2>4, ElementsAppend DEF SettingsTyped, KeyHeld, InPlay
  <2>6. body' \in [Ids -> Bodies \union {Absent}] /\ body'[c] = b
    BY <2>0, <2>1, <2>2 DEF InPlayIssued
  <2>7. \A e \in InPlay : body'[e] = body[e] /\ body[e] \in Bodies
    <3>1. \A e \in InPlay : e # c /\ body[e] \in Bodies
      BY <2>4 DEF InPlayIssued
    <3>2. InPlay \subseteq Ids
      BY DEF InPlay, Elements, SettingsTyped
    <3> QED
      BY <2>0, <3>1, <3>2 DEF InPlayIssued
  <2>8. idem' \in [Keys -> Ids \union {Absent}] /\ idem'[what.key] = c
    BY <2>0, <2>1, <2>2 DEF SettingsTyped
  <2>9. ASSUME NEW e \in Elements(order)
        PROVE  idem'[KeyOf(body'[e].type)] = e
    <3>1. e \in InPlay /\ e \in Ids
      BY DEF InPlay, SettingsTyped, Elements
    <3>2. idem[KeyOf(body[e].type)] = e
      BY DEF KeyHeld
    <3>3. e # Absent
      BY <3>1, AbsentAssumption
    <3>4. KeyOf(body[e].type) # what.key
      BY <2>0, <3>2, <3>3 DEF Held
    <3>5. KeyOf(body[e].type) \in Keys
      BY <2>7, <3>1 DEF Bodies, KeyOf, Keys
    <3> QED
      BY <2>0, <2>7, <3>1, <3>2, <3>4, <3>5 DEF SettingsTyped
  <2>10. KeyHeld'
    BY <2>2, <2>3, <2>5, <2>6, <2>8, <2>9 DEF KeyHeld
  <2>11. \A e \in InPlay \union Elements(order') : body'[e] \in Bodies
    BY <2>2, <2>5, <2>6, <2>7 DEF InPlay
  <2>12. expired' \subseteq Elements(order') /\ done' \subseteq Ids
    BY <2>0, <2>5 DEF SettingsTyped
  <2> QED
    BY <2>5, <2>6, <2>8, <2>10, <2>11, <2>12 DEF CommandsFine
<1> QED
  BY <1>1, <1>2 DEF Reconcile, ReconcileIdle, ReconcileAbsorbed, ReconcileRefused

\* Steps that leave the commands alone and put nothing new on the link.
LEMMA CommandsKept ==
  ASSUME SettingsInv, UNCHANGED cmdVars, Elements(down') \subseteq InPlay,
         Elements(upq') \subseteq InPlay
  PROVE  InPlayIssued' /\ KeyHeld'
<1>1. UNCHANGED <<body, order, idem>>
  BY DEF cmdVars
<1>2. InPlay' \subseteq InPlay
  BY <1>1 DEF InPlay
<1> QED
  BY <1>1, <1>2 DEF SettingsInv, InPlayIssued, KeyHeld

LEMMA SettingsStep == SettingsInv /\ [Next]_vars => SettingsInv'
<1> SUFFICES ASSUME SettingsInv, [Next]_vars
             PROVE  SettingsInv'
  OBVIOUS
<1>0. <<>> \in Seq(Ids) /\ Elements(<<>>) = {}
  BY ElementsEmpty
<1>1. ASSUME NEW d \in Documents, PutSettings(d)
      PROVE  SettingsInv'
  <2>1. CommandsFine
    <3>1. CASE d.audio # desired.audio
      BY <1>1, <3>1, ReconcileFine DEF PutSettings
    <3>2. CASE ~(d.audio # desired.audio)
      <4>1. UNCHANGED <<body, order, idem, expired, done>>
        BY <1>1, <3>2 DEF PutSettings, cmdVars
      <4>2. KeyHeld'
        BY <4>1 DEF SettingsInv, KeyHeld
      <4> QED
        BY <4>1, <4>2 DEF CommandsFine, SettingsInv, SettingsTyped, InPlayIssued, InPlay
    <3> QED
      BY <3>1, <3>2
  <2>2. UNCHANGED <<known, up, down, upq, audio, interval, woken>> /\ desired' = d
    BY <1>1 DEF PutSettings, linkVars
  <2>3. SettingsTyped'
    BY <2>1, <2>2 DEF CommandsFine, SettingsInv, SettingsTyped
  <2>4. InPlayIssued'
    BY <2>1, <2>2 DEF CommandsFine, InPlayIssued, InPlay
  <2> QED
    BY <2>1, <2>3, <2>4 DEF CommandsFine, SettingsInv
<1>2. ASSUME NEW refused \in BOOLEAN, Hello(refused)
      PROVE  SettingsInv'
  <2>0. desired \in Documents
    BY DEF SettingsInv, SettingsTyped
  <2>1. CommandsFine
    BY <1>2, <2>0, ReconcileFine DEF Hello
  <2>2. /\ UNCHANGED <<known, desired, audio, interval, woken>>
        /\ up' = TRUE /\ down' = Filter(order', Ids \ expired) /\ upq' = <<>>
    BY <1>2 DEF Hello, serverVars, Pending
  <2>3. order' \in Seq(Ids)
    BY <2>1 DEF CommandsFine
  <2>4. down' \in Seq(Ids) /\ Elements(down') \subseteq Elements(order')
    BY <2>2, <2>3, FilterCorrect
  <2>5. SettingsTyped'
    BY <1>0, <2>1, <2>2, <2>4 DEF CommandsFine, SettingsInv, SettingsTyped
  <2>6. InPlay' \subseteq Elements(order')
    BY <1>0, <2>2, <2>4 DEF InPlay
  <2>7. InPlayIssued'
    BY <2>1, <2>6 DEF CommandsFine, InPlayIssued
  <2> QED
    BY <2>1, <2>5, <2>7 DEF CommandsFine, SettingsInv
<1>3. CASE Drop
  <2>1. SettingsTyped'
    BY <1>0, <1>3 DEF Drop, serverVars, cmdVars, deviceVars, SettingsInv, SettingsTyped
  <2> QED
    BY <1>0, <1>3, <2>1, CommandsKept DEF Drop, SettingsInv
<1>4. ASSUME NEW notified \in BOOLEAN, DeviceReceives(notified)
      PROVE  SettingsInv'
  <2> DEFINE c == Head(down)
  <2>1. /\ down # <<>> /\ down' = Tail(down)
        /\ UNCHANGED <<desired, known, body, order, idem, expired, up, woken>>
        /\ done' = done \union {c}
        /\ upq' \in {upq, Append(upq, c)}
    BY <1>4 DEF DeviceReceives, serverVars, cmdVars
  <2>2. /\ c \in Ids /\ Tail(down) \in Seq(Ids)
        /\ Elements(down) = {c} \union Elements(Tail(down))
    BY <2>1, ElementsTail DEF SettingsInv, SettingsTyped
  <2>3. body[c] \in Bodies
    BY <2>2 DEF SettingsInv, InPlayIssued, InPlay
  <2>4. interval' \in Intervals
    <3>1. \/ interval' = interval
          \/ body[c].type = "set_snapshot_interval" /\ interval' = body[c].seconds
      BY <1>4 DEF DeviceReceives
    <3> QED
      BY <2>3, <3>1 DEF Bodies, SettingsInv, SettingsTyped
  <2>5. audio' \in BOOLEAN
    BY <1>4 DEF DeviceReceives, SettingsInv, SettingsTyped
  <2> HIDE DEF c
  <2>6. upq' \in Seq(Ids) /\ Elements(upq') \subseteq Elements(upq) \union {c}
    <3>1. upq \in Seq(Ids)
      BY DEF SettingsInv, SettingsTyped
    <3>2. Append(upq, c) \in Seq(Ids)
          /\ Elements(Append(upq, c)) = Elements(upq) \union {c}
      BY <2>2, <3>1, ElementsAppend
    <3> QED
      BY <2>1, <3>1, <3>2
  <2>7. SettingsTyped'
    BY <2>1, <2>2, <2>4, <2>5, <2>6 DEF SettingsInv, SettingsTyped
  <2>8. Elements(down') \subseteq InPlay /\ Elements(upq') \subseteq InPlay
    BY <2>1, <2>2, <2>6 DEF InPlay
  <2>9. UNCHANGED cmdVars
    BY <2>1 DEF cmdVars
  <2> QED
    BY <2>7, <2>8, <2>9, CommandsKept DEF SettingsInv
<1>5. CASE OnCommandAck
  <2> DEFINE c == Head(upq)
             rest == Filter(order, Ids \ {c})
  <2>1. /\ upq # <<>> /\ upq' = Tail(upq)
        /\ order' = rest
        /\ idem' = [k \in Keys |-> IF idem[k] = c THEN Absent ELSE idem[k]]
        /\ expired' = expired \ {c}
        /\ down' = down \o Filter(rest, Ids \ expired)
        /\ UNCHANGED <<desired, body, up, audio, interval, done, woken>>
    BY <1>5 DEF OnCommandAck, Pending, deviceVars
  <2>2. /\ c \in Ids /\ Tail(upq) \in Seq(Ids)
        /\ Elements(upq) = {c} \union Elements(Tail(upq))
    BY <2>1, ElementsTail DEF SettingsInv, SettingsTyped
  <2>3. /\ rest \in Seq(Ids)
        /\ Elements(rest) = Elements(order) \cap (Ids \ {c})
        /\ Distinct(rest)
    BY FilterCorrect DEF SettingsInv, SettingsTyped, KeyHeld
  <2>4. known' \in [audio : BOOLEAN \union {Absent}, sleep : BOOLEAN \union {Absent},
                    interval : Intervals \union {Absent}]
    <3>1. CASE UNCHANGED known
      BY <3>1 DEF SettingsInv, SettingsTyped
    <3>2. CASE NoteAcked(body[c].type)
      <4>1. desired.interval \in Intervals
        BY DEF SettingsInv, SettingsTyped, Documents
      <4> QED
        BY <3>2, <4>1 DEF NoteAcked, SettingsInv, SettingsTyped
    <3> QED
      BY <1>5, <3>1, <3>2 DEF OnCommandAck
  <2> HIDE DEF c, rest
  <2>5. /\ Filter(rest, Ids \ expired) \in Seq(Ids)
        /\ Elements(Filter(rest, Ids \ expired)) \subseteq Elements(rest)
    BY <2>3, FilterCorrect
  <2>6. down' \in Seq(Ids)
        /\ Elements(down') \subseteq Elements(down) \union Elements(order)
    <3>1. down \in Seq(Ids)
      BY DEF SettingsInv, SettingsTyped
    <3> DEFINE more == Filter(rest, Ids \ expired)
    <3>2. more \in Seq(Ids) /\ Elements(more) \subseteq Elements(order)
      BY <2>3, <2>5
    <3> HIDE DEF more
    <3>3. down \o more \in Seq(Ids)
          /\ Elements(down \o more) = Elements(down) \union Elements(more)
      BY <3>1, <3>2, ElementsConcat
    <3> QED
      BY <2>1, <3>2, <3>3 DEF more
  <2>7. Elements(order) \subseteq Ids
    BY DEF SettingsInv, SettingsTyped, Elements
  <2>8. SettingsTyped'
    <3>1. expired' \subseteq Elements(order')
      BY <2>1, <2>3, <2>7 DEF SettingsInv, SettingsTyped
    <3>2. idem' \in [Keys -> Ids \union {Absent}]
      BY <2>1 DEF SettingsInv, SettingsTyped
    <3> QED
      BY <2>1, <2>2, <2>3, <2>4, <2>6, <3>1, <3>2 DEF SettingsInv, SettingsTyped
  <2>9. InPlay' \subseteq InPlay
    BY <2>1, <2>2, <2>3, <2>6 DEF InPlay
  <2>10. InPlayIssued'
    BY <2>1, <2>9 DEF SettingsInv, InPlayIssued
  <2>11. ASSUME NEW e \in Elements(order')
         PROVE  idem'[KeyOf(body'[e].type)] = e
    <3>1. e \in Elements(order) /\ e # c
      BY <2>1, <2>3
    <3>2. idem[KeyOf(body[e].type)] = e /\ body[e] \in Bodies
      BY <3>1 DEF SettingsInv, KeyHeld, InPlayIssued, InPlay
    <3>3. KeyOf(body[e].type) \in Keys
      BY <3>2 DEF Bodies, KeyOf, Keys
    <3> QED
      BY <2>1, <3>1, <3>2, <3>3
  <2>12. KeyHeld'
    BY <2>1, <2>3, <2>11 DEF KeyHeld
  <2> QED
    BY <2>8, <2>10, <2>12 DEF SettingsInv
<1>6. CASE Expire
  <2>1. /\ UNCHANGED <<desired, known, body, order, idem, up, down, upq>>
        /\ UNCHANGED <<audio, interval, done, woken>>
    BY <1>6 DEF Expire, serverVars, linkVars, deviceVars
  <2>2. expired' \subseteq Elements(order')
    <3>1. Range(order) = Elements(order)
      BY RangeIsElements DEF SettingsInv, SettingsTyped
    <3> QED
      BY <1>6, <2>1, <3>1 DEF Expire, SettingsInv, SettingsTyped
  <2>3. SettingsTyped'
    BY <2>1, <2>2 DEF SettingsInv, SettingsTyped
  <2>4. InPlayIssued' /\ KeyHeld'
    BY <2>1 DEF SettingsInv, InPlayIssued, InPlay, KeyHeld
  <2> QED
    BY <2>3, <2>4 DEF SettingsInv
<1>7. ASSUME NEW wake \in BOOLEAN, DeviceResets(wake)
      PROVE  SettingsInv'
  <2>1. DeviceDefault \in Intervals
    BY DefaultsAssumption
  <2>2. SettingsTyped'
    BY <1>0, <1>7, <2>1
       DEF DeviceResets, serverVars, cmdVars, SettingsInv, SettingsTyped
  <2> QED
    BY <1>0, <1>7, <2>2, CommandsKept DEF DeviceResets, SettingsInv
<1>8. CASE DoublePress
  <2>1. SettingsTyped'
    BY <1>8 DEF DoublePress, serverVars, cmdVars, linkVars, SettingsInv, SettingsTyped
  <2>2. Elements(down') \subseteq InPlay /\ Elements(upq') \subseteq InPlay
    BY <1>8 DEF DoublePress, linkVars, InPlay
  <2> QED
    BY <1>8, <2>1, <2>2, CommandsKept DEF DoublePress, SettingsInv
<1>9. CASE OnWakeTelemetry
  <2>1. UNCHANGED <<body, order, idem, expired, up, down, upq, audio, interval, done>>
    BY <1>9 DEF OnWakeTelemetry, cmdVars, linkVars
  <2>2. desired' \in Documents
    BY <1>9 DEF OnWakeTelemetry, SettingsInv, SettingsTyped, Documents
  <2>3. known' \in [audio : BOOLEAN \union {Absent}, sleep : BOOLEAN \union {Absent},
                    interval : Intervals \union {Absent}]
    BY <1>9 DEF OnWakeTelemetry, SettingsInv, SettingsTyped
  <2>4. SettingsTyped'
    BY <1>9, <2>1, <2>2, <2>3 DEF OnWakeTelemetry, SettingsInv, SettingsTyped
  <2>5. InPlayIssued' /\ KeyHeld'
    BY <2>1 DEF SettingsInv, InPlayIssued, InPlay, KeyHeld
  <2> QED
    BY <2>4, <2>5 DEF SettingsInv
<1>10. CASE UNCHANGED vars
  <2>1. /\ UNCHANGED <<desired, known, body, order, idem, expired, up, down, upq>>
        /\ UNCHANGED <<audio, interval, done, woken>>
    BY <1>10 DEF vars, serverVars, cmdVars, linkVars, deviceVars
  <2> QED
    BY <2>1 DEF SettingsInv, SettingsTyped, InPlayIssued, InPlay, KeyHeld
<1> QED
  BY <1>1, <1>2, <1>3, <1>4, <1>5, <1>6, <1>7, <1>8, <1>9, <1>10 DEF Next

LEMMA SettingsInvariant == Spec => []SettingsInv
<1>1. Init => SettingsInv
  <2> SUFFICES ASSUME Init
               PROVE  SettingsInv
    OBVIOUS
  <2>1. \A S : <<>> \in Seq(S)
    OBVIOUS
  <2>2. SettingsTyped
    BY <2>1, ElementsEmpty, DefaultsAssumption DEF Init, SettingsTyped, Documents
  <2>3. InPlay = {}
    BY ElementsEmpty DEF Init, InPlay
  <2>4. body \in [Ids -> Bodies \union {Absent}]
    BY DEF Init
  <2> QED
    BY <2>2, <2>3, <2>4, ElementsEmpty DEF Init, SettingsInv, InPlayIssued, KeyHeld
<1> QED
  BY <1>1, SettingsStep, PTL DEF Spec

\* Settings, last-known state, commands and the device's gate are of their kinds,
\* whatever PUTs, hellos, acks, expiries and resets interleave.
THEOREM SettingsTypeCorrect == Spec => []TypeOK
<1>1. SettingsInv => TypeOK
  <2> SUFFICES ASSUME SettingsInv
               PROVE  TypeOK
    OBVIOUS
  <2>1. Range(order) = Elements(order) /\ Range(down) = Elements(down)
        /\ Range(upq) = Elements(upq)
    BY RangeIsElements DEF SettingsInv, SettingsTyped
  <2>2. Elements(order) \subseteq Ids /\ Elements(down) \subseteq Ids
        /\ Elements(upq) \subseteq Ids
    BY DEF SettingsInv, SettingsTyped, Elements
  <2> QED
    BY <2>1, <2>2 DEF SettingsInv, SettingsTyped, TypeOK
<1> QED
  BY <1>1, SettingsInvariant, PTL

\* reconciler.py: "Two reconciles racing toward the same state dedupe into one
\* command", for any settings, any number of racing PUTs and hellos, drops, lost acks
\* and expiries.
THEOREM RacingReconcilesDedupe == Spec => []NoDuplicateInFlight
<1>1. SettingsInv => NoDuplicateInFlight
  <2> SUFFICES ASSUME SettingsInv, NEW i \in 1 .. Len(order), NEW j \in 1 .. Len(order),
                      body[order[i]].type = body[order[j]].type
               PROVE  i = j
    BY DEF NoDuplicateInFlight
  <2>1. order[i] = order[j]
    BY DEF SettingsInv, KeyHeld, Elements
  <2> QED
    BY <2>1 DEF SettingsInv, KeyHeld, Distinct
<1> QED
  BY <1>1, SettingsInvariant, PTL

-----------------------------------------------------------------------------
\* THE RELAY SESSION

\* What a list repeats is in A.
Once(s, A) == \A i, j \in 1 .. Len(s) : i < j /\ s[i] = s[j] => s[i] \in A

OnWire == Elements(wire)
ToFlush == Elements(ws.out)
InHand == Elements(pendingAudio)

SessTyped ==
    /\ SessTypeOK
    /\ link = "none" => owed = {}

\* Nothing is anywhere before the device numbered it.
Numbered ==
    /\ \A f \in OnWire \union ToFlush \union InHand \union Elements(sentRing) : f < nextChunk
    /\ gatt.pc # Idle => gatt.chunk < nextChunk

\* The hello is said once per socket, and so is the bye.
Greeting ==
    /\ link = "connecting" => ws = [pc |-> Idle, out |-> <<>>]
    /\ link = "connecting" \/ ws.pc = "read" => HelloFrame \notin OnWire
    /\ ws.pc = "read" => ws.out = <<>>
    /\ link # "none" => ByeFrame \notin OnWire

\* OnceOnWire is not inductive: a packet may also be held, about to be flushed or in
\* the GATT thread's hands.  It is in two of these places at once only if the server
\* asked for it, or while start() has read the held audio and not yet cleared it.
OnePlace ==
    /\ Once(wire, asked) /\ Once(ws.out, asked) /\ Distinct(pendingAudio)
    /\ OnWire \intersect ToFlush \subseteq asked
    /\ OnWire \intersect InHand \subseteq asked
    /\ ws.pc # "clear" => ToFlush \intersect InHand \subseteq asked
    /\ gatt.pc # Idle => /\ gatt.chunk \notin InHand
                         /\ gatt.chunk \in OnWire \union ToFlush => gatt.chunk \in asked

SessInv == SessTyped /\ Numbered /\ Greeting /\ OnePlace

-----------------------------------------------------------------------------
\* A frame put at the end is a repeat only of what the list already has.
LEMMA OnceAppend ==
  ASSUME NEW F, NEW s \in Seq(F), NEW e \in F, NEW A, Once(s, A), e \in Elements(s) => e \in A
  PROVE  Once(Append(s, e), A)
<1> DEFINE t == Append(s, e)
<1>1. t \in Seq(F) /\ Len(t) = Len(s) + 1 /\ t[Len(s) + 1] = e /\ Len(s) \in Nat
  OBVIOUS
<1>2. \A i \in 1 .. Len(s) : t[i] = s[i]
  OBVIOUS
<1> HIDE DEF t
<1> SUFFICES ASSUME NEW i \in 1 .. Len(t), NEW j \in 1 .. Len(t), i < j, t[i] = t[j]
             PROVE  t[i] \in A
  BY DEF Once, t
<1>3. i \in 1 .. Len(s)
  BY <1>1
<1>4. CASE j \in 1 .. Len(s)
  BY <1>2, <1>3, <1>4 DEF Once
<1>5. CASE j = Len(s) + 1
  BY <1>1, <1>2, <1>3, <1>5 DEF Elements
<1> QED
  BY <1>1, <1>4, <1>5

\* What is left after the first frame repeats no more than before.
LEMMA OnceTail ==
  ASSUME NEW F, NEW s \in Seq(F), s # <<>>, NEW A, Once(s, A)
  PROVE  Once(Tail(s), A) /\ (Head(s) \in Elements(Tail(s)) => Head(s) \in A)
<1> DEFINE t == Tail(s)
<1>1. t \in Seq(F) /\ Len(t) = Len(s) - 1 /\ Len(s) \in Nat \ {0} /\ Head(s) = s[1]
  OBVIOUS
<1>2. \A i \in 1 .. Len(t) : t[i] = s[i + 1]
  OBVIOUS
<1> HIDE DEF t
<1>3. \A i \in 1 .. Len(t) : i + 1 \in 1 .. Len(s) /\ 1 < i + 1
  BY <1>1
<1>4. ASSUME NEW i \in 1 .. Len(t), NEW j \in 1 .. Len(t), i < j, t[i] = t[j]
      PROVE  t[i] \in A
  <2>1. i + 1 < j + 1 /\ s[i + 1] = s[j + 1]
    BY <1>2, <1>4
  <2> QED
    BY <1>2, <1>3, <2>1 DEF Once
<1>5. ASSUME NEW i \in 1 .. Len(t), s[1] = t[i]
      PROVE  s[1] \in A
  <2>1. 1 \in 1 .. Len(s) /\ s[1] = s[i + 1]
    BY <1>1, <1>2, <1>5
  <2> QED
    BY <1>3, <2>1 DEF Once
<1> QED
  BY <1>1, <1>4, <1>5 DEF t, Once, Elements

\* The flush is the hello and the held audio.
LEMMA FlushOnce ==
  ASSUME NEW p \in Seq(Chunks), Distinct(p), NEW A
  PROVE  /\ <<HelloFrame>> \o p \in Seq(Chunks \union {HelloFrame})
         /\ Elements(<<HelloFrame>> \o p) = Elements(p) \union {HelloFrame}
         /\ Once(<<HelloFrame>> \o p, A)
<1> DEFINE F == Chunks \union {HelloFrame}
           h == <<HelloFrame>>
           t == h \o p
<1>1. p \in Seq(F) /\ h \in Seq(F) /\ Len(h) = 1 /\ h[1] = HelloFrame
  OBVIOUS
<1> HIDE DEF h
<1>2. Elements(h) = {HelloFrame}
  BY <1>1 DEF Elements
<1>3. t \in Seq(F) /\ Elements(t) = {HelloFrame} \union Elements(p)
  <2> HIDE DEF F
  <2> QED
    BY <1>1, <1>2, ElementsConcat
<1>4. /\ Len(t) = Len(p) + 1 /\ Len(p) \in Nat
      /\ \A i \in 1 .. Len(t) : t[i] = IF i <= 1 THEN HelloFrame ELSE p[i - 1]
  <2>1. /\ Len(t) = Len(h) + Len(p) /\ Len(p) \in Nat
        /\ \A i \in 1 .. Len(t) : t[i] = IF i <= Len(h) THEN h[i] ELSE p[i - Len(h)]
    <3> HIDE DEF F
    <3> QED
      BY <1>1, ConcatProperties
  <2> QED
    BY <1>1, <2>1
<1> HIDE DEF t, F
<1>5. \A i \in 1 .. Len(p) : p[i] # HelloFrame
  BY DEF Chunks, HelloFrame
<1>6. ASSUME NEW i \in 1 .. Len(t), NEW j \in 1 .. Len(t), i < j
      PROVE  t[i] # t[j]
  <2>1. j - 1 \in 1 .. Len(p) /\ t[j] = p[j - 1]
    BY <1>4, <1>6
  <2>2. CASE i = 1
    BY <1>4, <1>5, <2>1, <2>2
  <2>3. CASE i # 1
    <3>1. i - 1 \in 1 .. Len(p) /\ t[i] = p[i - 1] /\ i - 1 # j - 1
      BY <1>4, <1>6, <2>3
    <3> QED
      BY <2>1, <3>1 DEF Distinct
  <2> QED
    BY <2>2, <2>3
<1> QED
  BY <1>3, <1>6 DEF Once, t, F, h

-----------------------------------------------------------------------------
\* pushRing() stays within the ring.
LEMMA RingBounded ==
  ASSUME NEW r \in Seq(Chunks), Len(r) <= RingMax, NEW c \in Chunks
  PROVE  /\ PushRing(r, c) \in Seq(Chunks)
         /\ Len(PushRing(r, c)) <= RingMax
         /\ Elements(PushRing(r, c)) \subseteq Elements(r) \union {c}
<1>1. CASE Len(r) >= RingMax
  <2>1. r # <<>> /\ Len(r) = RingMax
    BY <1>1, RingAssumption
  <2>2. Tail(r) \in Seq(Chunks) /\ Len(Tail(r)) = RingMax - 1
        /\ Elements(Tail(r)) \subseteq Elements(r)
    BY <2>1, ElementsTail
  <2>3. /\ Append(Tail(r), c) \in Seq(Chunks) /\ Len(Append(Tail(r), c)) = RingMax
        /\ Elements(Append(Tail(r), c)) = Elements(Tail(r)) \union {c}
    <3> DEFINE u == Tail(r)
    <3>1. Append(u, c) \in Seq(Chunks) /\ Len(Append(u, c)) = Len(u) + 1
          /\ u \in Seq(Chunks)
      BY <2>2
    <3> HIDE DEF u
    <3>2. Elements(Append(u, c)) = Elements(u) \union {c}
      BY <3>1, ElementsAppend
    <3> QED
      BY <2>2, <3>1, <3>2, RingAssumption DEF u
  <2> QED
    BY <1>1, <2>2, <2>3, RingAssumption DEF PushRing
<1>2. CASE ~(Len(r) >= RingMax)
  <2>1. /\ Append(r, c) \in Seq(Chunks) /\ Len(Append(r, c)) = Len(r) + 1
        /\ Elements(Append(r, c)) = Elements(r) \union {c}
    BY ElementsAppend
  <2> QED
    BY <1>2, <2>1, RingAssumption DEF PushRing
<1> QED
  BY <1>1, <1>2

\* A frame handed to the socket is at its end, or gone.
LEMMA SentFrames ==
  ASSUME SessTypeOK, NEW f \in Chunks \union {HelloFrame, ByeFrame}
  PROVE  /\ Sent(f) \in Seq(Chunks \union {HelloFrame, ByeFrame})
         /\ Elements(Sent(f)) \subseteq OnWire \union {f}
         /\ Once(wire, asked) /\ (f \in OnWire => f \in asked) => Once(Sent(f), asked)
<1>1. wire \in Seq(Chunks \union {HelloFrame, ByeFrame})
  BY DEF SessTypeOK
<1>2. CASE link = "none"
  BY <1>1, <1>2 DEF Sent, OnWire
<1>3. CASE link # "none"
  <2>1. /\ Append(wire, f) \in Seq(Chunks \union {HelloFrame, ByeFrame})
        /\ Elements(Append(wire, f)) = OnWire \union {f}
    BY <1>1, ElementsAppend DEF OnWire
  <2>2. Once(wire, asked) /\ (f \in OnWire => f \in asked) => Once(Append(wire, f), asked)
    BY <1>1, OnceAppend DEF OnWire
  <2> QED
    BY <1>3, <2>1, <2>2 DEF Sent
<1> QED
  BY <1>2, <1>3

-----------------------------------------------------------------------------
\* Every step of the two threads and of the radio keeps the types.
LEMMA SessTypedNext == SessTyped /\ OnePlace /\ [SessNext]_sessVars => SessTyped'
<1> SUFFICES ASSUME SessTyped, OnePlace, [SessNext]_sessVars
             PROVE  SessTyped'
  OBVIOUS
<1> USE DEF SessTyped, SessTypeOK
<1>1. CASE OnDeviceAudio
  <2>1. nextChunk' \in Chunks
    BY <1>1 DEF OnDeviceAudio, Chunks
  <2>2. gatt' \in [pc : {Idle, "hold", "push", "send"}, chunk : Chunks]
    BY <1>1 DEF OnDeviceAudio
  <2> QED
    BY <1>1, <2>1, <2>2 DEF OnDeviceAudio
<1>2. CASE BleLoses
  <2>1. nextChunk' \in Chunks
    BY <1>2 DEF BleLoses, Chunks
  <2> QED
    BY <1>2, <2>1 DEF BleLoses
<1>3. CASE Hold
  <2>1. gatt.chunk \in Chunks
    OBVIOUS
  <2>2. sentRing' \in Seq(Chunks) /\ Len(sentRing') <= RingMax
    BY <1>3, <2>1, RingBounded DEF Hold
  <2>3. pendingAudio' \in Seq(Chunks)
    BY <1>3, <2>1, ElementsAppend DEF Hold
  <2>4. gatt' \in [pc : {Idle, "hold", "push", "send"}, chunk : Chunks]
    BY <1>3 DEF Hold
  <2> QED
    BY <1>3, <2>2, <2>3, <2>4 DEF Hold
<1>4. CASE Push
  <2>1. gatt.chunk \in Chunks
    OBVIOUS
  <2>2. sentRing' \in Seq(Chunks) /\ Len(sentRing') <= RingMax
    BY <1>4, <2>1, RingBounded DEF Push
  <2>3. gatt' \in [pc : {Idle, "hold", "push", "send"}, chunk : Chunks]
    BY <1>4 DEF Push
  <2> QED
    BY <1>4, <2>2, <2>3 DEF Push
<1>5. CASE Send
  <2>1. gatt.chunk \in Chunks
    OBVIOUS
  <2>2. wire' \in Seq(Chunks \union {HelloFrame, ByeFrame})
    BY <1>5, <2>1, SentFrames DEF Send
  <2>3. gatt' \in [pc : {Idle, "hold", "push", "send"}, chunk : Chunks]
    BY <1>5 DEF Send
  <2> QED
    BY <1>5, <2>2, <2>3 DEF Send
<1>6. CASE OnOpen
  <2>1. ws' \in [pc : {Idle, "read", "clear"}, out : Seq(Chunks \union {HelloFrame})]
    BY <1>6 DEF OnOpen
  <2> QED
    BY <1>6, <2>1 DEF OnOpen
<1>7. CASE StartReads
  <2>1. <<HelloFrame>> \o pendingAudio \in Seq(Chunks \union {HelloFrame})
    BY FlushOnce DEF OnePlace
  <2>2. ws' \in [pc : {Idle, "read", "clear"}, out : Seq(Chunks \union {HelloFrame})]
    BY <1>7, <2>1 DEF StartReads
  <2> QED
    BY <1>7, <2>2 DEF StartReads
<1>8. CASE StartClears
  <2>1. pendingAudio' \in Seq(Chunks)
    BY <1>8 DEF StartClears
  <2>2. ws' \in [pc : {Idle, "read", "clear"}, out : Seq(Chunks \union {HelloFrame})]
    BY <1>8 DEF StartClears
  <2> QED
    BY <1>8, <2>1, <2>2 DEF StartClears
<1>9. CASE Execute
  <2>1. ws.out \in Seq(Chunks \union {HelloFrame}) /\ ws.out # <<>>
    BY <1>9 DEF Execute
  <2>2. Head(ws.out) \in Chunks \union {HelloFrame}
        /\ Tail(ws.out) \in Seq(Chunks \union {HelloFrame})
    BY <2>1, ElementsTail
  <2>3. wire' \in Seq(Chunks \union {HelloFrame, ByeFrame})
    BY <1>9, <2>2, SentFrames DEF Execute
  <2>4. ws' \in [pc : {Idle, "read", "clear"}, out : Seq(Chunks \union {HelloFrame})]
    BY <1>9, <2>2 DEF Execute
  <2> QED
    BY <1>9, <2>3, <2>4 DEF Execute
<1>10. ASSUME NEW from \in Chunks, NEW to \in Chunks, OnRequestChunks(from, to)
       PROVE  SessTyped'
  <2>1. from .. to - 1 \subseteq Chunks
    BY DEF Chunks
  <2>2. Backfill(from, to) \in Seq(Chunks)
    BY FilterCorrect DEF Backfill
  <2>3. <<>> \in Seq(Chunks \union {HelloFrame})
        /\ Backfill(from, to) \in Seq(Chunks \union {HelloFrame})
    BY <2>2
  <2>4. ws' \in [pc : {Idle, "read", "clear"}, out : Seq(Chunks \union {HelloFrame})]
    BY <1>10, <2>3 DEF OnRequestChunks
  <2>5. asked' = asked \union from .. (to - 1) /\ link' = "open"
    BY <1>10 DEF OnRequestChunks
  <2>6. asked' \in SUBSET Chunks /\ owed' \in SUBSET asked'
    BY <1>10, <2>1, <2>5 DEF OnRequestChunks
  <2> QED
    BY <1>10, <2>4, <2>5, <2>6 DEF OnRequestChunks
<1>11. ASSUME NEW t \in Threads, SoftDrop(t)
       PROVE  SessTyped'
  BY <1>11 DEF SoftDrop
<1>12. CASE StopClears
  <2>1. drop' \in [pc : {Idle, "clear", "close"}, by : Threads]
    BY <1>12 DEF StopClears
  <2>2. /\ pendingAudio' \in Seq(Chunks)
        /\ sentRing' \in Seq(Chunks) /\ Len(sentRing') <= RingMax
    BY <1>12, RingAssumption DEF StopClears
  <2> QED
    BY <1>12, <2>1, <2>2 DEF StopClears
<1>13. CASE DropCloses
  <2>1. wire' \in Seq(Chunks \union {HelloFrame, ByeFrame})
    BY <1>13, SentFrames DEF DropCloses
  <2>2. drop' \in [pc : {Idle, "clear", "close"}, by : Threads]
    BY <1>13 DEF DropCloses
  <2> QED
    BY <1>13, <2>1, <2>2 DEF DropCloses
<1>14. CASE OnConnected
  <2>1. wire' \in Seq(Chunks \union {HelloFrame, ByeFrame})
    BY <1>14 DEF OnConnected
  <2> QED
    BY <1>14, <2>1 DEF OnConnected
<1>15. CASE UNCHANGED sessVars
  BY <1>15 DEF sessVars
<1> QED
  BY <1>1, <1>2, <1>3, <1>4, <1>5, <1>6, <1>7, <1>8, <1>9, <1>10, <1>11, <1>12, <1>13,
     <1>14, <1>15 DEF SessNext

-----------------------------------------------------------------------------
\* The shapes of the lists a step works on.
LEMMA Lists ==
  ASSUME SessTyped
  PROVE  /\ wire \in Seq(Chunks \union {HelloFrame, ByeFrame})
         /\ ws.out \in Seq(Chunks \union {HelloFrame})
         /\ pendingAudio \in Seq(Chunks) /\ sentRing \in Seq(Chunks)
         /\ Len(sentRing) <= RingMax
         /\ gatt.chunk \in Chunks /\ nextChunk \in Chunks
         /\ asked \subseteq Chunks
         /\ Chunks \subseteq Nat \ {0} /\ HelloFrame \notin Chunks
         /\ ByeFrame \notin Chunks
         /\ HelloFrame # ByeFrame
  BY DEF SessTyped, SessTypeOK, Chunks, HelloFrame, ByeFrame

\* The reader thread's next frame.
LEMMA NextFrame ==
  ASSUME SessTyped, Execute
  PROVE  /\ Head(ws.out) \in Chunks \union {HelloFrame}
         /\ ToFlush = {Head(ws.out)} \union ToFlush'
         /\ Once(ws.out, asked)
              => Once(ws'.out, asked) /\ (Head(ws.out) \in ToFlush' => Head(ws.out) \in asked)
         /\ OnWire' \subseteq OnWire \union {Head(ws.out)}
         /\ ws'.pc = ws.pc /\ ws.pc = Idle
<1> DEFINE o == ws.out
<1>1. o \in Seq(Chunks \union {HelloFrame}) /\ o # <<>>
  BY Lists DEF Execute
<1>2. ws'.out = Tail(o) /\ ws'.pc = ws.pc /\ ws.pc = Idle /\ wire' = Sent(Head(o))
  BY DEF Execute, WsIdle, SessTyped, SessTypeOK
<1> HIDE DEF o
<1>3. Head(o) \in Chunks \union {HelloFrame}
      /\ Elements(o) = {Head(o)} \union Elements(Tail(o))
  BY <1>1, ElementsTail
<1>4. Once(o, asked) => Once(Tail(o), asked) /\ (Head(o) \in Elements(Tail(o)) => Head(o) \in asked)
  BY <1>1, OnceTail
<1>5. OnWire' \subseteq OnWire \union {Head(o)}
  BY <1>2, <1>3, SentFrames DEF OnWire, SessTyped
<1> QED
  BY <1>2, <1>3, <1>4, <1>5 DEF o, ToFlush

\* What the ring still has of a request was asked for.
LEMMA Backfilled ==
  ASSUME SessTyped, NEW from \in Chunks, NEW to \in Chunks, OnRequestChunks(from, to)
  PROVE  /\ ToFlush' \subseteq Elements(sentRing) \intersect asked'
         /\ asked \subseteq asked'
         /\ ws'.pc = ws.pc /\ ws.pc = Idle
<1>1. /\ asked' = asked \union from .. (to - 1)
      /\ ws'.out = (IF started THEN Backfill(from, to) ELSE <<>>)
      /\ ws'.pc = ws.pc /\ ws.pc = Idle
  BY DEF OnRequestChunks, WsIdle, SessTyped, SessTypeOK
<1>2. Elements(Backfill(from, to)) = Elements(sentRing) \intersect from .. (to - 1)
  BY Lists, FilterCorrect DEF Backfill
<1> QED
  BY <1>1, <1>2, ElementsEmpty DEF ToFlush

\* A repeat the server asked for stays one it asked for.
LEMMA OnceGrows ==
  ASSUME NEW s, NEW A, NEW B, A \subseteq B, Once(s, A) \/ Elements(s) \subseteq B
  PROVE  Once(s, B)
  BY DEF Once, Elements

-----------------------------------------------------------------------------
LEMMA NumberedNext == SessTyped /\ OnePlace /\ Numbered /\ [SessNext]_sessVars => Numbered'
<1> SUFFICES ASSUME SessTyped, OnePlace, Numbered, [SessNext]_sessVars
             PROVE  Numbered'
  OBVIOUS
<1>0. HelloFrame < nextChunk /\ ByeFrame < nextChunk /\ nextChunk \in Nat
  BY Lists DEF HelloFrame, ByeFrame
<1> USE DEF Numbered
<1>1. CASE OnDeviceAudio
  <2>1. \A f \in OnWire \union ToFlush \union InHand \union Elements(sentRing) : f \in Int
    BY Lists DEF OnWire, ToFlush, InHand, Elements, HelloFrame, ByeFrame
  <2>2. /\ UNCHANGED <<OnWire, ToFlush, InHand, sentRing>>
        /\ nextChunk' = nextChunk + 1 /\ gatt'.chunk = nextChunk
    BY <1>1 DEF OnDeviceAudio, OnWire, ToFlush, InHand
  <2> QED
    BY <1>0, <2>1, <2>2
<1>2. CASE BleLoses
  <2>1. \A f \in OnWire \union ToFlush \union InHand \union Elements(sentRing) : f \in Int
    BY Lists DEF OnWire, ToFlush, InHand, Elements, HelloFrame, ByeFrame
  <2>2. /\ UNCHANGED <<OnWire, ToFlush, InHand, sentRing, gatt>>
        /\ nextChunk' = nextChunk + 1 /\ gatt.chunk \in Nat
    BY <1>2, Lists DEF BleLoses, OnWire, ToFlush, InHand
  <2> QED
    BY <1>0, <2>1, <2>2
<1>3. CASE Hold
  <2>1. InHand' = InHand \union {gatt.chunk}
    BY <1>3, Lists, ElementsAppend DEF Hold, InHand
  <2>2. Elements(sentRing') \subseteq Elements(sentRing) \union {gatt.chunk}
    BY <1>3, Lists, RingBounded DEF Hold
  <2>3. gatt.pc # Idle /\ gatt'.pc = Idle /\ UNCHANGED <<OnWire, ToFlush, nextChunk>>
    BY <1>3 DEF Hold, OnWire, ToFlush, Idle, SessTyped, SessTypeOK
  <2> QED
    BY <2>1, <2>2, <2>3
<1>4. CASE Push
  <2>1. Elements(sentRing') \subseteq Elements(sentRing) \union {gatt.chunk}
    BY <1>4, Lists, RingBounded DEF Push
  <2>2. /\ gatt.pc # Idle /\ gatt'.chunk = gatt.chunk
        /\ UNCHANGED <<OnWire, ToFlush, InHand, nextChunk>>
    BY <1>4 DEF Push, OnWire, ToFlush, InHand, Idle, SessTyped, SessTypeOK
  <2> QED
    BY <2>1, <2>2
<1>5. CASE Send
  <2>1. OnWire' \subseteq OnWire \union {gatt.chunk}
    BY <1>5, Lists, SentFrames DEF Send, SessTyped, OnWire
  <2>2. gatt.pc # Idle /\ gatt'.pc = Idle
        /\ UNCHANGED <<ToFlush, InHand, sentRing, nextChunk>>
    BY <1>5 DEF Send, ToFlush, InHand, Idle, SessTyped, SessTypeOK
  <2> QED
    BY <2>1, <2>2
<1>6. CASE OnOpen
  BY <1>6 DEF OnOpen, OnWire, ToFlush, InHand, SessTyped, SessTypeOK
<1>7. CASE StartReads
  <2>1. ToFlush' = InHand \union {HelloFrame}
    BY <1>7, Lists, FlushOnce DEF StartReads, ToFlush, InHand, OnePlace
  <2>2. UNCHANGED <<OnWire, InHand, sentRing, nextChunk, gatt>>
    BY <1>7 DEF StartReads, OnWire, InHand
  <2> QED
    BY <1>0, <2>1, <2>2
<1>8. CASE StartClears
  <2>1. InHand' = {}
    BY <1>8, ElementsEmpty DEF StartClears, InHand
  <2>2. UNCHANGED <<OnWire, ToFlush, sentRing, nextChunk, gatt>>
    BY <1>8 DEF StartClears, OnWire, ToFlush, SessTyped, SessTypeOK
  <2> QED
    BY <2>1, <2>2
<1>9. CASE Execute
  <2>1. ToFlush' \subseteq ToFlush /\ OnWire' \subseteq OnWire \union ToFlush
    BY <1>9, NextFrame
  <2>2. UNCHANGED <<InHand, sentRing, nextChunk, gatt>>
    BY <1>9 DEF Execute, InHand
  <2> QED
    BY <2>1, <2>2
<1>10. ASSUME NEW from \in Chunks, NEW to \in Chunks, OnRequestChunks(from, to)
       PROVE  Numbered'
  <2>1. ToFlush' \subseteq Elements(sentRing)
    BY <1>10, Backfilled
  <2>2. UNCHANGED <<OnWire, InHand, sentRing, nextChunk, gatt>>
    BY <1>10 DEF OnRequestChunks, OnWire, InHand
  <2> QED
    BY <2>1, <2>2
<1>11. ASSUME NEW t \in Threads, SoftDrop(t)
       PROVE  Numbered'
  BY <1>11 DEF SoftDrop, OnWire, ToFlush, InHand
<1>12. CASE StopClears
  <2>1. InHand' = {} /\ Elements(sentRing') = {}
    BY <1>12, ElementsEmpty DEF StopClears, InHand
  <2>2. UNCHANGED <<OnWire, ToFlush, nextChunk, gatt>>
    BY <1>12 DEF StopClears, OnWire, ToFlush
  <2> QED
    BY <2>1, <2>2
<1>13. CASE DropCloses
  <2>1. OnWire' \subseteq OnWire \union {ByeFrame}
    BY <1>13, SentFrames DEF DropCloses, SessTyped, OnWire
  <2>2. UNCHANGED <<ToFlush, InHand, sentRing, nextChunk, gatt>>
    BY <1>13 DEF DropCloses, ToFlush, InHand
  <2> QED
    BY <1>0, <2>1, <2>2
<1>14. CASE OnConnected
  <2>1. OnWire' = {}
    BY <1>14, ElementsEmpty DEF OnConnected, OnWire
  <2>2. UNCHANGED <<ToFlush, InHand, sentRing, nextChunk, gatt>>
    BY <1>14 DEF OnConnected, ToFlush, InHand
  <2> QED
    BY <2>1, <2>2
<1>15. CASE UNCHANGED sessVars
  BY <1>15 DEF sessVars, OnWire, ToFlush, InHand
<1> QED
  BY <1>1, <1>2, <1>3, <1>4, <1>5, <1>6, <1>7, <1>8, <1>9, <1>10, <1>11, <1>12, <1>13,
     <1>14, <1>15 DEF SessNext

LEMMA GreetingNext == SessTyped /\ Greeting /\ [SessNext]_sessVars => Greeting'
<1> SUFFICES ASSUME SessTyped, Greeting, [SessNext]_sessVars
             PROVE  Greeting'
  OBVIOUS
<1> USE DEF Greeting
<1>1. CASE OnDeviceAudio \/ BleLoses \/ Hold \/ Push \/ StopClears
  BY <1>1 DEF OnDeviceAudio, BleLoses, Hold, Push, StopClears, OnWire
<1>2. CASE Send
  <2>1. OnWire' \subseteq OnWire \union {gatt.chunk}
    BY <1>2, Lists, SentFrames DEF Send, SessTyped, OnWire
  <2> QED
    BY <1>2, <2>1, Lists DEF Send
<1>3. CASE OnOpen
  <2>1. link = "connecting" /\ link' = "open" /\ ws.out = <<>> /\ UNCHANGED OnWire
    BY <1>3 DEF OnOpen, OnWire
  <2>2. ws'.out = ws.out
    BY <1>3 DEF OnOpen, SessTyped, SessTypeOK
  <2> QED
    BY <2>1, <2>2
<1>4. CASE StartReads
  <2>1. UNCHANGED <<OnWire, link>> /\ ws.pc = "read" /\ ws'.pc = "clear"
        /\ ws # [pc |-> Idle, out |-> <<>>]
    BY <1>4 DEF StartReads, OnWire, Idle
  <2> QED
    BY <2>1
<1>5. CASE StartClears
  <2>1. /\ UNCHANGED <<OnWire, link>> /\ ws.pc = "clear" /\ ws'.pc = Idle
        /\ ws # [pc |-> Idle, out |-> <<>>]
    BY <1>5 DEF StartClears, OnWire, Idle, SessTyped, SessTypeOK
  <2> QED
    BY <2>1 DEF Idle
<1>6. CASE Execute
  <2>1. link # "connecting" /\ UNCHANGED link
    BY <1>6 DEF Execute
  <2>2. ws'.pc = Idle /\ OnWire' \subseteq OnWire \union Chunks \union {HelloFrame}
    BY <1>6, NextFrame
  <2> QED
    BY <2>1, <2>2, Lists DEF Idle
<1>7. ASSUME NEW from \in Chunks, NEW to \in Chunks, OnRequestChunks(from, to)
      PROVE  Greeting'
  <2>1. link = "open" /\ UNCHANGED <<link, OnWire>> /\ ws'.pc = Idle
    BY <1>7, Backfilled DEF OnRequestChunks, OnWire
  <2> QED
    BY <2>1 DEF Idle
<1>8. ASSUME NEW t \in Threads, SoftDrop(t)
      PROVE  Greeting'
  BY <1>8 DEF SoftDrop, OnWire
<1>9. CASE DropCloses
  <2>1. OnWire' \subseteq OnWire \union {ByeFrame}
    BY <1>9, SentFrames DEF DropCloses, SessTyped, OnWire
  <2> QED
    BY <1>9, <2>1, Lists DEF DropCloses
<1>10. CASE OnConnected
  <2>1. OnWire' = {}
    BY <1>10, ElementsEmpty DEF OnConnected, OnWire
  <2> QED
    BY <1>10, <2>1 DEF OnConnected
<1>11. CASE UNCHANGED sessVars
  BY <1>11 DEF sessVars, OnWire
<1> QED
  BY <1>1, <1>2, <1>3, <1>4, <1>5, <1>6, <1>7, <1>8, <1>9, <1>10, <1>11 DEF SessNext

LEMMA OnePlaceNext ==
  SessTyped /\ Numbered /\ Greeting /\ OnePlace /\ [SessNext]_sessVars => OnePlace'
<1> SUFFICES ASSUME SessTyped, Numbered, Greeting, OnePlace, [SessNext]_sessVars
             PROVE  OnePlace'
  OBVIOUS
<1> USE DEF OnePlace
<1>1. CASE OnDeviceAudio
  <2>1. /\ UNCHANGED <<wire, ws, pendingAudio, asked, OnWire, ToFlush, InHand>>
        /\ gatt'.chunk = nextChunk
    BY <1>1 DEF OnDeviceAudio, OnWire, ToFlush, InHand
  <2>2. nextChunk \notin OnWire \union ToFlush \union InHand
    BY Lists DEF Numbered
  <2> QED
    BY <2>1, <2>2
<1>2. CASE BleLoses
  BY <1>2 DEF BleLoses, OnWire, ToFlush, InHand
<1>3. CASE Hold
  <2>1. gatt.pc # Idle /\ gatt'.pc = Idle
        /\ UNCHANGED <<wire, ws, asked, OnWire, ToFlush>>
    BY <1>3 DEF Hold, OnWire, ToFlush, Idle, SessTyped, SessTypeOK
  <2>2. InHand' = InHand \union {gatt.chunk} /\ Distinct(pendingAudio')
    BY <1>3, <2>1, Lists, ElementsAppend DEF Hold, InHand
  <2> QED
    BY <2>1, <2>2
<1>4. CASE Push
  <2>1. /\ gatt.pc # Idle /\ gatt'.chunk = gatt.chunk
        /\ UNCHANGED <<wire, ws, pendingAudio, asked, OnWire, ToFlush, InHand>>
    BY <1>4 DEF Push, OnWire, ToFlush, InHand, Idle, SessTyped, SessTypeOK
  <2> QED
    BY <2>1
<1>5. CASE Send
  <2>1. /\ gatt.pc # Idle /\ gatt'.pc = Idle
        /\ UNCHANGED <<ws, pendingAudio, asked, ToFlush, InHand>>
    BY <1>5 DEF Send, ToFlush, InHand, Idle, SessTyped, SessTypeOK
  <2>2. OnWire' \subseteq OnWire \union {gatt.chunk} /\ Once(wire', asked)
    BY <1>5, <2>1, Lists, SentFrames DEF Send, SessTyped, OnWire
  <2> QED
    BY <2>1, <2>2
<1>6. CASE OnOpen
  <2>1. /\ ws'.out = ws.out /\ ws.out = <<>> /\ ToFlush' = ToFlush /\ ToFlush = {}
        /\ UNCHANGED <<wire, pendingAudio, asked, OnWire, InHand, gatt>>
    BY <1>6, ElementsEmpty DEF OnOpen, ToFlush, OnWire, InHand, SessTyped, SessTypeOK
  <2> QED
    BY <2>1
<1>7. CASE StartReads
  <2>1. /\ ws.pc = "read" /\ ws'.pc = "clear" /\ ws'.out = <<HelloFrame>> \o pendingAudio
        /\ UNCHANGED <<wire, pendingAudio, asked, OnWire, InHand, gatt>>
    BY <1>7 DEF StartReads, OnWire, InHand
  <2>2. ToFlush' = InHand \union {HelloFrame} /\ Once(ws'.out, asked)
    <3> DEFINE o == <<HelloFrame>> \o pendingAudio
    <3>1. Elements(o) = Elements(pendingAudio) \union {HelloFrame} /\ Once(o, asked)
      BY Lists, FlushOnce
    <3> HIDE DEF o
    <3>2. ws'.out = o
      BY <2>1 DEF o
    <3> QED
      BY <3>1, <3>2 DEF ToFlush, InHand
  <2>3. HelloFrame \notin OnWire /\ gatt.chunk # HelloFrame
    BY <2>1, Lists DEF Greeting
  <2> QED
    BY <2>1, <2>2, <2>3
<1>8. CASE StartClears
  <2>1. /\ ws'.out = ws.out /\ ToFlush' = ToFlush
        /\ UNCHANGED <<wire, asked, OnWire, gatt>>
    BY <1>8 DEF StartClears, ToFlush, OnWire, SessTyped, SessTypeOK
  <2>2. InHand' = {} /\ Distinct(pendingAudio')
    BY <1>8, ElementsEmpty DEF StartClears, InHand
  <2> QED
    BY <2>1, <2>2
<1>9. CASE Execute
  <2> DEFINE f == Head(ws.out)
  <2>1. UNCHANGED <<pendingAudio, asked, InHand, gatt>> /\ wire' = Sent(f)
    BY <1>9 DEF Execute, InHand
  <2>2. /\ f \in Chunks \union {HelloFrame} /\ ToFlush = {f} \union ToFlush'
        /\ Once(ws'.out, asked) /\ (f \in ToFlush' => f \in asked)
        /\ OnWire' \subseteq OnWire \union {f} /\ ws'.pc = Idle /\ ws.pc = Idle
    BY <1>9, NextFrame
  <2> HIDE DEF f
  <2>3. f \in OnWire => f \in asked
    BY <2>2
  <2>4. Once(wire', asked)
    BY <2>1, <2>2, <2>3, SentFrames DEF SessTyped
  <2>5. f \in InHand => f \in asked
    BY <2>2 DEF Idle
  <2>6. ToFlush' \subseteq ToFlush
    BY <2>2
  <2>7. OnWire' \intersect ToFlush' \subseteq asked
        /\ OnWire' \intersect InHand \subseteq asked
    BY <2>2, <2>5, <2>6
  <2>8. ToFlush' \intersect InHand \subseteq asked
    BY <2>2, <2>6 DEF Idle
  <2>9. OnWire' \union ToFlush' \subseteq OnWire \union ToFlush
    BY <2>2
  <2> QED
    BY <2>1, <2>2, <2>4, <2>7, <2>8, <2>9
<1>10. ASSUME NEW from \in Chunks, NEW to \in Chunks, OnRequestChunks(from, to)
       PROVE  OnePlace'
  <2>1. ToFlush' \subseteq asked' /\ asked \subseteq asked'
    BY <1>10, Backfilled
  <2>2. UNCHANGED <<wire, pendingAudio, OnWire, InHand, gatt>>
    BY <1>10 DEF OnRequestChunks, OnWire, InHand
  <2>3. Once(wire, asked') /\ Once(ws'.out, asked')
    BY <2>1, OnceGrows DEF ToFlush
  <2> QED
    BY <2>1, <2>2, <2>3
<1>11. ASSUME NEW t \in Threads, SoftDrop(t)
       PROVE  OnePlace'
  BY <1>11 DEF SoftDrop, OnWire, ToFlush, InHand
<1>12. CASE StopClears
  <2>1. UNCHANGED <<wire, ws, asked, OnWire, ToFlush, gatt>>
    BY <1>12 DEF StopClears, OnWire, ToFlush
  <2>2. InHand' = {} /\ Distinct(pendingAudio')
    BY <1>12, ElementsEmpty DEF StopClears, InHand
  <2> QED
    BY <2>1, <2>2
<1>13. CASE DropCloses
  <2>1. UNCHANGED <<ws, pendingAudio, asked, ToFlush, InHand, gatt>>
        /\ wire' = Sent(ByeFrame)
    BY <1>13 DEF DropCloses, ToFlush, InHand
  <2>2. ByeFrame \notin ToFlush \union InHand /\ gatt.chunk # ByeFrame
    BY Lists DEF ToFlush, InHand, Elements
  <2>3. OnWire' \subseteq OnWire \union {ByeFrame}
    BY <2>1, SentFrames DEF SessTyped, OnWire
  <2>4. Once(wire', asked)
    <3>1. CASE link = "none"
      BY <2>1, <3>1 DEF Sent
    <3>2. CASE link # "none"
      BY <2>1, <3>2, SentFrames DEF Greeting, SessTyped
    <3> QED
      BY <3>1, <3>2
  <2> QED
    BY <2>1, <2>2, <2>3, <2>4
<1>14. CASE OnConnected
  <2>1. /\ wire' = <<>> /\ asked' = {} /\ ws' = ws /\ ws.out = <<>> /\ gatt'.pc = Idle
        /\ UNCHANGED <<pendingAudio, InHand>>
    BY <1>14 DEF OnConnected, GattIdle, InHand
  <2>2. OnWire' = {} /\ ToFlush' = {}
    BY <2>1, ElementsEmpty DEF OnWire, ToFlush
  <2>3. Once(wire', asked') /\ Once(ws'.out, asked')
    BY <2>1 DEF Once
  <2> QED
    BY <2>1, <2>2, <2>3
<1>15. CASE UNCHANGED sessVars
  BY <1>15 DEF sessVars, OnWire, ToFlush, InHand
<1> QED
  BY <1>1, <1>2, <1>3, <1>4, <1>5, <1>6, <1>7, <1>8, <1>9, <1>10, <1>11, <1>12, <1>13,
     <1>14, <1>15 DEF SessNext

LEMMA SessInvariant == SessSpec => []SessInv
<1>1. SessInit => SessInv
  <2> SUFFICES ASSUME SessInit
               PROVE  SessInv
    OBVIOUS
  <2>1. \A S : <<>> \in Seq(S)
    OBVIOUS
  <2>2. SessTyped
    <3>1. /\ pendingAudio \in Seq(Chunks) /\ sentRing \in Seq(Chunks)
          /\ Len(sentRing) <= RingMax
          /\ wire \in Seq(Chunks \union {HelloFrame, ByeFrame})
      BY <2>1, RingAssumption DEF SessInit
    <3>2. ws \in [pc : {Idle, "read", "clear"}, out : Seq(Chunks \union {HelloFrame})]
      BY <2>1 DEF SessInit
    <3>3. /\ gatt \in [pc : {Idle, "hold", "push", "send"}, chunk : Chunks]
          /\ drop \in [pc : {Idle, "clear", "close"}, by : Threads]
          /\ nextChunk \in Chunks
      BY DEF SessInit, Chunks, Threads
    <3> QED
      BY <3>1, <3>2, <3>3 DEF SessInit, SessTyped, SessTypeOK
  <2>3. OnWire = {} /\ ToFlush = {} /\ InHand = {} /\ Elements(sentRing) = {}
    BY ElementsEmpty DEF SessInit, OnWire, ToFlush, InHand
  <2>4. Once(wire, asked) /\ Once(ws.out, asked) /\ Distinct(pendingAudio)
    BY DEF SessInit, Once, Distinct
  <2> QED
    BY <2>2, <2>3, <2>4 DEF SessInit, SessInv, Numbered, Greeting, OnePlace, Idle
<1>2. SessInv /\ [SessNext]_sessVars => SessInv'
  BY SessTypedNext, NumberedNext, GreetingNext, OnePlaceNext DEF SessInv
<1> QED
  BY <1>1, <1>2, PTL DEF SessSpec

\* The gate, the queues, the ring and the threads' places are of their kinds, and the
\* ring holds no more than RING_MAX_CHUNKS, for every interleaving of the threads.
THEOREM SessTypeCorrect == SessSpec => []SessTypeOK
<1>1. SessInv => SessTypeOK
  BY DEF SessInv, SessTyped
<1> QED
  BY <1>1, SessInvariant, PTL

\* RelaySession: however the GATT thread, the reader and a drop interleave, nothing goes
\* out twice on one socket unless the server asked for it, for any ring size, any number
\* of packets, sockets and requests.
THEOREM SentOnce == SessSpec => []OnceOnWire
<1>1. SessInv => OnceOnWire
  BY DEF SessInv, OnePlace, Once, OnceOnWire
<1> QED
  BY <1>1, SessInvariant, PTL

-----------------------------------------------------------------------------
\* Both ends, and the reassembler between them, behave as their own specifications say in
\* the system the run of MCServerPhone explores, whichever of them it follows.
THEOREM EndsImplemented == MCLiveSpec => Spec /\ ReasmSpec /\ SessSpec
<1>1. MCLiveSpec => Spec
  <2>1. MCInit => Init
    BY DEF MCInit
  <2>2. [MCNext]_MCVars => [Next]_vars
    BY DEF MCNext, MCVars, Settings, Reassembly, Session
  <2> QED
    BY <2>1, <2>2, PTL DEF MCLiveSpec, Spec
<1>2. MCLiveSpec => ReasmSpec
  <2>1. MCInit => ReasmInit
    BY DEF MCInit
  <2>2. MCReasmNext => ReasmNext
    <3>1. 1 .. MaxSeq \subseteq Nat
      BY MaxSeqAssumption
    <3> QED
      BY <3>1 DEF MCReasmNext, ReasmNext, Arrival
  <2>3. [MCNext]_MCVars => [ReasmNext]_reasmVars
    BY <2>2 DEF MCNext, MCVars, Settings, Reassembly, Session
  <2> QED
    BY <2>1, <2>3, PTL DEF MCLiveSpec, ReasmSpec
<1>3. MCLiveSpec => SessSpec
  <2>1. MCInit => SessInit
    BY DEF MCInit, MCSessInit
  <2>2. MCSessNext => SessNext
    <3>1. 1 .. MaxChunk \subseteq Chunks
      BY MaxChunkAssumption DEF Chunks
    <3> QED
      BY <3>1 DEF MCSessNext, SessNext, GattThread, WsThread, Dropping
  <2>3. [MCNext]_MCVars => [SessNext]_sessVars
    BY <2>2 DEF MCNext, MCVars, MCSessVars, Settings, Reassembly, Session
  <2> QED
    BY <2>1, <2>3, PTL DEF MCLiveSpec, SessSpec
<1> QED
  BY <1>1, <1>2, <1>3

\* They keep their types.
THEOREM EndsTypeCorrect == MCLiveSpec => []EndTypesOK
  BY EndsImplemented, SettingsTypeCorrect, ReasmTypeCorrect, SessTypeCorrect, PTL
     DEF EndTypesOK

\* And what the run checks of each, for every value of the constants: reconciles that race
\* issue no command twice, the reassembler drops nothing, keeps the deadline of a gap and
\* implements an ordered stream, and nothing goes out twice that the server did not ask for.
THEOREM EndsSafe ==
    MCLiveSpec => /\ [](NoDuplicateInFlight /\ NothingDropped /\ OnceOnWire)
                  /\ DeadlineKept /\ ImplementsStream
  BY EndsImplemented, RacingReconcilesDedupe, LosesNothing, SentOnce, KeepsDeadline,
     RefinesStream, PTL
=============================================================================
