--------------------------- MODULE Filter_proofs ---------------------------
(***************************************************************************)
(* What the filtering loop returns, for every list and every set: a list   *)
(* of exactly the elements it was to keep, none of them twice unless the   *)
(* list had them twice.                                                    *)
(*                                                                         *)
(* The loop is a recursive function; the facts are by induction on the     *)
(* number of passes, from the well-foundedness of < on Nat.                *)
(***************************************************************************)
EXTENDS Filtering, Integers, SequenceTheorems, WellFoundedInduction, TLAPS

Elements(s) == {s[i] : i \in 1 .. Len(s)}

\* No element occurs twice.
Distinct(s) == \A i, j \in 1 .. Len(s) : s[i] = s[j] => i = j

-----------------------------------------------------------------------------
\* Induction over the natural numbers, for a set.
LEMMA NatSetInduction ==
  ASSUME NEW S, 0 \in S, \A n \in Nat : n \in S => n + 1 \in S
  PROVE  Nat \subseteq S
<1> DEFINE T == Nat \ S
<1> SUFFICES ASSUME T # {}
             PROVE  FALSE
  OBVIOUS
<1>1. PICK x \in T : \A y \in T : ~(<<y, x>> \in OpToRel(<, Nat))
  BY NatLessThanWellFounded, WFMin
<1>2. \A y \in T : ~(y < x)
  BY <1>1 DEF OpToRel
<1>3. x # 0 /\ x - 1 \in Nat /\ x - 1 < x /\ (x - 1) + 1 = x
  OBVIOUS
<1>4. x - 1 \in S
  BY <1>2, <1>3
<1> QED
  BY <1>3, <1>4

\* An element appended is the only new one.
LEMMA ElementsAppend ==
  ASSUME NEW F, NEW s \in Seq(F), NEW f \in F
  PROVE  /\ Append(s, f) \in Seq(F)
         /\ Elements(Append(s, f)) = Elements(s) \cup {f}
         /\ Distinct(s) /\ f \notin Elements(s) => Distinct(Append(s, f))
<1> DEFINE t == Append(s, f)
<1>1. t \in Seq(F) /\ Len(t) = Len(s) + 1 /\ t[Len(s) + 1] = f /\ Len(s) \in Nat
  OBVIOUS
<1>2. \A i \in 1 .. Len(s) : t[i] = s[i]
  OBVIOUS
<1> HIDE DEF t
<1>3. 1 .. Len(t) = (1 .. Len(s)) \cup {Len(s) + 1}
  BY <1>1
<1>4. Elements(t) = Elements(s) \cup {f}
  BY <1>1, <1>2, <1>3 DEF Elements
<1>5. ASSUME Distinct(s), f \notin Elements(s), NEW i \in 1 .. Len(t), NEW j \in 1 .. Len(t),
             t[i] = t[j]
      PROVE  i = j
  <2>1. CASE i \in 1 .. Len(s) /\ j \in 1 .. Len(s)
    BY <1>2, <1>5, <2>1 DEF Distinct
  <2>2. CASE i \in 1 .. Len(s) /\ j = Len(s) + 1
    BY <1>1, <1>2, <1>5, <2>2 DEF Elements
  <2>3. CASE i = Len(s) + 1 /\ j \in 1 .. Len(s)
    BY <1>1, <1>2, <1>5, <2>3 DEF Elements
  <2>4. CASE i = Len(s) + 1 /\ j = Len(s) + 1
    BY <2>4
  <2> QED
    BY <1>3, <2>1, <2>2, <2>3, <2>4
<1> QED
  BY <1>1, <1>4, <1>5 DEF t, Distinct

\* The elements of the first element and of the rest, and of two lists in a row.
LEMMA ElementsTail ==
  ASSUME NEW F, NEW s \in Seq(F), s # <<>>
  PROVE  /\ Head(s) \in F /\ Tail(s) \in Seq(F)
         /\ Elements(s) = {Head(s)} \cup Elements(Tail(s))
         /\ Distinct(s) => Distinct(Tail(s)) /\ Head(s) \notin Elements(Tail(s))
<1> DEFINE t == Tail(s)
<1>1. t \in Seq(F) /\ Len(t) = Len(s) - 1 /\ Len(s) \in Nat \ {0} /\ Head(s) = s[1]
      /\ s[1] \in F
  OBVIOUS
<1>2. \A i \in 1 .. Len(t) : t[i] = s[i + 1]
  OBVIOUS
<1> HIDE DEF t
<1>3. \A i \in 1 .. Len(t) : i + 1 \in 1 .. Len(s) /\ i + 1 # 1
  BY <1>1
<1>4. \A i \in 1 .. Len(s) : i = 1 \/ (i - 1 \in 1 .. Len(t) /\ (i - 1) + 1 = i)
  BY <1>1
<1>5. 1 \in 1 .. Len(s)
  BY <1>1
<1>6. Elements(t) \subseteq Elements(s) /\ s[1] \in Elements(s)
  BY <1>2, <1>3, <1>5 DEF Elements
<1>7. ASSUME NEW x \in Elements(s), x # s[1]
      PROVE  x \in Elements(t)
  <2>1. PICK i \in 1 .. Len(s) : x = s[i]
    BY DEF Elements
  <2>2. i - 1 \in 1 .. Len(t) /\ t[i - 1] = x
    BY <1>2, <1>4, <1>7, <2>1
  <2> QED
    BY <2>2 DEF Elements
<1>8. ASSUME Distinct(s)
      PROVE  Distinct(t) /\ s[1] \notin Elements(t)
  <2>1. ASSUME NEW i \in 1 .. Len(t), NEW j \in 1 .. Len(t), t[i] = t[j]
        PROVE  i = j
    <3>1. i + 1 = j + 1
      BY <1>2, <1>3, <1>8, <2>1 DEF Distinct
    <3> QED
      BY <3>1, <1>1
  <2>2. ASSUME NEW i \in 1 .. Len(t)
        PROVE  t[i] # s[1]
    BY <1>2, <1>3, <1>5, <1>8 DEF Distinct
  <2> QED
    BY <2>1, <2>2 DEF Distinct, Elements
<1> QED
  BY <1>1, <1>6, <1>7, <1>8 DEF t

LEMMA ElementsConcat ==
  ASSUME NEW F, NEW s \in Seq(F), NEW t \in Seq(F)
  PROVE  s \o t \in Seq(F) /\ Elements(s \o t) = Elements(s) \cup Elements(t)
<1> DEFINE u == s \o t
<1>1. /\ u \in Seq(F) /\ Len(u) = Len(s) + Len(t) /\ Len(s) \in Nat /\ Len(t) \in Nat
      /\ \A i \in 1 .. Len(u) : u[i] = IF i <= Len(s) THEN s[i] ELSE t[i - Len(s)]
  BY ConcatProperties
<1> HIDE DEF u
<1>2. ASSUME NEW i \in 1 .. Len(u)
      PROVE  u[i] \in Elements(s) \cup Elements(t)
  <2>1. CASE i <= Len(s)
    BY <1>1, <2>1 DEF Elements
  <2>2. CASE ~(i <= Len(s))
    <3>1. i - Len(s) \in 1 .. Len(t)
      BY <1>1, <2>2
    <3> QED
      BY <1>1, <2>2, <3>1 DEF Elements
  <2> QED
    BY <2>1, <2>2
<1>3. ASSUME NEW i \in 1 .. Len(s)
      PROVE  s[i] \in Elements(u)
  BY <1>1 DEF Elements
<1>4. ASSUME NEW i \in 1 .. Len(t)
      PROVE  t[i] \in Elements(u)
  <2>1. i + Len(s) \in 1 .. Len(u) /\ ~(i + Len(s) <= Len(s)) /\ (i + Len(s)) - Len(s) = i
    BY <1>1
  <2>2. u[i + Len(s)] = t[i]
    BY <1>1, <2>1
  <2> QED
    BY <2>1, <2>2 DEF Elements
<1>5. Elements(u) = Elements(s) \cup Elements(t)
  BY <1>2, <1>3, <1>4 DEF Elements
<1> QED
  BY <1>1, <1>5 DEF u

\* A list is a list of any set that holds its elements.
LEMMA ElementsWithin ==
  ASSUME NEW F, NEW G, NEW s \in Seq(F), Elements(s) \subseteq G
  PROVE  s \in Seq(G)
<1>1. \A i \in 1 .. Len(s) : s[i] \in G
  BY DEF Elements
<1>2. Len(s) \in Nat /\ DOMAIN s = 1 .. Len(s) /\ s = [i \in 1 .. Len(s) |-> s[i]]
  OBVIOUS
<1>3. s \in [1 .. Len(s) -> G]
  BY <1>1, <1>2
<1> QED
  BY <1>2, <1>3, SeqDef

\* The empty list has no elements.
LEMMA ElementsEmpty == /\ \A F : <<>> \in Seq(F)
                       /\ Elements(<<>>) = {}
                       /\ Distinct(<<>>)
  BY DEF Elements, Distinct

-----------------------------------------------------------------------------
\* One pass of the loop: what is kept of the first i elements.
Pass(s, keep, g, i) ==
    IF i = 0 THEN <<>>
    ELSE IF s[i] \in keep THEN Append(g[i - 1], s[i]) ELSE g[i - 1]

\* The loop comes to an end for every list.
LEMMA LoopEnds ==
  ASSUME NEW s, Len(s) \in Nat, NEW keep
  PROVE  \E g : g = [i \in 0 .. Len(s) |-> Pass(s, keep, g, i)]
<1> DEFINE Done(n) == \E g : g = [i \in 0 .. n |-> Pass(s, keep, g, i)]
<1>1. Done(0)
  <2> DEFINE g == [i \in 0 .. 0 |-> <<>>]
  <2>1. g = [i \in 0 .. 0 |-> Pass(s, keep, g, i)]
    BY DEF Pass
  <2> QED
    BY <2>1
<1>2. ASSUME NEW n \in Nat, Done(n)
      PROVE  Done(n + 1)
  <2>1. PICK g : g = [i \in 0 .. n |-> Pass(s, keep, g, i)]
    BY <1>2
  <2> DEFINE h == [i \in 0 .. n + 1 |-> IF i <= n THEN g[i] ELSE Pass(s, keep, g, i)]
  <2>2. \A i \in 0 .. n : h[i] = g[i]
    OBVIOUS
  <2>3. \A i \in 0 .. n + 1 : Pass(s, keep, h, i) = Pass(s, keep, g, i)
    BY <2>2 DEF Pass
  <2>4. \A i \in 0 .. n : g[i] = Pass(s, keep, g, i)
    BY <2>1
  <2>5. \A i \in 0 .. n + 1 : h[i] = Pass(s, keep, h, i)
    BY <2>3, <2>4
  <2>6. h = [i \in 0 .. n + 1 |-> Pass(s, keep, h, i)]
    BY <2>5
  <2> QED
    BY <2>6
<1> HIDE DEF Done
<1> DEFINE S == {n \in Nat : Done(n)}
<1>3. 0 \in S /\ \A n \in Nat : n \in S => n + 1 \in S
  BY <1>1, <1>2
<1>4. Nat \subseteq S
  <2> HIDE DEF S
  <2> QED
    BY <1>3, NatSetInduction
<1>5. Done(Len(s))
  BY <1>4
<1> QED
  BY <1>5 DEF Done

\* The filtered list holds exactly the elements to keep, and repeats none that the
\* list does not repeat.
THEOREM FilterCorrect ==
  ASSUME NEW F, NEW s \in Seq(F), NEW keep
  PROVE  /\ Filter(s, keep) \in Seq(F)
         /\ Elements(Filter(s, keep)) = Elements(s) \cap keep
         /\ Distinct(s) => Distinct(Filter(s, keep))
<1> DEFINE kept == CHOOSE g : g = [i \in 0 .. Len(s) |-> Pass(s, keep, g, i)]
<1>1. kept = [i \in 0 .. Len(s) |-> Pass(s, keep, kept, i)]
  <2> DEFINE P(g) == g = [i \in 0 .. Len(s) |-> Pass(s, keep, g, i)]
  <2>1. Len(s) \in Nat
    OBVIOUS
  <2>2. \E g : P(g)
    BY <2>1, LoopEnds, Zenon
  <2> HIDE DEF P
  <2>3. P(CHOOSE g : P(g))
    BY <2>2
  <2> QED
    BY <2>3 DEF P
<1>2. Filter(s, keep) = kept[Len(s)]
  BY DEF Filter, Pass
<1> HIDE DEF kept
<1> DEFINE Right(n) ==
        n <= Len(s) => /\ kept[n] \in Seq(F)
                       /\ Elements(kept[n]) = {s[j] : j \in 1 .. n} \cap keep
                       /\ Distinct(s) => Distinct(kept[n])
<1>3. Right(0)
  <2>1. kept[0] = <<>>
    BY <1>1 DEF Pass
  <2>2. {s[j] : j \in 1 .. 0} = {}
    OBVIOUS
  <2> QED
    BY <2>1, <2>2, ElementsEmpty
<1>4. ASSUME NEW n \in Nat, Right(n)
      PROVE  Right(n + 1)
  <2> SUFFICES ASSUME n + 1 <= Len(s)
               PROVE  /\ kept[n + 1] \in Seq(F)
                      /\ Elements(kept[n + 1]) = {s[j] : j \in 1 .. n + 1} \cap keep
                      /\ Distinct(s) => Distinct(kept[n + 1])
    OBVIOUS
  <2>1. /\ kept[n] \in Seq(F)
        /\ Elements(kept[n]) = {s[j] : j \in 1 .. n} \cap keep
        /\ Distinct(s) => Distinct(kept[n])
    BY <1>4
  <2>2. s[n + 1] \in F
    OBVIOUS
  <2>3. {s[j] : j \in 1 .. n + 1} = {s[j] : j \in 1 .. n} \cup {s[n + 1]}
    OBVIOUS
  <2>4. kept[n + 1] = Pass(s, keep, kept, n + 1)
    BY <1>1
  <2>5. kept[n + 1] = IF s[n + 1] \in keep THEN Append(kept[n], s[n + 1]) ELSE kept[n]
    BY <2>4 DEF Pass
  <2>6. /\ Append(kept[n], s[n + 1]) \in Seq(F)
        /\ Elements(Append(kept[n], s[n + 1])) = Elements(kept[n]) \cup {s[n + 1]}
        /\ Distinct(kept[n]) /\ s[n + 1] \notin Elements(kept[n])
             => Distinct(Append(kept[n], s[n + 1]))
    BY <2>1, <2>2, ElementsAppend
  <2>7. Distinct(s) => s[n + 1] \notin {s[j] : j \in 1 .. n}
    BY DEF Distinct
  <2> QED
    BY <2>1, <2>3, <2>5, <2>6, <2>7
<1> HIDE DEF Right
<1> DEFINE S == {n \in Nat : Right(n)}
<1>5. 0 \in S /\ \A n \in Nat : n \in S => n + 1 \in S
  BY <1>3, <1>4
<1>6. Nat \subseteq S
  <2> HIDE DEF S
  <2> QED
    BY <1>5, NatSetInduction
<1>7. Right(Len(s))
  BY <1>6
<1> QED
  BY <1>2, <1>7 DEF Right, Elements
=============================================================================
