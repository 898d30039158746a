---------------------------- MODULE ChipsProofs ----------------------------
(***************************************************************************)
(* Proofs about the chips (module MCChips).                                *)
(*                                                                         *)
(* The CTC, for any channels: the list of the events stays sorted, no      *)
(* channel has two valid events, a channel in reset has none, and a timer  *)
(* reaches zero on time.                                                   *)
(*                                                                         *)
(* The PIO, for any bits, any bytes of the guest and any groups of lines:  *)
(* the memory banks follow the port, and a line triggers by its edge.      *)
(***************************************************************************)
EXTENDS MCChips, FiniteSetTheorems, SequenceTheorems, WellFoundedInduction, TLAPS

Event == [ch : Channel, live : BOOLEAN, due : Int]

\* A list of events as the callback list keeps it.
Sorted(s) == \A i, j \in DOMAIN s : i < j => s[i].due <= s[j].due

\* No two valid events of one channel.
Single(s) ==
  \A i, j \in DOMAIN s : s[i].live /\ s[j].live /\ s[i].ch = s[j].ch => i = j

\* The channel c has no valid event.
Quiet(s, c) == \A i \in DOMAIN s : s[i].live => s[i].ch # c

\* The valid events of t are events of s.
Within(t, s) == \A i \in DOMAIN t : t[i].live => \E j \in DOMAIN s : t[i] = s[j]

List(s) == s \in Seq(Event) /\ Sorted(s) /\ Single(s)

-----------------------------------------------------------------------------
(***************************************************************************)
(* Numbers.                                                                *)
(***************************************************************************)

\* A set of naturals with an upper bound has a least element.
LEMMA Least ==
  ASSUME NEW n \in Nat, NEW T, T \subseteq 0 .. n, T # {}
  PROVE  \E x \in T : \A y \in T : x <= y
<1> DEFINE S == 0 .. n
           R == StrictSubsetOrdering(S)
           Q == {0 .. x : x \in T}
<1>1. IsWellFoundedOn(R, FiniteSubsetsOf(S))
  BY FS_StrictSubsetOrderingWellFounded
<1>2. Q \subseteq FiniteSubsetsOf(S) /\ Q # {}
  <2>1. \A x \in T : 0 .. x \in SUBSET S
    OBVIOUS
  <2>2. \A x \in T : IsFiniteSet(0 .. x)
    <3>1. \A x \in T : x \in Int
      OBVIOUS
    <3>2. QED
      BY <3>1, FS_Interval
  <2>3. QED
    BY <2>1, <2>2 DEF FiniteSubsetsOf
<1> HIDE DEF R, Q
<1>3. \E a \in Q : \A b \in Q : <<b, a>> \notin R
  BY <1>1, <1>2, WFMin
<1>4. PICK x \in T : \A b \in Q : <<b, 0 .. x>> \notin R
  BY <1>3 DEF Q
<1>5. ASSUME NEW y \in T, y < x PROVE FALSE
  <2>1. 0 .. y \in Q
    BY DEF Q
  <2>2. x \in 0 .. x /\ x \notin 0 .. y /\ 0 .. y \subseteq 0 .. x
    BY <1>5
  <2>3. <<0 .. y, 0 .. x>> \in R
    BY <2>2 DEF R, StrictSubsetOrdering
  <2>4. QED
    BY <2>1, <2>3, <1>4
<1>6. QED
  BY <1>5

LEMMA Products ==
  ASSUME NEW a \in Nat, NEW b \in Nat, NEW x \in Nat, NEW y \in Nat, a <= x, b <= y
  PROVE  a * b \in Nat /\ a * b <= x * y
<1>1. a * b <= a * y
  OBVIOUS
<1>2. a * y <= x * y
  OBVIOUS
<1>3. QED
  BY <1>1, <1>2

\* What a time constant stands for fits into a word.
LEMMA TimeConstantFits ==
  ASSUME NEW m \in {"timer", "counter"}, NEW p \in {P16, P256}, NEW v \in Values
  PROVE  TimeConstant(m, p, v) \in 0 .. (Word - 1)
<1>1. /\ Full \in Nat /\ P16 \in Nat /\ P256 \in Nat /\ Full > 0 /\ P16 > 0 /\ P16 < P256
      /\ p \in Nat /\ p <= P256 /\ v \in Nat /\ v <= Full - 1
  BY TimeAssumption
<1>2. v * p \in Nat /\ v * p <= (Full - 1) * P256
  BY <1>1, Products
<1>3. Full * P16 <= Full * (P256 - 1) /\ Full * P16 \in Nat
  BY <1>1, Products
<1>4. (Full - 1) * P256 = Full * P256 - P256 /\ Full * (P256 - 1) = Full * P256 - Full
  BY <1>1
<1>5. v * 1 <= (Full - 1) * P256
  BY <1>1, Products
<1>6. Full * P256 \in Nat
  BY <1>1
<1>7. QED
  BY <1>1, <1>2, <1>3, <1>4, <1>5, <1>6 DEF TimeConstant, Word

-----------------------------------------------------------------------------
(***************************************************************************)
(* The operators on the list of events.                                    *)
(***************************************************************************)

LEMMA EventTypes ==
  ASSUME NEW s \in Seq(Event)
  PROVE  /\ Len(s) \in Nat /\ DOMAIN s = 1 .. Len(s)
         /\ \A i \in 1 .. Len(s) : /\ s[i] \in Event /\ s[i].ch \in Channel
                                   /\ s[i].due \in Int
<1>1. Len(s) \in Nat /\ DOMAIN s = 1 .. Len(s) /\ \A i \in 1 .. Len(s) : s[i] \in Event
  OBVIOUS
<1>2. \A e \in Event : e.ch \in Channel /\ e.due \in Int
  BY DEF Event
<1>3. QED
  BY <1>1, <1>2

LEMMA Placed ==
  ASSUME NEW s \in Seq(Event), NEW at \in Int
  PROVE  /\ Place(s, at) \in 0 .. Len(s)
         /\ \A i \in 1 .. Place(s, at) : s[i].due <= at
         /\ Place(s, at) < Len(s) => s[Place(s, at) + 1].due > at
<1> DEFINE P(k) == /\ \A i \in 1 .. k : s[i].due <= at
                   /\ k < Len(s) => s[k + 1].due > at
           T == {i \in 1 .. Len(s) : s[i].due > at}
<1>1. Len(s) \in Nat /\ \A i \in 1 .. Len(s) : s[i].due \in Int
  BY EventTypes
<1>2. \E k \in 0 .. Len(s) : P(k)
  <2>1. CASE T = {}
    <3>1. P(Len(s)) /\ Len(s) \in 0 .. Len(s)
      BY <1>1, <2>1
    <3>2. QED
      BY <3>1
  <2>2. CASE T # {}
    <3>1. PICK x \in T : \A y \in T : x <= y
      <4>1. T \subseteq 0 .. Len(s)
        BY <1>1
      <4>2. QED
        BY ONLY <1>1, <2>2, <4>1, Least
    <3>2. P(x - 1) /\ x - 1 \in 0 .. Len(s)
      BY <1>1, <3>1
    <3>3. QED
      BY <3>2
  <2>3. QED
    BY <2>1, <2>2
<1>3. QED
  BY <1>2 DEF Place

\* Added() puts one event between the others and leaves the list sorted.
LEMMA AddedEvents ==
  ASSUME NEW s, List(s), NEW c \in Channel, NEW at \in Int, Quiet(s, c)
  PROVE  /\ List(Added(s, c, at))
         /\ \A i \in DOMAIN Added(s, c, at) :
              \/ Added(s, c, at)[i] = [ch |-> c, live |-> TRUE, due |-> at]
              \/ \E j \in DOMAIN s : Added(s, c, at)[i] = s[j]
<1> DEFINE e == [ch |-> c, live |-> TRUE, due |-> at]
           k == Place(s, at)
           a == SubSeq(s, 1, k)
           b == SubSeq(s, k + 1, Len(s))
           t == Added(s, c, at)
           old(i) == IF i <= k THEN i ELSE i - 1
<1>1. s \in Seq(Event) /\ e \in Event /\ e.ch = c /\ e.live /\ e.due = at
  BY DEF List, Event
<1>2. /\ k \in 0 .. Len(s)
      /\ \A i \in 1 .. k : s[i].due <= at
      /\ k < Len(s) => s[k + 1].due > at
  BY <1>1, Placed
<1>3. t = a \o <<e>> \o b
  BY DEF Added
<1> HIDE DEF k
<1>4. a \in Seq(Event) /\ Len(a) = k /\ \A i \in 1 .. k : a[i] = s[i]
  BY <1>1, <1>2
<1>5. b \in Seq(Event) /\ Len(b) = Len(s) - k /\ \A i \in 1 .. Len(s) - k : b[i] = s[k + i]
  BY <1>1, <1>2
<1> HIDE DEF a, b, t, e
<1>6. /\ t \in Seq(Event) /\ Len(t) = Len(s) + 1 /\ DOMAIN t = 1 .. Len(s) + 1
      /\ t[k + 1] = e
      /\ \A i \in 1 .. Len(s) + 1 : i # k + 1 => old(i) \in 1 .. Len(s) /\ t[i] = s[old(i)]
  <2>1. /\ a \o <<e>> \in Seq(Event) /\ Len(a \o <<e>>) = k + 1
        /\ (a \o <<e>>)[k + 1] = e
        /\ \A i \in 1 .. k : (a \o <<e>>)[i] = s[i]
    BY <1>1, <1>2, <1>4
  <2> DEFINE ae == a \o <<e>>
  <2>2. t = ae \o b /\ ae \in Seq(Event) /\ Len(ae) = k + 1
    BY <1>3, <2>1
  <2> HIDE DEF ae
  <2>3. /\ t \in Seq(Event) /\ Len(t) = Len(s) + 1 /\ DOMAIN t = 1 .. Len(s) + 1
        /\ \A i \in 1 .. k + 1 : t[i] = ae[i]
        /\ \A i \in 1 .. Len(s) - k : t[k + 1 + i] = b[i]
    <3>0. Len(s) \in Nat
      BY ONLY <1>1
    <3>1. Len(s) \in Nat /\ k \in Int /\ b \in Seq(Event) /\ Len(b) = Len(s) - k
      <4>1. k \in 0 .. Len(s)
        BY ONLY <1>2
      <4>2. k \in Int
        BY ONLY <4>1
      <4>3. QED
        BY ONLY <1>5, <3>0, <4>2
    <3>2. t \in Seq(Event) /\ Len(t) = Len(ae) + Len(b)
      BY ONLY <2>2, <3>1, ConcatProperties
    <3>3. Len(t) = Len(s) + 1
      BY ONLY <2>2, <3>1, <3>2
    <3>4. DOMAIN t = 1 .. Len(s) + 1
      BY ONLY <3>2, <3>3
    <3>5. \A i \in 1 .. Len(ae) : t[i] = ae[i]
      BY ONLY <2>2, <3>1, <3>2, ConcatProperties
    <3>6. \A i \in 1 .. Len(b) : t[Len(ae) + i] = b[i]
      BY ONLY <2>2, <3>1, ConcatProperties
    <3>7. QED
      BY <2>2, <3>1, <3>2, <3>3, <3>4, <3>5, <3>6
  <2>4. t[k + 1] = e /\ \A i \in 1 .. k : t[i] = s[i]
    BY <1>2, <2>1, <2>3 DEF ae
  <2>5. \A i \in 1 .. Len(s) - k : t[k + 1 + i] = s[k + i]
    BY <1>2, <1>5, <2>3
  <2>6. \A i \in k + 2 .. Len(s) + 1 : t[i] = s[i - 1]
    <3> TAKE i \in k + 2 .. Len(s) + 1
    <3>1. i - (k + 1) \in 1 .. Len(s) - k /\ k + 1 + (i - (k + 1)) = i /\ k + (i - (k + 1)) = i - 1
      BY <1>1, <1>2
    <3>2. QED
      BY <2>5, <3>1
  <2>7. ASSUME NEW i \in 1 .. Len(s) + 1, i # k + 1
        PROVE  old(i) \in 1 .. Len(s) /\ t[i] = s[old(i)]
    <3>1. Len(s) \in Nat /\ k \in 0 .. Len(s) /\ i \in Int
      BY <1>1, <1>2
    <3>2. CASE i <= k
      <4>1. i \in 1 .. k /\ i \in 1 .. Len(s)
        BY ONLY <2>7, <3>1, <3>2
      <4>2. QED
        BY <2>4, <3>2, <4>1
    <3>3. CASE ~(i <= k)
      <4>1. i \in k + 2 .. Len(s) + 1 /\ i - 1 \in 1 .. Len(s)
        BY ONLY <2>7, <3>1, <3>3
      <4>2. QED
        BY <2>6, <3>3, <4>1
    <3>4. QED
      BY <3>2, <3>3
  <2>8. QED
    BY <2>3, <2>4, <2>7
<1>7. Len(s) \in Nat /\ DOMAIN s = 1 .. Len(s) /\ \A i \in 1 .. Len(s) : s[i].due \in Int /\ s[i] \in Event
  BY <1>1, EventTypes
<1>8. /\ \A i \in 1 .. Len(s) + 1 : i < k + 1 => t[i].due <= at
      /\ \A i \in 1 .. Len(s) + 1 : i > k + 1 => t[i].due >= at
  <2>1. \A i \in 1 .. Len(s) + 1 : i < k + 1 => t[i].due <= at
    BY <1>2, <1>6, <1>7
  <2>2. \A i \in 1 .. Len(s) : i > k => s[i].due >= at
    <3> SUFFICES ASSUME NEW i \in 1 .. Len(s), i > k PROVE s[i].due >= at
      OBVIOUS
    <3>1. k < Len(s) /\ k + 1 \in 1 .. Len(s) /\ k + 1 <= i
      BY <1>2, <1>7
    <3>2. s[k + 1].due > at /\ s[k + 1].due \in Int /\ s[i].due \in Int
      BY <1>2, <1>7, <3>1
    <3>3. s[k + 1].due <= s[i].due
      <4>1. CASE k + 1 = i
        BY <3>2, <4>1
      <4>2. CASE k + 1 # i
        <5>1. k + 1 < i
          BY <1>2, <1>7, <3>1, <4>2
        <5>2. k + 1 \in DOMAIN s /\ i \in DOMAIN s
          BY <1>7, <3>1
        <5>3. Sorted(s)
          BY DEF List
        <5>4. QED
          BY <5>1, <5>2, <5>3 DEF Sorted
      <4>3. QED
        BY <4>1, <4>2
    <3>4. QED
      BY <3>2, <3>3
  <2>3. \A i \in 1 .. Len(s) + 1 : i > k + 1 => t[i].due >= at
    BY <1>2, <1>6, <1>7, <2>2
  <2>4. QED
    BY <2>1, <2>3
<1>9. Sorted(t)
  <2> SUFFICES ASSUME NEW i \in 1 .. Len(s) + 1, NEW j \in 1 .. Len(s) + 1, i < j
               PROVE  t[i].due <= t[j].due
    BY <1>6 DEF Sorted
  <2>1. CASE i = k + 1 \/ j = k + 1
    BY <1>1, <1>2, <1>6, <1>8, <2>1
  <2>2. CASE i # k + 1 /\ j # k + 1
    <3>1. old(i) \in DOMAIN s /\ old(j) \in DOMAIN s /\ old(i) < old(j)
      BY <1>1, <1>2, <1>6, <2>2
    <3>2. QED
      BY <3>1, <1>6, <2>2 DEF List, Sorted
  <2>3. QED
    BY <2>1, <2>2
<1>10. Single(t)
  <2> SUFFICES ASSUME NEW i \in 1 .. Len(s) + 1, NEW j \in 1 .. Len(s) + 1,
                      t[i].live, t[j].live, t[i].ch = t[j].ch
               PROVE  i = j
    BY <1>6 DEF Single
  <2>1. CASE i # k + 1 /\ j # k + 1
    <3>1. old(i) \in DOMAIN s /\ old(j) \in DOMAIN s /\ t[i] = s[old(i)] /\ t[j] = s[old(j)]
      BY <1>1, <1>6, <2>1
    <3>2. old(i) = old(j)
      BY <3>1 DEF List, Single
    <3>3. QED
      BY <3>2, <1>2, <2>1
  <2>2. ASSUME NEW x \in 1 .. Len(s) + 1, x # k + 1, t[x].live
        PROVE  t[x].ch # c
    <3>1. old(x) \in DOMAIN s /\ t[x] = s[old(x)]
      BY <1>1, <1>6, <2>2
    <3>2. QED
      BY <1>1, <2>2, <3>1 DEF Quiet
  <2>3. CASE i = k + 1 /\ j # k + 1
    <3>1. t[i].ch = c
      BY <1>1, <1>6, <2>3
    <3>2. QED
      BY <2>2, <2>3, <3>1
  <2>4. CASE i # k + 1 /\ j = k + 1
    <3>1. t[j].ch = c
      BY <1>1, <1>6, <2>4
    <3>2. QED
      BY <2>2, <2>4, <3>1
  <2>5. QED
    BY <2>1, <2>3, <2>4
<1>11. List(t)
  BY <1>6, <1>9, <1>10 DEF List
<1>12. \A i \in DOMAIN t : t[i] = e \/ \E j \in DOMAIN s : t[i] = s[j]
  BY <1>1, <1>6
<1>13. QED
  BY <1>11, <1>12 DEF t, e

\* Invalidated() silences the channel and leaves the rest as it is.
LEMMA InvalidatedEvents ==
  ASSUME NEW s, List(s), NEW c \in Channel
  PROVE  /\ List(Invalidated(s, c))
         /\ Quiet(Invalidated(s, c), c)
         /\ Within(Invalidated(s, c), s)
<1> DEFINE t == Invalidated(s, c)
<1>1. s \in Seq(Event)
  BY DEF List
<1>2. /\ DOMAIN t = DOMAIN s
      /\ \A i \in DOMAIN s : /\ t[i] \in Event
                             /\ t[i].ch = s[i].ch /\ t[i].due = s[i].due
                             /\ t[i].live => s[i].live /\ s[i].ch # c /\ t[i] = s[i]
  <2>1. DOMAIN t = DOMAIN s
    BY DEF Invalidated
  <2> SUFFICES ASSUME NEW i \in DOMAIN s
               PROVE  /\ t[i] \in Event
                      /\ t[i].ch = s[i].ch /\ t[i].due = s[i].due
                      /\ t[i].live => s[i].live /\ s[i].ch # c /\ t[i] = s[i]
    BY <2>1
  <2>2. s[i] \in Event
    BY <1>1, EventTypes
  <2>3. CASE s[i].ch = c
    <3>1. t[i] = [s[i] EXCEPT !.live = FALSE]
      BY <2>3 DEF Invalidated
    <3>2. t[i] \in Event /\ t[i].ch = s[i].ch /\ t[i].due = s[i].due /\ t[i].live = FALSE
      BY <2>2, <3>1 DEF Event
    <3>3. QED
      BY <3>2
  <2>4. CASE s[i].ch # c
    BY <2>2, <2>4 DEF Invalidated
  <2>5. QED
    BY <2>3, <2>4
<1>3. t \in Seq(Event)
  BY <1>1, <1>2 DEF Invalidated
<1> HIDE DEF t
<1>4. Sorted(t) /\ Single(t)
  BY <1>2 DEF List, Sorted, Single
<1>5. Quiet(t, c) /\ Within(t, s)
  BY <1>2 DEF Quiet, Within
<1>6. QED
  BY <1>3, <1>4, <1>5 DEF List, t

\* Without its first event the list has the others; the first one was the only
\* valid event of its channel.
LEMMA TailEvents ==
  ASSUME NEW s, List(s), s # <<>>
  PROVE  /\ List(Tail(s))
         /\ Within(Tail(s), s)
         /\ Head(s).live => Quiet(Tail(s), Head(s).ch)
<1>1. s \in Seq(Event) /\ Len(s) > 0 /\ Head(s) = s[1]
  BY DEF List
<1>2. /\ Tail(s) \in Seq(Event) /\ Len(Tail(s)) = Len(s) - 1
      /\ \A i \in 1 .. Len(s) - 1 : Tail(s)[i] = s[i + 1]
  BY <1>1
<1>3. Sorted(Tail(s)) /\ Single(Tail(s))
  <2>1. \A i \in DOMAIN Tail(s) : i + 1 \in DOMAIN s /\ Tail(s)[i] = s[i + 1] /\ i \in Nat
    BY <1>1, <1>2
  <2>2. QED
    BY <2>1 DEF List, Sorted, Single
<1>4. Within(Tail(s), s)
  BY <1>1, <1>2 DEF Within
<1>5. Head(s).live => Quiet(Tail(s), Head(s).ch)
  BY <1>1, <1>2 DEF List, Single, Quiet
<1>6. QED
  BY <1>2, <1>3, <1>4, <1>5 DEF List

-----------------------------------------------------------------------------
(***************************************************************************)
(* A channel starts its next period: its former event is of no effect, and *)
(* there is a new one.                                                     *)
(***************************************************************************)

Renewed(t, s, c, at) ==
  /\ List(t)
  /\ \A i \in DOMAIN t : t[i].live =>
       \/ t[i] = [ch |-> c, live |-> TRUE, due |-> at]
       \/ t[i].ch # c /\ \E j \in DOMAIN s : t[i] = s[j]

LEMMA QuietRenewal ==
  ASSUME NEW r, List(r), NEW s, NEW c \in Channel, NEW at \in Int,
         Quiet(r, c), Within(r, s)
  PROVE  Renewed(Added(r, c, at), s, c, at)
<1> DEFINE t == Added(r, c, at)
           e == [ch |-> c, live |-> TRUE, due |-> at]
<1>1. List(t) /\ \A i \in DOMAIN t : t[i] = e \/ \E j \in DOMAIN r : t[i] = r[j]
  BY AddedEvents
<1> HIDE DEF t, e
<1>2. \A i \in DOMAIN t : t[i].live =>
        t[i] = e \/ (t[i].ch # c /\ \E j \in DOMAIN s : t[i] = s[j])
  <2>1. ASSUME NEW i \in DOMAIN t, t[i].live, NEW j \in DOMAIN r, t[i] = r[j]
        PROVE  t[i].ch # c /\ \E x \in DOMAIN s : t[i] = s[x]
    <3>1. r[j].live
      BY <2>1, Zenon
    <3>2. r[j].ch # c /\ \E x \in DOMAIN s : r[j] = s[x]
      BY <3>1, Zenon DEF Quiet, Within
    <3>3. QED
      BY <2>1, <3>2
  <2>2. QED
    BY <1>1, <2>1, Zenon
<1>3. QED
  BY <1>1, <1>2 DEF Renewed, t, e

LEMMA InvalidatedRenewal ==
  ASSUME NEW s, List(s), NEW c \in Channel, NEW at \in Int
  PROVE  Renewed(Added(Invalidated(s, c), c, at), s, c, at)
  BY InvalidatedEvents, QuietRenewal

LEMMA TailRenewal ==
  ASSUME NEW s, List(s), s # <<>>, Head(s).live, NEW c \in Channel, Head(s).ch = c,
         NEW at \in Int
  PROVE  Renewed(Added(Tail(s), c, at), s, c, at)
  BY TailEvents, QuietRenewal

\* A channel without a valid event does not get one from another channel.
LEMMA RenewedQuiet ==
  ASSUME NEW t, NEW s, NEW c, NEW at, Renewed(t, s, c, at),
         NEW d, d # c, Quiet(s, d)
  PROVE  Quiet(t, d)
<1> SUFFICES ASSUME NEW i \in DOMAIN t, t[i].live PROVE t[i].ch # d
  BY DEF Quiet
<1>1. CASE t[i] = [ch |-> c, live |-> TRUE, due |-> at]
  BY <1>1
<1>2. CASE \E j \in DOMAIN s : t[i] = s[j]
  BY <1>2, Zenon DEF Quiet
<1>3. QED
  BY <1>1, <1>2 DEF Renewed

LEMMA WithinQuiet ==
  ASSUME NEW t, NEW s, Within(t, s), NEW d, Quiet(s, d)
  PROVE  Quiet(t, d)
  BY Zenon DEF Within, Quiet

\* Time passes.
LEMMA PassedEvents ==
  ASSUME NEW s, List(s), NEW t \in Int
  PROVE  LET r == Passed(s, t)
         IN  /\ List(r) /\ DOMAIN r = DOMAIN s
             /\ \A i \in DOMAIN s : /\ r[i].ch = s[i].ch /\ r[i].live = s[i].live
                                    /\ r[i].due = s[i].due - t /\ s[i].due \in Int
<1> DEFINE r == Passed(s, t)
<1>1. s \in Seq(Event)
  BY DEF List
<1>2. DOMAIN r = DOMAIN s
  BY DEF Passed
<1>3. ASSUME NEW i \in DOMAIN s
      PROVE  /\ r[i] \in Event /\ r[i].ch = s[i].ch /\ r[i].live = s[i].live
             /\ r[i].due = s[i].due - t /\ s[i].due \in Int
  <2>1. s[i] \in Event /\ s[i].due \in Int
    BY <1>1, EventTypes
  <2>2. r[i] = [s[i] EXCEPT !.due = s[i].due - t]
    BY DEF Passed
  <2> HIDE DEF r
  <2>3. QED
    BY ONLY <2>1, <2>2, t \in Int DEF Event
<1>4. r \in Seq(Event)
  <2>1. r = [i \in 1 .. Len(s) |-> r[i]] /\ Len(s) \in Nat /\ DOMAIN s = 1 .. Len(s)
    BY <1>1 DEF Passed
  <2> HIDE DEF r
  <2>2. QED
    BY ONLY <1>3, <2>1
<1> HIDE DEF r
<1>5. Sorted(r)
  <2>1. Sorted(s)
    BY DEF List
  <2>2. QED
    BY ONLY <1>2, <1>3, <2>1, t \in Int DEF Sorted
<1>6. Single(r)
  <2>1. Single(s)
    BY DEF List
  <2>2. QED
    BY ONLY <1>2, <1>3, <2>1 DEF Single
<1>7. QED
  BY <1>2, <1>3, <1>4, <1>5, <1>6 DEF List, r

-----------------------------------------------------------------------------
(***************************************************************************)
(* The invariant: the list of the events is in order, and a channel that   *)
(* is in reset, or was not loaded since, has no valid event.               *)
(***************************************************************************)

Registers ==
  /\ clk \in Clocks
  /\ mode \in [Channel -> {"timer", "counter"}]
  /\ prescaler \in [Channel -> {P16, P256}]
  /\ constant \in [Channel -> BOOLEAN] /\ reset \in [Channel -> BOOLEAN]
  /\ loaded \in [Channel -> {"none", "timer", "counter"}]
  /\ value \in [Channel -> 0 .. (Word - 1)] /\ timer_value \in [Channel -> 0 .. (Word - 1)]
  /\ phase \in {"cpu", "run"}

Silent == \A c \in Channel : loaded[c] = "none" \/ reset[c] => Quiet(events, c)

Safe == Registers /\ List(events) /\ Silent

LEMMA WordSize == Word \in Nat /\ Word > 0
<1>1. Full \in Nat /\ P256 \in Nat /\ 1 <= Full /\ 1 <= P256
  BY TimeAssumption
<1>2. 1 * 1 <= Full * P256
  BY <1>1, Products
<1>3. QED
  BY <1>1, <1>2 DEF Word

LEMMA ClockTypes ==
  ASSUME Registers, NEW c \in Channel
  PROVE  clk[c] \in Nat /\ \A v \in Nat : clk[c] * v \in Nat
<1>1. clk \in [0 .. (Channels - 1) -> Nat]
  BY ChannelsAssumption DEF Registers
<1>2. QED
  BY <1>1 DEF Channel

LEMMA TriggerTypes ==
  ASSUME Registers, NEW ks, Trigger(ks)
  PROVE  value' \in [Channel -> 0 .. (Word - 1)]
<1> SUFFICES ASSUME NEW k \in Channel PROVE Counted(k) \in 0 .. (Word - 1)
  BY DEF Trigger, Registers
<1>1. Decremented(k) \in 0 .. (Word - 1)
  <2>1. value[k] - 1 \in Int
    BY WordSize DEF Registers
  <2>2. QED
    BY <2>1, WordSize DEF Decremented
<1>2. QED
  BY <1>1 DEF Counted, Registers

LEMMA RegistersStep ==
  ASSUME Registers, [Next]_vars
  PROVE  Registers'
<1>1. ASSUME NEW c \in Channel, NEW v \in Values, Load(c, v) PROVE Registers'
  <2>1. TimeConstant(mode[c], prescaler[c], v) \in 0 .. (Word - 1)
    BY TimeConstantFits DEF Registers
  <2>2. value' \in [Channel -> 0 .. (Word - 1)] /\ timer_value' \in [Channel -> 0 .. (Word - 1)]
    BY <1>1, <2>1 DEF Load, Registers
  <2>3. constant' \in [Channel -> BOOLEAN] /\ reset' \in [Channel -> BOOLEAN]
    BY <1>1 DEF Load, Registers
  <2>4. loaded' \in [Channel -> {"none", "timer", "counter"}]
    BY <1>1 DEF Load, Registers
  <2>5. QED
    BY <1>1, <2>2, <2>3, <2>4 DEF Load, Registers
<1>2. ASSUME NEW c \in Channel, NEW m \in {"timer", "counter"}, NEW p \in {P16, P256},
             NEW const \in BOOLEAN, NEW r \in BOOLEAN, ControlWord(c, m, p, const, r)
      PROVE  Registers'
  <2>1. mode' \in [Channel -> {"timer", "counter"}] /\ prescaler' \in [Channel -> {P16, P256}]
    BY <1>2 DEF ControlWord, Registers
  <2>2. constant' \in [Channel -> BOOLEAN] /\ reset' \in [Channel -> BOOLEAN]
    BY <1>2 DEF ControlWord, Registers
  <2>3. loaded' \in [Channel -> {"none", "timer", "counter"}]
    BY <1>2 DEF ControlWord, Registers
  <2>4. value' \in [Channel -> 0 .. (Word - 1)]
    BY <1>2 DEF ControlWord, Registers
  <2>5. QED
    BY <1>2, <2>1, <2>2, <2>3, <2>4 DEF ControlWord, Registers
<1>3. ASSUME NEW t \in Ticks, Instruction(t) PROVE Registers'
  BY <1>3 DEF Instruction, Registers, control
<1>4. CASE Done
  BY <1>4 DEF Done, Registers, control, history
<1>5. ASSUME NEW c \in Channel, Callback(c) PROVE Registers'
  <2>1. value' \in [Channel -> 0 .. (Word - 1)]
    BY <1>5, TriggerTypes DEF Callback, StaleCallback, TimerCallback, CounterCallback, Registers
  <2>2. UNCHANGED <<control, timer_value, phase, loaded>>
    BY <1>5 DEF Callback, StaleCallback, TimerCallback, CounterCallback, history
  <2>3. QED
    BY <2>1, <2>2 DEF Registers, control
<1>6. ASSUME NEW c \in Channel, ClockTrigger(c) PROVE Registers'
  BY <1>6, TriggerTypes DEF ClockTrigger, Registers, control, history
<1>7. CASE Reset
  BY <1>7, WordSize DEF Reset, Registers
<1>8. CASE UNCHANGED vars
  BY <1>8 DEF vars, control, history, Registers
<1>9. QED
  BY <1>1, <1>2, <1>3, <1>4, <1>5, <1>6, <1>7, <1>8 DEF Next, Loop, Writes

\* What the operations do to the events.
LEMMA LoadStep ==
  ASSUME Registers, List(events), NEW c \in Channel, NEW v \in Values, Load(c, v)
  PROVE  LET tv == TimeConstant(mode[c], prescaler[c], v)
         IN  /\ tv \in Nat
             /\ mode[c] = "timer" => Renewed(events', events, c, tv + Late)
             /\ mode[c] = "counter" /\ clk[c] # 0 => Renewed(events', events, c, clk[c] * tv)
             /\ mode[c] = "counter" /\ clk[c] = 0 => events' = events
<1> DEFINE tv == TimeConstant(mode[c], prescaler[c], v)
<1>1. tv \in 0 .. (Word - 1)
  BY TimeConstantFits DEF Registers
<1>2. events' = LoadedEvents(c, tv)
  BY DEF Load
<1> HIDE DEF tv
<1>3. tv \in Nat /\ tv + Late \in Int /\ clk[c] * tv \in Int
  <2>1. tv \in Nat /\ Late \in Nat
    BY <1>1, WordSize, TimeAssumption
  <2>2. QED
    BY <2>1, ClockTypes
<1>4. mode[c] = "timer" => Renewed(events', events, c, tv + Late)
  BY <1>2, <1>3, InvalidatedRenewal DEF LoadedEvents
<1>5. mode[c] = "counter" /\ clk[c] # 0 => Renewed(events', events, c, clk[c] * tv)
  BY <1>2, <1>3, InvalidatedRenewal DEF LoadedEvents, CounterMode
<1>6. mode[c] = "counter" /\ clk[c] = 0 => events' = events
  BY <1>2 DEF LoadedEvents, CounterMode
<1>7. QED
  BY <1>3, <1>4, <1>5, <1>6 DEF tv

LEMMA NextIsHead ==
  ASSUME List(events), NEW c \in Channel, NEW live, IsNext(c, live)
  PROVE  /\ events # <<>> /\ 1 \in DOMAIN events
         /\ Head(events) = events[1] /\ events[1].ch = c /\ events[1].live = live
         /\ events[1].due <= 0
<1>1. events \in Seq(Event)
  BY DEF List
<1>2. QED
  BY <1>1 DEF IsNext

LEMMA TimerStep ==
  ASSUME Registers, List(events), NEW c \in Channel, TimerCallback(c)
  PROVE  timer_value[c] \in Nat /\ Renewed(events', events, c, timer_value[c])
<1>1. timer_value[c] \in Nat
  BY WordSize DEF Registers
<1>2. events # <<>> /\ Head(events).ch = c /\ Head(events).live
  BY NextIsHead DEF TimerCallback
<1>3. QED
  BY <1>1, <1>2, TailRenewal DEF TimerCallback

LEMMA CounterStep ==
  ASSUME Registers, List(events), NEW c \in Channel, CounterCallback(c)
  PROVE  /\ timer_value[c] \in Nat
         /\ clk[c] = 0 => List(events') /\ Within(events', events) /\ Quiet(events', c)
         /\ clk[c] # 0 => Renewed(events', events, c, clk[c] * timer_value[c])
<1>1. timer_value[c] \in Nat /\ clk[c] * timer_value[c] \in Int
  BY WordSize, ClockTypes DEF Registers
<1>2. events # <<>> /\ Head(events).ch = c /\ Head(events).live
  BY NextIsHead DEF CounterCallback
<1>3. List(Tail(events)) /\ Within(Tail(events), events) /\ Quiet(Tail(events), c)
  BY <1>2, TailEvents
<1> DEFINE r == Invalidated(Tail(events), c)
<1>4. List(r) /\ Quiet(r, c) /\ Within(r, events)
  <2>1. List(r) /\ Quiet(r, c) /\ Within(r, Tail(events))
    BY <1>3, InvalidatedEvents
  <2> HIDE DEF r
  <2>2. QED
    BY <1>3, <2>1 DEF Within
<1>5. events' = IF clk[c] = 0 THEN Tail(events) ELSE Added(r, c, clk[c] * timer_value[c])
  BY DEF CounterCallback, CounterMode
<1> HIDE DEF r
<1>6. clk[c] # 0 => Renewed(events', events, c, clk[c] * timer_value[c])
  BY <1>1, <1>4, <1>5, QuietRenewal
<1>7. QED
  BY <1>1, <1>3, <1>5, <1>6

-----------------------------------------------------------------------------
LEMMA LoadSafe ==
  ASSUME Safe, NEW c \in Channel, NEW v \in Values, Load(c, v)
  PROVE  List(events') /\ Silent'
<1>1. /\ mode[c] \in {"timer", "counter"} /\ loaded \in [Channel -> {"none", "timer", "counter"}]
      /\ reset \in [Channel -> BOOLEAN]
  BY DEF Safe, Registers
<1>2. loaded'[c] # "none" /\ \A d \in Channel : d # c => loaded'[d] = loaded[d]
  BY <1>1 DEF Load
<1>3. ~reset'[c] /\ \A d \in Channel : d # c => reset'[d] = reset[d]
  BY <1>1 DEF Load
<1>4. \/ events' = events
      \/ \E o : Renewed(events', events, c, o)
  BY <1>1, LoadStep DEF Safe
<1>5. List(events')
  BY <1>4 DEF Safe, Renewed
<1>6. ASSUME NEW d \in Channel, loaded'[d] = "none" \/ reset'[d]
      PROVE  Quiet(events', d)
  <2>1. d # c /\ Quiet(events, d)
    BY <1>2, <1>3, <1>6 DEF Safe, Silent
  <2>2. QED
    BY <1>4, <2>1, RenewedQuiet
<1>7. QED
  BY <1>5, <1>6 DEF Silent

LEMMA ControlWordSafe ==
  ASSUME Safe, NEW c \in Channel, NEW m \in {"timer", "counter"}, NEW p \in {P16, P256},
         NEW const \in BOOLEAN, NEW r \in BOOLEAN, ControlWord(c, m, p, const, r)
  PROVE  List(events') /\ Silent'
<1>1. loaded \in [Channel -> {"none", "timer", "counter"}] /\ reset \in [Channel -> BOOLEAN]
  BY DEF Safe, Registers
<1>2. \A d \in Channel : loaded'[d] = "none" => loaded[d] = "none" \/ (d = c /\ r)
  BY <1>1 DEF ControlWord
<1>3. \A d \in Channel : reset'[d] = IF d = c THEN r ELSE reset[d]
  BY <1>1 DEF ControlWord
<1>4. CASE r
  <2>1. events' = Invalidated(events, c)
    BY <1>4 DEF ControlWord, ControlEvents
  <2>2. List(events') /\ Quiet(events', c) /\ Within(events', events)
    BY <2>1, InvalidatedEvents DEF Safe
  <2>3. ASSUME NEW d \in Channel, d # c, loaded'[d] = "none" \/ reset'[d]
        PROVE  Quiet(events', d)
    <3>1. loaded[d] = "none" \/ reset[d]
      BY <1>2, <1>3, <2>3
    <3>2. QED
      BY <2>2, <3>1, WithinQuiet DEF Safe, Silent
  <2>4. QED
    BY <2>2, <2>3 DEF Silent
<1>5. CASE ~r
  <2>1. events' = events
    BY <1>5 DEF ControlWord, ControlEvents
  <2>2. \A d \in Channel : loaded'[d] = "none" \/ reset'[d] => loaded[d] = "none" \/ reset[d]
    BY <1>2, <1>3, <1>5
  <2>3. QED
    BY <2>1, <2>2 DEF Safe, Silent
<1>6. QED
  BY <1>4, <1>5

LEMMA InstructionSafe ==
  ASSUME Safe, NEW t \in Ticks, Instruction(t)
  PROVE  List(events') /\ Silent'
<1>1. t \in Int
  BY TimeAssumption
<1>2. events' = Passed(events, t)
  BY DEF Instruction
<1>3. /\ List(events') /\ DOMAIN events' = DOMAIN events
      /\ \A i \in DOMAIN events :
           events'[i].ch = events[i].ch /\ events'[i].live = events[i].live
  BY <1>1, <1>2, PassedEvents DEF Safe
<1>4. loaded' = loaded /\ reset' = reset
  BY DEF Instruction, control
<1>5. QED
  BY <1>3, <1>4 DEF Safe, Silent, Quiet

LEMMA CallbackSafe ==
  ASSUME Safe, NEW c \in Channel, Callback(c)
  PROVE  List(events') /\ Silent'
<1>1. loaded' = loaded /\ reset' = reset
  BY DEF Callback, StaleCallback, TimerCallback, CounterCallback, control, history
<1>2. List(events) /\ Registers
  BY DEF Safe
<1>3. CASE StaleCallback(c)
  <2>1. List(events') /\ Within(events', events)
    BY <1>2, <1>3, TailEvents DEF StaleCallback, IsNext
  <2>2. QED
    BY <1>1, <2>1, WithinQuiet DEF Safe, Silent
<1>4. CASE TimerCallback(c) \/ CounterCallback(c)
  <2>1. \/ List(events') /\ Within(events', events)
        \/ \E o : Renewed(events', events, c, o)
    BY <1>2, <1>4, TimerStep, CounterStep
  <2>2. List(events')
    BY <2>1 DEF Renewed
  <2>3. ~Quiet(events, c)
    BY <1>2, <1>4, NextIsHead DEF TimerCallback, CounterCallback, Quiet
  <2>4. ASSUME NEW d \in Channel, Quiet(events, d) PROVE Quiet(events', d)
    BY <2>1, <2>3, <2>4, WithinQuiet, RenewedQuiet
  <2>5. QED
    BY <1>1, <2>2, <2>4 DEF Safe, Silent
<1>5. QED
  BY <1>3, <1>4 DEF Callback

LEMMA SafeStep ==
  ASSUME Safe, [Next]_vars
  PROVE  Safe'
<1> SUFFICES List(events') /\ Silent'
  BY RegistersStep DEF Safe
<1>1. ASSUME NEW c \in Channel, Writes(c) PROVE List(events') /\ Silent'
  BY <1>1, LoadSafe, ControlWordSafe DEF Writes
<1>2. ASSUME UNCHANGED <<events, loaded, reset>> PROVE List(events') /\ Silent'
  BY <1>2 DEF Safe, Silent
<1>3. CASE Done \/ (\E c \in Channel : ClockTrigger(c)) \/ UNCHANGED vars
  <2>1. UNCHANGED <<events, loaded, reset>>
    BY <1>3 DEF Done, ClockTrigger, vars, control, history
  <2>2. QED
    BY <1>2, <2>1
<1>4. CASE Reset
  <2>1. List(<<>>) /\ \A d : Quiet(<<>>, d)
    BY DEF List, Sorted, Single, Quiet
  <2>2. QED
    <3>1. events' = <<>>
      BY <1>4 DEF Reset
    <3>2. QED
      BY <2>1, <3>1 DEF Silent
<1>5. QED
  BY <1>1, <1>3, <1>4, InstructionSafe, CallbackSafe DEF Next, Loop, Safe

LEMMA InitSafe == Init => Safe
<1> SUFFICES ASSUME Init PROVE Safe
  OBVIOUS
<1>1. Registers
  BY WordSize DEF Init, Registers
<1>2. List(events) /\ Silent
  BY DEF Init, List, Sorted, Single, Silent, Quiet
<1>3. QED
  BY <1>1, <1>2 DEF Safe

\* No two of its elements, and a set has one element at most.
LEMMA AtMostOne ==
  ASSUME NEW S, \A x, y \in S : x = y
  PROVE  Cardinality(S) <= 1
<1>1. CASE S = {}
  BY <1>1, FS_EmptySet
<1>2. CASE S # {}
  <2>1. PICK x \in S : S = {x}
    BY <1>2
  <2>2. Cardinality({x}) = 1
    BY FS_Singleton
  <2>3. QED
    BY <2>1, <2>2
<1>3. QED
  BY <1>1, <1>2

LEMMA SafeImplies == Safe => EventsInOrder
<1> SUFFICES ASSUME Safe PROVE EventsInOrder
  OBVIOUS
<1>1. TypeOK
  BY DEF Safe, Registers, List, Sorted, Event, TypeOK
<1>2. OneLiveEvent
  <2> SUFFICES ASSUME NEW c \in Channel PROVE Cardinality(Live(c)) <= 1
    BY DEF OneLiveEvent
  <2>1. \A x, y \in Live(c) : x = y
    BY DEF Safe, List, Single, Live
  <2>2. QED
    BY <2>1, AtMostOne
<1>3. SilentInReset
  BY DEF Safe, Silent, Quiet, Live, SilentInReset
<1>4. QED
  BY <1>1, <1>2, <1>3 DEF EventsInOrder

\* Whatever the guest writes to the channels and when: the list stays sorted, a
\* channel has one valid event at most, and none while it is in reset
\* (CTC::c_out, CTC::callback).
THEOREM ChannelsInOrder == Spec => []EventsInOrder
<1>1. Safe /\ [Next]_vars => Safe'
  BY SafeStep
<1>2. QED
  BY <1>1, InitSafe, SafeImplies, PTL DEF Spec

-----------------------------------------------------------------------------
(***************************************************************************)
(* Zero counts on time.  The invariant: the valid event of a channel in a  *)
(* period is due when the period ends; it is due in the future while the   *)
(* processor executes, and by less than an instruction ago while the       *)
(* callbacks run.                                                          *)
(***************************************************************************)

Follows(s, el, st) ==
  \A i \in DOMAIN s : s[i].live /\ st[s[i].ch] > 0 =>
    s[i].due = st[s[i].ch] - el[s[i].ch]

After(s, st, n) == \A i \in DOMAIN s : s[i].live /\ st[s[i].ch] > 0 => s[i].due > n

Times == elapsed \in [Channel -> Int] /\ started \in [Channel -> Int]

Timed ==
  /\ Times
  /\ Follows(events, elapsed, started)
  /\ phase = "cpu" => After(events, started, 0)
  /\ phase = "run" => \E t \in Ticks : After(events, started, -t)

LEMMA RenewedTimes ==
  ASSUME NEW c, NEW at, Renewed(events', events, c, at),
         \A d : d # c => elapsed'[d] = elapsed[d] /\ started'[d] = started[d],
         Follows(events, elapsed, started),
         started'[c] > 0 => at = started'[c] - elapsed'[c],
         NEW n, After(events, started, n), started'[c] > 0 => at > n
  PROVE  Follows(events', elapsed', started') /\ After(events', started', n)
<1> DEFINE e == [ch |-> c, live |-> TRUE, due |-> at]
           t == events'
<1>1. e.ch = c /\ e.due = at
  OBVIOUS
<1> HIDE DEF e
<1>2. \A i \in DOMAIN t : t[i].live =>
        t[i] = e \/ (t[i].ch # c /\ \E j \in DOMAIN events : t[i] = events[j])
  BY DEF Renewed, e
<1>3. ASSUME NEW i \in DOMAIN t, t[i].live, started'[t[i].ch] > 0, t[i] # e
      PROVE  \E j \in DOMAIN events :
               /\ t[i] = events[j] /\ events[j].live /\ started[events[j].ch] > 0
               /\ elapsed'[t[i].ch] = elapsed[t[i].ch] /\ started'[t[i].ch] = started[t[i].ch]
  <2>1. PICK j \in DOMAIN events : t[i] = events[j] /\ t[i].ch # c
    BY <1>2, <1>3, Zenon
  <2>2. events[j].live /\ events[j].ch # c
    BY <1>3, <2>1, Zenon
  <2>3. QED
    BY <1>3, <2>1, <2>2
<1>4. Follows(t, elapsed', started')
  BY <1>1, <1>3 DEF Follows
<1>5. After(t, started', n)
  BY <1>1, <1>3 DEF After
<1>6. QED
  BY <1>4, <1>5

LEMMA WithinTimes ==
  ASSUME Within(events', events),
         \A i \in DOMAIN events' : events'[i].live =>
           /\ elapsed'[events'[i].ch] = elapsed[events'[i].ch]
           /\ started'[events'[i].ch] = started[events'[i].ch],
         Follows(events, elapsed, started), NEW n, After(events, started, n)
  PROVE  Follows(events', elapsed', started') /\ After(events', started', n)
<1> DEFINE t == events'
<1>1. ASSUME NEW i \in DOMAIN t, t[i].live, started'[t[i].ch] > 0
      PROVE  \E j \in DOMAIN events :
               /\ t[i] = events[j] /\ events[j].live /\ started[events[j].ch] > 0
               /\ elapsed'[t[i].ch] = elapsed[t[i].ch] /\ started'[t[i].ch] = started[t[i].ch]
  <2>1. PICK j \in DOMAIN events : t[i] = events[j]
    BY <1>1 DEF Within
  <2>2. events[j].live
    BY <1>1, <2>1, Zenon
  <2>3. QED
    BY <1>1, <2>1, <2>2
<1>2. Follows(t, elapsed', started')
  BY <1>1 DEF Follows
<1>3. After(t, started', n)
  BY <1>1 DEF After
<1>4. QED
  BY <1>2, <1>3

LEMMA LoadTimed ==
  ASSUME Safe, Timed, NEW c \in Channel, NEW v \in Values, Load(c, v)
  PROVE  Timed'
<1> DEFINE tv == TimeConstant(mode[c], prescaler[c], v)
<1>1. /\ Registers /\ List(events) /\ mode[c] \in {"timer", "counter"}
      /\ Late \in Nat /\ phase = "cpu" /\ phase' = "cpu"
  BY TimeAssumption DEF Safe, Registers, Load, GuestWrites
<1>2. /\ tv \in Nat /\ clk[c] \in Nat /\ clk[c] * tv \in Nat
      /\ mode[c] = "timer" => Renewed(events', events, c, tv + Late)
      /\ mode[c] = "counter" /\ clk[c] # 0 => Renewed(events', events, c, clk[c] * tv)
      /\ mode[c] = "counter" /\ clk[c] = 0 => events' = events
  BY <1>1, LoadStep, ClockTypes
<1>3. /\ Times /\ Follows(events, elapsed, started) /\ After(events, started, 0)
  BY <1>1 DEF Timed
<1>4. CASE mode[c] = "counter" /\ clk[c] = 0
  <2>1. UNCHANGED <<events, elapsed, started>>
    BY <1>2, <1>4 DEF Load
  <2>2. QED
    BY <1>1, <1>3, <2>1 DEF Timed, Times
<1>5. ASSUME NEW at \in Nat, NEW el \in Int, NEW st \in Nat,
             Renewed(events', events, c, at), at = st - el, at >= st,
             elapsed' = [elapsed EXCEPT ![c] = el], started' = [started EXCEPT ![c] = st]
      PROVE  Timed'
  <2>1. /\ Times' /\ elapsed'[c] = el /\ started'[c] = st
        /\ \A d : d # c => elapsed'[d] = elapsed[d] /\ started'[d] = started[d]
    BY <1>3, <1>5 DEF Times
  <2>2. started'[c] > 0 => at = started'[c] - elapsed'[c] /\ at > 0
    BY <1>5, <2>1
  <2>3. Follows(events', elapsed', started') /\ After(events', started', 0)
    BY <1>3, <1>5, <2>1, <2>2, RenewedTimes
  <2>4. QED
    BY <1>1, <2>1, <2>3 DEF Timed
<1>6. CASE mode[c] = "timer"
  <2>1. elapsed' = [elapsed EXCEPT ![c] = -Late] /\ started' = [started EXCEPT ![c] = tv]
    BY <1>6 DEF Load, Period
  <2> HIDE DEF tv
  <2>2. tv + Late \in Nat /\ -Late \in Int /\ tv + Late = tv - (-Late) /\ tv + Late >= tv
    BY <1>1, <1>2
  <2>3. QED
    BY <1>2, <1>5, <1>6, <2>1, <2>2
<1>7. CASE mode[c] = "counter" /\ clk[c] # 0
  <2>1. elapsed' = [elapsed EXCEPT ![c] = 0] /\ started' = [started EXCEPT ![c] = clk[c] * tv]
    BY <1>7 DEF Load, Period
  <2> HIDE DEF tv
  <2>2. \A x \in Nat : x = x - 0 /\ x >= x
    OBVIOUS
  <2>3. QED
    BY ONLY <1>2, <1>5, <1>7, <2>1, <2>2, 0 \in Int
<1>8. QED
  BY <1>1, <1>4, <1>6, <1>7

LEMMA ControlWordTimed ==
  ASSUME Safe, Timed, NEW c \in Channel, NEW m, NEW p, NEW const, NEW r,
         ControlWord(c, m, p, const, r)
  PROVE  Timed'
<1>1. UNCHANGED <<elapsed, started, phase>> /\ phase = "cpu"
  BY DEF ControlWord, GuestWrites
<1>2. Within(events', events)
  <2>1. Within(events, events)
    BY DEF Within
  <2>2. QED
    BY <2>1, InvalidatedEvents DEF ControlWord, ControlEvents, Safe
<1>3. Follows(events', elapsed', started') /\ After(events', started', 0)
  BY <1>1, <1>2, WithinTimes DEF Timed
<1>4. QED
  BY <1>1, <1>3 DEF Timed, Times

LEMMA InstructionTimed ==
  ASSUME Safe, Timed, NEW t \in Ticks, Instruction(t)
  PROVE  Timed'
<1>1. t \in Int /\ phase = "cpu" /\ phase' = "run" /\ Times
  BY TimeAssumption DEF Instruction, Timed
<1>2. events' = Passed(events, t)
  BY DEF Instruction
<1>3. /\ List(events') /\ DOMAIN events' = DOMAIN events
      /\ \A i \in DOMAIN events :
           /\ events'[i].ch = events[i].ch /\ events'[i].live = events[i].live
           /\ events'[i].due = events[i].due - t /\ events[i].due \in Int
           /\ events[i].ch \in Channel
  <2>1. \A i \in DOMAIN events : events[i].ch \in Channel
    BY EventTypes DEF Safe, List
  <2>2. List(events)
    BY DEF Safe
  <2>3. /\ List(events') /\ DOMAIN events' = DOMAIN events
        /\ \A i \in DOMAIN events :
             /\ events'[i].ch = events[i].ch /\ events'[i].live = events[i].live
             /\ events'[i].due = events[i].due - t /\ events[i].due \in Int
    BY ONLY <1>1, <1>2, <2>2, PassedEvents
  <2>4. QED
    BY <2>1, <2>3
<1>4. Times'
  BY <1>1 DEF Instruction, Times
<1>5. \A i \in DOMAIN events : events[i].live =>
        /\ elapsed'[events[i].ch] = elapsed[events[i].ch] + t
        /\ started'[events[i].ch] = started[events[i].ch]
  BY <1>3 DEF Instruction, Live
<1>6. Follows(events', elapsed', started')
  <2> SUFFICES ASSUME NEW i \in DOMAIN events, events[i].live, started[events[i].ch] > 0
               PROVE  events[i].due - t = started[events[i].ch] - (elapsed[events[i].ch] + t)
    BY <1>3, <1>5 DEF Follows
  <2>1. events[i].due = started[events[i].ch] - elapsed[events[i].ch]
    BY DEF Timed, Follows
  <2>2. QED
    BY <1>1, <1>3, <2>1 DEF Times
<1>7. After(events', started', -t)
  <2> SUFFICES ASSUME NEW i \in DOMAIN events, events[i].live, started[events[i].ch] > 0
               PROVE  events[i].due - t > -t
    BY <1>3, <1>5 DEF After
  <2>1. events[i].due > 0
    BY <1>1 DEF Timed, After
  <2>2. QED
    BY <1>1, <1>3, <2>1
<1>8. QED
  BY <1>1, <1>4, <1>6, <1>7 DEF Timed

LEMMA CallbackTimed ==
  ASSUME Safe, Timed, NEW c \in Channel, Callback(c)
  PROVE  Timed'
<1>1. phase = "run" /\ phase' = "run" /\ Registers /\ List(events) /\ Times
  BY DEF Callback, StaleCallback, TimerCallback, CounterCallback, IsNext, Safe, Timed
<1>2. PICK t \in Ticks : After(events, started, -t)
  BY <1>1 DEF Timed
<1>3. t \in Nat /\ t > 0 /\ Follows(events, elapsed, started)
  BY TimeAssumption DEF Timed
<1>4. CASE StaleCallback(c)
  <2>1. Within(events', events) /\ UNCHANGED <<elapsed, started>>
    BY <1>1, <1>4, TailEvents DEF StaleCallback, IsNext, history
  <2>2. Follows(events', elapsed', started') /\ After(events', started', -t)
    BY <1>2, <1>3, <2>1, WithinTimes
  <2>3. QED
    BY <1>1, <2>1, <2>2 DEF Timed, Times
<1>5. ASSUME NEW st \in Nat, Renewed(events', events, c, st),
             elapsed' = [elapsed EXCEPT ![c] = 0], started' = [started EXCEPT ![c] = st]
      PROVE  Timed'
  <2>1. /\ Times' /\ elapsed'[c] = 0 /\ started'[c] = st
        /\ \A d : d # c => elapsed'[d] = elapsed[d] /\ started'[d] = started[d]
    BY <1>1, <1>5 DEF Times
  <2>2. st = st - 0 /\ (st > 0 => st > -t)
    BY <1>3
  <2>3. Follows(events', elapsed', started') /\ After(events', started', -t)
    BY <1>2, <1>3, <1>5, <2>1, <2>2, RenewedTimes
  <2>4. QED
    BY <1>1, <2>1, <2>3 DEF Timed
<1>6. CASE TimerCallback(c)
  BY <1>1, <1>5, <1>6, TimerStep DEF TimerCallback
<1>7. CASE CounterCallback(c)
  <2>1. /\ elapsed' = [elapsed EXCEPT ![c] = 0]
        /\ started' = [started EXCEPT ![c] = clk[c] * timer_value[c]]
    BY <1>7 DEF CounterCallback, Period
  <2>2. timer_value[c] \in Nat /\ clk[c] * timer_value[c] \in Nat
    BY <1>1, <1>7, CounterStep, ClockTypes
  <2>3. CASE clk[c] = 0
    <3>1. Within(events', events) /\ Quiet(events', c)
      BY <1>1, <1>7, <2>3, CounterStep
    <3>2. /\ Times'
          /\ \A d : d # c => elapsed'[d] = elapsed[d] /\ started'[d] = started[d]
      BY <1>1, <2>1, <2>2 DEF Times
    <3>3. \A i \in DOMAIN events' : events'[i].live => events'[i].ch # c
      BY <3>1 DEF Quiet
    <3>4. Follows(events', elapsed', started') /\ After(events', started', -t)
      BY <1>2, <1>3, <3>1, <3>2, <3>3, WithinTimes
    <3>5. QED
      BY <1>1, <3>2, <3>4 DEF Timed
  <2>4. CASE clk[c] # 0
    BY <1>1, <1>5, <1>7, <2>1, <2>2, <2>4, CounterStep
  <2>5. QED
    BY <2>3, <2>4
<1>8. QED
  BY <1>4, <1>6, <1>7 DEF Callback

LEMMA DoneTimed ==
  ASSUME Safe, Timed, Done
  PROVE  Timed'
<1>1. UNCHANGED <<events, elapsed, started>> /\ phase' = "cpu"
  BY DEF Done, history
<1>2. After(events, started, 0)
  BY DEF Done, After
<1>3. QED
  BY <1>1, <1>2 DEF Timed, Times

LEMMA ResetTimed ==
  ASSUME Timed, Reset
  PROVE  Timed'
<1>1. UNCHANGED <<elapsed, started, phase>> /\ phase = "run" /\ events' = <<>>
  BY DEF Reset
<1>2. PICK t \in Ticks : After(events, started, -t)
  BY <1>1 DEF Timed
<1>3. Follows(<<>>, elapsed, started) /\ After(<<>>, started, -t)
  BY DEF Follows, After
<1>4. QED
  BY <1>1, <1>3 DEF Timed, Times

LEMMA TimedStep ==
  ASSUME Safe, Timed, [Next]_vars
  PROVE  Timed'
<1>1. ASSUME UNCHANGED <<events, elapsed, started, phase>> PROVE Timed'
  BY <1>1 DEF Timed, Times
<1>2. CASE (\E c \in Channel : ClockTrigger(c)) \/ UNCHANGED vars
  <2>1. UNCHANGED <<events, elapsed, started, phase>>
    BY <1>2 DEF ClockTrigger, vars, history
  <2>2. QED
    BY <1>1, <2>1
<1>3. ASSUME NEW c \in Channel, Writes(c) PROVE Timed'
  BY <1>3, LoadTimed, ControlWordTimed DEF Writes
<1>4. QED
  BY <1>2, <1>3, InstructionTimed, DoneTimed, CallbackTimed, ResetTimed DEF Next, Loop

LEMMA InitTimed == Init => Timed
  BY DEF Init, Timed, Times, Follows, After

\* The end of a period is reached in the callbacks after the instruction in
\* which it lies, neither before nor later (CTC::callback, CTC::c_out).
THEOREM ZeroCountsOnTime == Spec => OnTime
<1>1. Safe /\ Timed /\ [Next]_vars => [ZeroOnTime]_vars
  <2> SUFFICES ASSUME Safe, Timed, NEW c \in Channel, TimerCallback(c), started[c] > 0
               PROVE  \E t \in Ticks : elapsed[c] \in started[c] .. (started[c] + t - 1)
    BY DEF ZeroOnTime
  <2>1. 1 \in DOMAIN events /\ events[1].ch = c /\ events[1].live /\ events[1].due <= 0
    BY NextIsHead DEF TimerCallback, Safe
  <2>2. events[1].due = started[c] - elapsed[c]
    BY <2>1 DEF Timed, Follows
  <2>3. PICK t \in Ticks : After(events, started, -t)
    BY DEF TimerCallback, IsNext, Timed
  <2>4. t \in Int /\ elapsed[c] \in Int /\ started[c] \in Int /\ events[1].due > -t
    BY <2>1, <2>3, TimeAssumption DEF After, Timed, Times
  <2>5. elapsed[c] \in started[c] .. (started[c] + t - 1)
    BY <2>1, <2>2, <2>4
  <2>6. QED
    BY <2>5
<1>2. Safe /\ Timed /\ [Next]_vars => (Safe /\ Timed)'
  BY SafeStep, TimedStep
<1>3. QED
  BY <1>1, <1>2, InitSafe, InitTimed, PTL DEF Spec, OnTime

-----------------------------------------------------------------------------
(***************************************************************************)
(* The PIO.  BanksFollow is not inductive: a port that is made an input    *)
(* keeps what it has, and compares it with the next output when it is an   *)
(* output again.  SyncedInv speaks of every mode.  And set_EXT() compares  *)
(* with the function that it computed itself, as long as nothing else has  *)
(* changed the settings or the lines: FreshInv.                            *)
(***************************************************************************)

\* Banks that were all written are those that the port has, and it has been an output.
SyncedInv == synced => /\ "A" \in Ports
                       /\ banks = pio_value["A"] /\ ~first_out["A"]

\* What was computed of the lines of a port is the function of its lines and settings.
FreshInv == \A p \in Ports : fresh[p] => ext_fn[p] = Pio!Function(p, ext[p])


\* TypeOK of the model, variable by variable.
PioTyped ==
  /\ pio_mode \in [Ports -> {"output", "input", "bidirectional", "control"}]
  /\ follows \in [Ports -> {"none", "bit_mode", "irq_mask"}]
  /\ pio_value \in [Ports -> Pio!Byte] /\ irq_mask \in [Ports -> Pio!Byte]
  /\ ext \in [Ports -> Pio!Byte]
  /\ first_out \in [Ports -> BOOLEAN] /\ irq \in [Ports -> BOOLEAN]
  /\ irq_enable \in [Ports -> BOOLEAN] /\ h_l \in [Ports -> BOOLEAN]
  /\ and_or \in [Ports -> BOOLEAN] /\ ext_fn \in [Ports -> BOOLEAN]
  /\ strobe \in [Ports -> BOOLEAN] /\ fresh \in [Ports -> BOOLEAN]
  /\ banks \in Pio!Byte /\ synced \in BOOLEAN

PioInv == PioTyped /\ SyncedInv /\ FreshInv

\* Output of a byte keeps the banks in step with the port, whatever was reported before:
\* the first one switches every bank, the next ones those that change.
LEMMA OutputKeeps ==
  ASSUME PioInv, NEW p \in Ports, NEW v \in Pio!Byte, Pio!Output(p, v)
  PROVE  /\ pio_value' \in [Ports -> Pio!Byte] /\ first_out' \in [Ports -> BOOLEAN]
         /\ irq' \in [Ports -> BOOLEAN] /\ banks' \in Pio!Byte /\ synced' \in BOOLEAN
         /\ SyncedInv'
<1>1. /\ pio_value \in [Ports -> Pio!Byte] /\ first_out \in [Ports -> BOOLEAN]
      /\ irq \in [Ports -> BOOLEAN] /\ banks \in Pio!Byte /\ synced \in BOOLEAN /\ SyncedInv
  BY DEF PioInv, PioTyped
<1>2. banks' \in Pio!Byte
  BY <1>1 DEF Pio!Output, Pio!Byte
<1>3. /\ pio_value' \in [Ports -> Pio!Byte] /\ first_out' \in [Ports -> BOOLEAN]
      /\ irq' \in [Ports -> BOOLEAN] /\ synced' \in BOOLEAN
  BY <1>1 DEF Pio!Output
<1>4. ASSUME synced'
      PROVE  SyncedInv'
  <2>1. CASE p # "A"
    BY <1>1, <1>4, <2>1 DEF SyncedInv, Pio!Output
  <2>2. CASE p = "A" /\ first_out["A"]
    <3>1. Pio!Changed(p, v) = Bits
      BY <2>2 DEF Pio!Changed, Pio!Former, Pio!Byte
    <3>2. banks' = v
      BY <1>1, <2>2, <3>1 DEF Pio!Output, Pio!Byte
    <3>. QED
      BY <1>1, <2>2, <3>2 DEF Pio!Output, SyncedInv
  <2>3. CASE p = "A" /\ ~first_out["A"]
    <3>1. banks = pio_value["A"] /\ pio_value["A"] \in Pio!Byte
      BY <1>1, <1>4, <2>3 DEF Pio!Output, SyncedInv
    <3>2. Pio!Changed(p, v) = {b \in Bits : (b \in v) # (b \in banks)}
      BY <2>3, <3>1 DEF Pio!Changed, Pio!Former
    <3>3. banks' = (banks \ Pio!Changed(p, v)) \cup (v \cap Pio!Changed(p, v))
      BY <2>3 DEF Pio!Output
    <3>4. banks' = v
      BY <3>1, <3>2, <3>3 DEF Pio!Byte
    <3>. QED
      BY <1>1, <2>3, <3>4 DEF Pio!Output, SyncedInv
  <2>. QED
    BY <2>1, <2>2, <2>3
<1>. QED
  BY <1>2, <1>3, <1>4 DEF SyncedInv

LEMMA PioInvKept ==
  ASSUME PioInv, [Pio!Next]_pio
  PROVE  PioInv'
<1>0. /\ Data \subseteq Pio!Byte /\ Masks \subseteq Pio!Byte /\ Lines \subseteq Pio!Byte
      /\ Levels \subseteq Pio!Byte /\ Bits \in Pio!Byte /\ {} \in Pio!Byte
  BY PioAssumption DEF Pio!PIOAssumption, Pio!Byte
<1>1. ASSUME UNCHANGED <<pio_value, first_out, banks, synced>>
      PROVE  SyncedInv'
  BY <1>1 DEF PioInv, SyncedInv
<1>2. ASSUME UNCHANGED <<ext, ext_fn, fresh, irq_mask, h_l, and_or>>
      PROVE  FreshInv'
  BY <1>2 DEF PioInv, FreshInv, Pio!Function
\* A port whose settings change is no longer fresh; the others stay as they are.
<1>3. ASSUME NEW p \in Ports, fresh' = [fresh EXCEPT ![p] = FALSE],
             \A q \in Ports \ {p} : /\ ext'[q] = ext[q] /\ ext_fn'[q] = ext_fn[q]
                                    /\ irq_mask'[q] = irq_mask[q] /\ h_l'[q] = h_l[q]
                                    /\ and_or'[q] = and_or[q]
      PROVE  FreshInv'
  BY <1>3 DEF PioInv, PioTyped, FreshInv, Pio!Function
<1>4. ASSUME NEW p \in Ports, Pio!Guest(p)
      PROVE  PioInv'
  <2>1. ASSUME NEW v \in Data, Pio!OutData(p, v)
        PROVE  PioInv'
    <3>0. FreshInv'
      BY <1>2, <2>1 DEF Pio!OutData, Pio!logic, Pio!lines
    <3>1. CASE pio_mode[p] = "input"
      <4>1. PioTyped'
        BY <1>0, <2>1, <3>1 DEF PioInv, PioTyped, Pio!OutData, Pio!control, Pio!enable,
           Pio!logic, Pio!lines
      <4>2. SyncedInv'
        BY <2>1, <3>1 DEF PioInv, PioTyped, SyncedInv, Pio!OutData
      <4>. QED
        BY <3>0, <4>1, <4>2 DEF PioInv
    <3>2. CASE pio_mode[p] # "input"
      <4>1. Pio!Output(p, v) /\ v \in Pio!Byte
        BY <1>0, <2>1, <3>2 DEF Pio!OutData
      <4>2. PioTyped'
        BY <2>1, <4>1, OutputKeeps DEF PioInv, PioTyped, Pio!OutData, Pio!control, Pio!enable,
           Pio!logic, Pio!lines
      <4>. QED
        BY <3>0, <4>1, <4>2, OutputKeeps DEF PioInv
    <3>. QED
      BY <3>1, <3>2
  <2>2. CASE Pio!BitMode(p)
    <3>1. PioTyped'
      BY <2>2 DEF PioInv, PioTyped, Pio!BitMode, Pio!output, Pio!enable, Pio!logic, Pio!lines
    <3>. QED
      BY <1>1, <1>2, <2>2, <3>1 DEF PioInv, Pio!BitMode, Pio!output, Pio!logic, Pio!lines
  <2>3. ASSUME NEW v \in Masks, Pio!IrqMask(p, v)
        PROVE  PioInv'
    <3>1. PioTyped'
      BY <1>0, <2>3 DEF PioInv, PioTyped, Pio!IrqMask, Pio!output, Pio!enable, Pio!Byte
    <3>2. FreshInv'
      BY <1>3, <2>3 DEF PioInv, PioTyped, Pio!IrqMask
    <3>. QED
      BY <1>1, <2>3, <3>1, <3>2 DEF PioInv, Pio!IrqMask, Pio!output
  <2>4. ASSUME NEW e \in BOOLEAN, Pio!IrqEnable(p, e)
        PROVE  PioInv'
    <3>1. PioTyped'
      BY <2>4 DEF PioInv, PioTyped, Pio!IrqEnable, Pio!SetEnable, Pio!control, Pio!logic, Pio!lines
    <3>. QED
      BY <1>1, <1>2, <2>4, <3>1 DEF PioInv, Pio!IrqEnable, Pio!logic, Pio!lines
  <2>5. ASSUME NEW e \in BOOLEAN, NEW all \in BOOLEAN, NEW high \in BOOLEAN,
               NEW mask \in BOOLEAN, Pio!IrqControl(p, e, all, high, mask)
        PROVE  PioInv'
    <3>1. PioTyped'
      BY <2>5 DEF PioInv, PioTyped, Pio!IrqControl, Pio!SetEnable
    <3>2. FreshInv'
      BY <1>3, <2>5 DEF PioInv, PioTyped, Pio!IrqControl
    <3>. QED
      BY <1>1, <2>5, <3>1, <3>2 DEF PioInv, Pio!IrqControl
  <2>6. ASSUME NEW m \in {"output", "input", "bidirectional", "control"}, Pio!ModeControl(p, m)
        PROVE  PioInv'
    <3>0. FreshInv'
      BY <1>2, <2>6 DEF Pio!ModeControl, Pio!logic, Pio!lines
    <3>1. CASE pio_mode[p] = "input" /\ m # "input"
      <4>1. Pio!Output(p, pio_value[p]) /\ pio_value[p] \in Pio!Byte
        BY <2>6, <3>1 DEF Pio!ModeControl, PioInv, PioTyped
      <4>2. PioTyped'
        BY <2>6, <4>1, OutputKeeps DEF PioInv, PioTyped, Pio!ModeControl, Pio!enable,
           Pio!logic, Pio!lines
      <4>. QED
        BY <3>0, <4>1, <4>2, OutputKeeps DEF PioInv
    <3>2. CASE ~(pio_mode[p] = "input" /\ m # "input")
      <4>1. PioTyped'
        BY <2>6, <3>2 DEF PioInv, PioTyped, Pio!ModeControl, Pio!output, Pio!enable,
           Pio!logic, Pio!lines
      <4>. QED
        BY <1>1, <2>6, <3>0, <3>2, <4>1 DEF PioInv, Pio!ModeControl, Pio!output
    <3>. QED
      BY <3>1, <3>2
  <2>7. ASSUME NEW v \in Levels, Pio!InData(p, v)
        PROVE  PioInv'
    <3>1. PioTyped'
      BY <1>0, <2>7 DEF PioInv, PioTyped, Pio!InData, Pio!output, Pio!control, Pio!enable, Pio!logic
    <3>2. FreshInv'
      BY <1>3, <2>7 DEF PioInv, PioTyped, Pio!InData, Pio!logic
    <3>. QED
      BY <1>1, <2>7, <3>1, <3>2 DEF PioInv, Pio!InData, Pio!output
  <2>. QED
    BY <1>4, <2>1, <2>2, <2>3, <2>4, <2>5, <2>6, <2>7 DEF Pio!Guest
<1>5. ASSUME NEW p \in Ports, NEW l \in Lines, NEW v \in Levels, Pio!SetExt(p, l, v)
      PROVE  PioInv'
  <2>1. /\ Pio!SetLines(p, l, v) \in Pio!Byte /\ Pio!Function(p, Pio!SetLines(p, l, v)) \in BOOLEAN
        /\ Pio!Triggers(p, l, v) \in BOOLEAN
    <3>1. Pio!SetLines(p, l, v) \in Pio!Byte
      BY <1>0 DEF PioInv, PioTyped, Pio!SetLines, Pio!Byte
    <3>. QED
      BY <3>1 DEF PioInv, PioTyped, Pio!Function, Pio!Triggers
  <2>2. PioTyped'
    BY <1>5, <2>1 DEF PioInv, PioTyped, Pio!SetExt, Pio!output, Pio!control, Pio!enable, Pio!logic
  <2>3. FreshInv'
    BY <1>5 DEF PioInv, PioTyped, FreshInv, Pio!SetExt, Pio!Function, Pio!logic
  <2>. QED
    BY <1>1, <1>5, <2>2, <2>3 DEF PioInv, Pio!SetExt, Pio!output
<1>6. ASSUME NEW p \in Ports, Pio!StrobePin(p) \/ Pio!IrqAck(p)
      PROVE  PioInv'
  <2>1. PioTyped'
    BY <1>6 DEF PioInv, PioTyped, Pio!StrobePin, Pio!IrqAck, Pio!output, Pio!control,
       Pio!enable, Pio!logic
  <2>. QED
    BY <1>1, <1>2, <1>6, <2>1 DEF PioInv, Pio!StrobePin, Pio!IrqAck, Pio!output, Pio!logic
<1>7. CASE Pio!Reset
  <2>1. PioTyped'
    BY <1>0, <1>7 DEF PioInv, PioTyped, Pio!Reset
  <2>2. SyncedInv'
    BY <1>7 DEF Pio!Reset, SyncedInv
  <2>3. FreshInv'
    BY <1>7 DEF Pio!Reset, FreshInv, Pio!Function
  <2>. QED
    BY <2>1, <2>2, <2>3 DEF PioInv
<1>8. CASE UNCHANGED pio
  <2>1. PioTyped'
    BY <1>8 DEF PioInv, PioTyped, pio
  <2>. QED
    BY <1>1, <1>2, <1>8, <2>1 DEF PioInv, pio
<1>. QED
  BY <1>4, <1>5, <1>6, <1>7, <1>8 DEF Pio!Next, Pio!Outside

LEMMA PioInvStart ==
  ASSUME Pio!Init
  PROVE  PioInv
<1>0. Bits \in Pio!Byte /\ {} \in Pio!Byte
  BY DEF Pio!Byte
<1>1. PioTyped
  BY <1>0 DEF Pio!Init, PioTyped
<1>2. SyncedInv /\ FreshInv
  BY DEF Pio!Init, SyncedInv, FreshInv, Pio!Function
<1>. QED
  BY <1>1, <1>2 DEF PioInv

LEMMA PioEdge ==
  ASSUME PioInv
  PROVE  Pio!TriggersOnEdge
<1>. SUFFICES ASSUME NEW p \in Ports, NEW l \in Lines, NEW v \in Levels,
                     Pio!SetExt(p, l, v), Pio!Triggers(p, l, v), fresh[p]
              PROVE  \E b \in irq_mask[p] : /\ (b \in ext[p]) # (b \in ext'[p])
                                            /\ (b \in ext'[p]) = h_l[p]
  BY DEF Pio!TriggersOnEdge
<1>1. PICK x : x = Pio!SetLines(p, l, v)
  OBVIOUS
<1>2. Pio!Function(p, x) /\ ~Pio!Function(p, ext[p])
  BY <1>1 DEF Pio!Triggers, PioInv, FreshInv
<1>3. ext'[p] = x
  BY <1>1 DEF Pio!SetExt, PioInv, PioTyped
<1>4. h_l[p] \in BOOLEAN /\ and_or[p] \in BOOLEAN
  BY DEF PioInv, PioTyped
<1>5. CASE and_or[p] /\ h_l[p]
  BY <1>2, <1>3, <1>5 DEF Pio!Function
<1>6. CASE and_or[p] /\ ~h_l[p]
  <2>1. irq_mask[p] \cap x = {} /\ irq_mask[p] \cap ext[p] # {}
    BY <1>2, <1>6 DEF Pio!Function
  <2>2. PICK b \in irq_mask[p] : b \in ext[p] /\ b \notin x
    BY <2>1
  <2>. QED
    BY <1>3, <1>4, <1>6, <2>2
<1>7. CASE ~and_or[p] /\ h_l[p]
  <2>1. irq_mask[p] \cap x # {} /\ irq_mask[p] \cap ext[p] = {}
    BY <1>2, <1>7 DEF Pio!Function
  <2>2. PICK b \in irq_mask[p] : b \notin ext[p] /\ b \in x
    BY <2>1
  <2>. QED
    BY <1>3, <1>4, <1>7, <2>2
<1>8. CASE ~and_or[p] /\ ~h_l[p]
  <2>1. ~(irq_mask[p] \subseteq x) /\ irq_mask[p] \subseteq ext[p]
    BY <1>2, <1>8 DEF Pio!Function
  <2>2. PICK b \in irq_mask[p] : b \in ext[p] /\ b \notin x
    BY <2>1
  <2>. QED
    BY <1>3, <1>4, <1>8, <2>2
<1>. QED
  BY <1>4, <1>5, <1>6, <1>7, <1>8

LEMMA PioAlways == ChipsSpec => []PioInv
<1>1. ChipsInit => PioInv
  BY PioInvStart DEF ChipsInit
<1>2. PioInv /\ [ChipsNext]_chips => PioInv'
  <2>1. [ChipsNext]_chips => [Pio!Next]_pio
    BY DEF ChipsNext, chips
  <2>. QED
    BY <2>1, PioInvKept
<1>. QED
  BY <1>1, <1>2, PTL DEF ChipsSpec

\* PIO3 switches every bank as the port says, for all programs, once it has written all
\* of them: pio.cc tells it only what changed, and leaves a port that is an input, and
\* becomes an output again, to compare with the byte it kept.
THEOREM BanksFollowPort == ChipsSpec => []BanksFollow
<1>1. PioInv => BanksFollow
  <2>1. PioTyped => Pio!TypeOK
    BY DEF PioTyped, Pio!TypeOK
  <2>2. SyncedInv => Pio!BanksFollow
    BY DEF SyncedInv, Pio!BanksFollow
  <2>. QED
    BY <2>1, <2>2 DEF PioInv, BanksFollow
<1>. QED
  BY <1>1, PioAlways, PTL

\* A change of the lines asks for an interrupt only because a monitored line became active,
\* whatever settings, reads and resets came in between: pio.cc's set_EXT compares with the
\* function it computed the last time.
THEOREM LinesTrigger == ChipsSpec => EdgeTriggers
<1>1. PioInv => [part = "pio" => Pio!TriggersOnEdge]_chips
  BY PioEdge
<1>. QED
  BY <1>1, PioAlways, PTL DEF EdgeTriggers
=============================================================================
