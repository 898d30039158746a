---------------------------- MODULE SlotsProofs ----------------------------
(***************************************************************************)
(* Proofs about what a module in a slot adds to a machine.                 *)
(*                                                                         *)
(* Memory: the list of a page has the groups that belong there, each once  *)
(* and sorted by rank; which groups are active and which are read-only     *)
(* follows from what every switch was last set to and from the control     *)
(* bytes of the modules; so do the fields of Memory4; and the pointers     *)
(* have been computed from that.                                           *)
(*                                                                         *)
(* Ports: the list of a port holds the objects of the modules that answer  *)
(* to it, each once and with the priority 0, and behind them what the      *)
(* machine itself has there; the pointer is to the first of them; and the  *)
(* modules in the slots are different objects that are alive.              *)
(***************************************************************************)
EXTENDS MCSlots, FiniteSetTheorems, SequenceTheorems, WellFoundedInduction, TLAPS

-----------------------------------------------------------------------------
(***************************************************************************)
(* Sequences into which one element is put, and out of which one is taken. *)
(***************************************************************************)

\* A piece of a sequence, and two sequences one behind the other.
LEMMA Piece ==
  ASSUME NEW S, NEW s \in Seq(S), NEW m \in Nat, NEW n \in Nat,
         1 <= m, m <= n + 1, n <= Len(s)
  PROVE  /\ SubSeq(s, m, n) \in Seq(S) /\ Len(SubSeq(s, m, n)) = n - m + 1
         /\ \A k \in 1 .. n - m + 1 : SubSeq(s, m, n)[k] = s[m + k - 1]
<1>1. \A k \in m .. n : s[k] \in S
  <2>. SUFFICES ASSUME NEW k \in m .. n PROVE s[k] \in S
    OBVIOUS
  <2>1. k \in 1 .. Len(s)
    OBVIOUS
  <2>. QED
    BY <2>1, ElementOfSeq
<1>. QED
  BY <1>1, SubSeqProperties

\* The element g is put behind the first n; the element n is taken out.
PutIn(t, S, l, n, g) ==
  /\ t \in Seq(S) /\ Len(t) = Len(l) + 1
  /\ \A k \in 1 .. n : t[k] = l[k]
  /\ t[n + 1] = g
  /\ \A k \in n + 1 .. Len(l) : t[k + 1] = l[k]
TakenOut(t, S, l, n) ==
  /\ t \in Seq(S) /\ Len(t) = Len(l) - 1
  /\ \A k \in 1 .. n - 1 : t[k] = l[k]
  /\ \A k \in n + 1 .. Len(l) : t[k - 1] = l[k]

LEMMA Put ==
  ASSUME NEW S, NEW l \in Seq(S), NEW n \in 0 .. Len(l), NEW g \in S
  PROVE  PutIn(SubSeq(l, 1, n) \o <<g>> \o SubSeq(l, n + 1, Len(l)), S, l, n, g)
<1>. DEFINE t == SubSeq(l, 1, n) \o <<g>> \o SubSeq(l, n + 1, Len(l))
            a == SubSeq(l, 1, n)
            b == SubSeq(l, n + 1, Len(l))
            c == a \o <<g>>
<1>1. Len(l) \in Nat /\ n \in Nat /\ n + 1 \in Nat /\ 1 \in Nat
  BY LenProperties
<1>2. /\ a \in Seq(S) /\ Len(a) = n
      /\ \A k \in 1 .. n : a[k] = l[k]
  <2>1. /\ a \in Seq(S) /\ Len(a) = n - 1 + 1
        /\ \A k \in 1 .. n - 1 + 1 : a[k] = l[1 + k - 1]
    BY <1>1, Piece
  <2>2. n - 1 + 1 = n /\ \A k \in 1 .. n : 1 + k - 1 = k
    BY <1>1
  <2>. HIDE DEF a
  <2>. QED
    BY <2>1, <2>2
<1>3. /\ b \in Seq(S) /\ Len(b) = Len(l) - n
      /\ \A k \in 1 .. Len(l) - n : b[k] = l[n + k]
  <2>1. /\ b \in Seq(S) /\ Len(b) = Len(l) - (n + 1) + 1
        /\ \A k \in 1 .. Len(l) - (n + 1) + 1 : b[k] = l[n + 1 + k - 1]
    BY <1>1, Piece
  <2>2. Len(l) - (n + 1) + 1 = Len(l) - n /\ \A k \in 1 .. Len(l) - n : n + 1 + k - 1 = n + k
    BY <1>1
  <2>. HIDE DEF b
  <2>. QED
    BY <2>1, <2>2
<1>4. t = c \o b
  OBVIOUS
<1>. HIDE DEF t, a, b
<1>5. /\ c \in Seq(S) /\ Len(c) = n + 1 /\ c[n + 1] = g
      /\ \A k \in 1 .. n : c[k] = a[k]
  <2>1. Append(a, g) = c
    BY <1>2, AppendIsConcat
  <2>. QED
    BY <1>2, <2>1, AppendProperties
<1>. HIDE DEF c
<1>6. /\ t \in Seq(S) /\ Len(t) = Len(l) + 1
      /\ \A k \in 1 .. Len(l) + 1 : t[k] = IF k <= n + 1 THEN c[k] ELSE b[k - (n + 1)]
  <2>1. /\ c \o b \in Seq(S) /\ Len(c \o b) = Len(c) + Len(b)
        /\ \A k \in 1 .. Len(c) + Len(b) :
             (c \o b)[k] = IF k <= Len(c) THEN c[k] ELSE b[k - Len(c)]
    BY <1>3, <1>5, ConcatProperties
  <2>2. Len(c) + Len(b) = Len(l) + 1
    BY <1>1, <1>3, <1>5
  <2>3. Len(c) = n + 1
    BY <1>5
  <2>. QED
    BY <1>4, <2>1, <2>2, <2>3, Zenon
<1>7. 1 .. n + 1 \subseteq 1 .. Len(l) + 1 /\ \A k \in 1 .. n + 1 : k <= n + 1
  BY <1>1
<1>8. \A k \in 1 .. n + 1 : t[k] = c[k]
  BY <1>6, <1>7
<1>9. ASSUME NEW k \in n + 1 .. Len(l)
      PROVE  t[k + 1] = l[k]
  <2>1. /\ k - n \in 1 .. Len(l) - n /\ n + (k - n) = k /\ k + 1 - (n + 1) = k - n
        /\ k + 1 \in 1 .. Len(l) + 1 /\ ~(k + 1 <= n + 1)
    BY <1>1
  <2>. DEFINE j == k + 1
  <2>2. j \in 1 .. Len(l) + 1 /\ ~(j <= n + 1) /\ j - (n + 1) = k - n
    BY <2>1
  <2>. HIDE DEF j
  <2>3. t[j] = b[k - n]
    BY <1>6, <2>2
  <2>4. b[k - n] = l[k]
    BY <1>3, <2>1
  <2>. QED
    BY <2>3, <2>4 DEF j
<1>10. \A k \in 1 .. n : t[k] = l[k]
  <2>1. 1 .. n \subseteq 1 .. n + 1
    BY <1>1
  <2>. QED
    BY <1>2, <1>5, <1>8, <2>1
<1>11. t[n + 1] = g
  BY <1>1, <1>5, <1>8
<1>. QED
  BY <1>6, <1>9, <1>10, <1>11 DEF PutIn, t

LEMMA Take ==
  ASSUME NEW S, NEW l \in Seq(S), NEW n \in 1 .. Len(l)
  PROVE  TakenOut(SubSeq(l, 1, n - 1) \o SubSeq(l, n + 1, Len(l)), S, l, n)
<1>. DEFINE t == SubSeq(l, 1, n - 1) \o SubSeq(l, n + 1, Len(l))
            a == SubSeq(l, 1, n - 1)
            b == SubSeq(l, n + 1, Len(l))
<1>1. Len(l) \in Nat /\ n \in Nat /\ n + 1 \in Nat /\ 1 \in Nat /\ n - 1 \in Nat
  BY LenProperties
<1>2. /\ a \in Seq(S) /\ Len(a) = n - 1
      /\ \A k \in 1 .. n - 1 : a[k] = l[k]
  <2>1. /\ a \in Seq(S) /\ Len(a) = n - 1 - 1 + 1
        /\ \A k \in 1 .. n - 1 - 1 + 1 : a[k] = l[1 + k - 1]
    BY <1>1, Piece
  <2>2. n - 1 - 1 + 1 = n - 1 /\ \A k \in 1 .. n - 1 : 1 + k - 1 = k
    BY <1>1
  <2>. HIDE DEF a
  <2>. QED
    BY <2>1, <2>2
<1>3. /\ b \in Seq(S) /\ Len(b) = Len(l) - n
      /\ \A k \in 1 .. Len(l) - n : b[k] = l[n + k]
  <2>1. /\ b \in Seq(S) /\ Len(b) = Len(l) - (n + 1) + 1
        /\ \A k \in 1 .. Len(l) - (n + 1) + 1 : b[k] = l[n + 1 + k - 1]
    BY <1>1, Piece
  <2>2. Len(l) - (n + 1) + 1 = Len(l) - n /\ \A k \in 1 .. Len(l) - n : n + 1 + k - 1 = n + k
    BY <1>1
  <2>. HIDE DEF b
  <2>. QED
    BY <2>1, <2>2
<1>4. t = a \o b
  OBVIOUS
<1>. HIDE DEF t, a, b
<1>5. /\ t \in Seq(S) /\ Len(t) = Len(l) - 1
      /\ \A k \in 1 .. Len(l) - 1 : t[k] = IF k <= n - 1 THEN a[k] ELSE b[k - (n - 1)]
  <2>1. /\ a \o b \in Seq(S) /\ Len(a \o b) = Len(a) + Len(b)
        /\ \A k \in 1 .. Len(a) + Len(b) :
             (a \o b)[k] = IF k <= Len(a) THEN a[k] ELSE b[k - Len(a)]
    BY <1>2, <1>3, ConcatProperties
  <2>2. Len(a) + Len(b) = Len(l) - 1
    BY <1>1, <1>2, <1>3
  <2>3. Len(a) = n - 1
    BY <1>2
  <2>. QED
    BY <1>4, <2>1, <2>2, <2>3, Zenon
<1>6. 1 .. n - 1 \subseteq 1 .. Len(l) - 1 /\ \A k \in 1 .. n - 1 : k <= n - 1
  BY <1>1
<1>7. \A k \in 1 .. n - 1 : t[k] = l[k]
  BY <1>2, <1>5, <1>6
<1>8. ASSUME NEW k \in n + 1 .. Len(l)
      PROVE  t[k - 1] = l[k]
  <2>1. /\ k - n \in 1 .. Len(l) - n /\ n + (k - n) = k /\ k - 1 - (n - 1) = k - n
        /\ k - 1 \in 1 .. Len(l) - 1 /\ ~(k - 1 <= n - 1)
    BY <1>1
  <2>2. t[k - 1] = b[k - n]
    BY <1>5, <2>1
  <2>. QED
    BY <1>3, <2>1, <2>2
<1>. QED
  BY <1>5, <1>7, <1>8 DEF TakenOut, t

LEMMA Pair ==
  ASSUME NEW a, NEW b
  PROVE  <<a>> \o <<b>> = <<a, b>>
<1>1. <<a>> \in Seq({a, b}) /\ <<b>> \in Seq({a, b}) /\ <<a, b>> \in Seq({a, b})
  OBVIOUS
<1>2. /\ <<a>> \o <<b>> \in Seq({a, b}) /\ Len(<<a>> \o <<b>>) = 2
      /\ (<<a>> \o <<b>>)[1] = a /\ (<<a>> \o <<b>>)[2] = b
  BY <1>1, ConcatProperties
<1>3. Len(<<a, b>>) = 2 /\ <<a, b>>[1] = a /\ <<a, b>>[2] = b /\ 1 .. 2 = {1, 2}
  OBVIOUS
<1>. QED
  BY <1>1, <1>2, <1>3, SeqEqual
-----------------------------------------------------------------------------
\* A set of numbers up to n has a least one.
LEMMA Least ==
  ASSUME NEW n \in Nat, NEW T, T \subseteq 0 .. n, T # {}
  PROVE  \E x \in T : \A y \in T : x <= y
<1> DEFINE S == 0 .. n
           R == StrictSubsetOrdering(S)
           Q == {0 .. x : x \in T}
<1>1. IsWellFoundedOn(R, FiniteSubsetsOf(S))
  BY FS_StrictSubsetOrderingWellFounded
<1>2. Q \subseteq FiniteSubsetsOf(S) /\ Q # {}
  <2>1. \A x \in T : 0 .. x \in SUBSET S
    OBVIOUS
  <2>2. \A x \in T : IsFiniteSet(0 .. x)
    <3>1. \A x \in T : x \in Int
      OBVIOUS
    <3>2. QED
      BY <3>1, FS_Interval
  <2>3. QED
    BY <2>1, <2>2 DEF FiniteSubsetsOf
<1> HIDE DEF R, Q
<1>3. \E a \in Q : \A b \in Q : <<b, a>> \notin R
  BY <1>1, <1>2, WFMin
<1>4. PICK x \in T : \A b \in Q : <<b, 0 .. x>> \notin R
  BY <1>3 DEF Q
<1>5. ASSUME NEW y \in T, y < x PROVE FALSE
  <2>1. 0 .. y \in Q
    BY DEF Q
  <2>2. x \in 0 .. x /\ x \notin 0 .. y /\ 0 .. y \subseteq 0 .. x
    BY <1>5
  <2>3. <<0 .. y, 0 .. x>> \in R
    BY <2>2 DEF R, StrictSubsetOrdering
  <2>4. QED
    BY <2>1, <2>3, <1>4
<1>6. QED
  BY <1>5


\* A set of the numbers up to n that is closed under the successor.
LEMMA Induction ==
  ASSUME NEW n \in Nat, NEW S, 0 \in S,
         \A k \in 1 .. n : k - 1 \in S => k \in S
  PROVE  \A k \in 0 .. n : k \in S
<1>. DEFINE Bad == {k \in 0 .. n : k \notin S}
<1>. SUFFICES ASSUME Bad # {} PROVE FALSE
  OBVIOUS
<1>1. Bad \subseteq 0 .. n
  OBVIOUS
<1>2. PICK k \in Bad : \A j \in Bad : k <= j
  BY ONLY <1>1, Bad # {}, n \in Nat, Least
<1>3. k \in 1 .. n /\ k - 1 \in 0 .. n
  BY <1>2
<1>4. k - 1 \in S
  BY <1>2, <1>3
<1>. QED
  BY <1>2, <1>3, <1>4

\* Functions with the same values are equal.
LEMMA Extensional ==
  ASSUME NEW D, NEW f, NEW g, f = [x \in D |-> f[x]], g = [x \in D |-> g[x]],
         \A x \in D : f[x] = g[x]
  PROVE  f = g
OBVIOUS

Recursive(n, a, G, f) ==
  f = [k \in 0 .. n |-> IF k = 0 THEN a ELSE G[<<k, f[k - 1]>>]]

\* A start and a step for every number determine a function.
LEMMA Recursion ==
  ASSUME NEW n \in Nat, NEW X, NEW a \in X, NEW G \in [(1 .. n) \X X -> X]
  PROVE  \E f \in [0 .. n -> X] : Recursive(n, a, G, f)
<1>. DEFINE Unfold(m, f) == [k \in 0 .. m |-> IF k = 0 THEN a ELSE G[<<k, f[k - 1]>>]]
            S == {m \in 0 .. n : \E f \in [0 .. m -> X] : f = Unfold(m, f)}
<1>1. 0 \in S
  <2>. DEFINE f == [k \in 0 .. 0 |-> a]
  <2>1. f \in [0 .. 0 -> X]
    OBVIOUS
  <2>2. \A k \in 0 .. 0 : f[k] = Unfold(0, f)[k]
    OBVIOUS
  <2>3. f = [k \in 0 .. 0 |-> f[k]] /\ Unfold(0, f) = [k \in 0 .. 0 |-> Unfold(0, f)[k]]
    OBVIOUS
  <2>4. f = Unfold(0, f)
    BY ONLY <2>2, <2>3, Extensional
  <2>. HIDE DEF Unfold, f
  <2>. QED
    BY <2>1, <2>4
<1>2. ASSUME NEW m \in 1 .. n, m - 1 \in S
      PROVE  m \in S
  <2>1. PICK f \in [0 .. m - 1 -> X] : f = Unfold(m - 1, f)
    BY <1>2
  <2>. DEFINE g == [k \in 0 .. m |-> IF k < m THEN f[k] ELSE G[<<m, f[m - 1]>>]]
  <2>2. m \in 1 .. n /\ m - 1 \in 0 .. m - 1 /\ f[m - 1] \in X /\ G[<<m, f[m - 1]>>] \in X
    BY <2>1
  <2>3. \A k \in 0 .. m : k < m => k \in 0 .. m - 1
    BY <2>2
  <2>4. g \in [0 .. m -> X]
    BY <2>1, <2>2, <2>3
  <2>5. ASSUME NEW k \in 0 .. m
        PROVE  g[k] = IF k = 0 THEN a ELSE G[<<k, g[k - 1]>>]
    <3>1. CASE k = 0
      <4>1. k < m /\ k \in 0 .. m - 1
        BY <2>2, <3>1
      <4>2. f[k] = a
        BY <2>1, <3>1, <4>1
      <4>. QED
        BY <3>1, <4>1, <4>2
    <3>2. CASE k # 0
      <4>1. k - 1 \in 0 .. m /\ k - 1 < m /\ k - 1 \in 0 .. m - 1
        BY <2>2, <2>5, <3>2
      <4>2. g[k - 1] = f[k - 1]
        BY <4>1
      <4>3. CASE k < m
        <5>1. k \in 0 .. m - 1
          BY <2>3, <2>5, <4>3
        <5>2. f[k] = G[<<k, f[k - 1]>>]
          BY <2>1, <3>2, <5>1
        <5>. QED
          BY <2>5, <3>2, <4>2, <4>3, <5>2
      <4>4. CASE ~(k < m)
        <5>1. k = m
          BY <2>2, <2>5, <4>4
        <5>. QED
          BY <2>5, <3>2, <4>2, <4>4, <5>1
      <4>. QED
        BY <4>3, <4>4
    <3>. QED
      BY <3>1, <3>2
  <2>. HIDE DEF g
  <2>6. g = Unfold(m, g)
    <3>1. \A k \in 0 .. m : g[k] = Unfold(m, g)[k]
      BY <2>5
    <3>2. g = [k \in 0 .. m |-> g[k]] /\ Unfold(m, g) = [k \in 0 .. m |-> Unfold(m, g)[k]]
      BY <2>4
    <3>. QED
      BY ONLY <3>1, <3>2, Extensional
  <2>7. m \in 0 .. n
    BY <2>2
  <2>. HIDE DEF Unfold
  <2>. QED
    BY <2>4, <2>6, <2>7
<1>. HIDE DEF S
<1>3. n \in S
  <2>1. \A k \in 0 .. n : k \in S
    BY <1>1, <1>2, Induction
  <2>. QED
    BY <2>1
<1>. QED
  BY <1>3 DEF S, Recursive

-----------------------------------------------------------------------------
(***************************************************************************)
(* The groups of memory, their priorities and their order.                 *)
(***************************************************************************)

Names == {"-", "RAM_0", "RAM_4", "RAM_8", "IRM", "IRM_X", "CAOS_C", "CAOS_E", "USER"}
SlotNames == DOMAIN Slots

LEMMA SlotFacts ==
  /\ \A s \in SlotNames : s \notin Names
  /\ \A s \in SlotNames : Slots[s] \in {"ram", "segmented"} /\ Address[s] \in 8 .. 255
  /\ Blocks \subseteq 0 .. 15 /\ 0 \in Blocks /\ Roms \subseteq 0 .. 3
<1>1. SlotNames \cap Names = {}
  BY Memory4Assumption DEF SlotNames, Names
<1>. QED
  BY <1>1, Memory4Assumption DEF SlotNames

LEMMA PrioByName ==
  ASSUME NEW g, g # Nothing
  PROVE  /\ g[1] = "RAM_0" => Prio(g) = 0
         /\ g[1] \in {"IRM", "IRM_X"} => Prio(g) = 1
         /\ g[1] \in {"CAOS_C", "CAOS_E", "USER"} => Prio(g) = 2
         /\ g[1] = "RAM_8" => Prio(g) = 3
         /\ g[1] = "RAM_4" => Prio(g) = 4
         /\ g[1] \in SlotNames => Prio(g) = IF Slots[g[1]] = "ram" THEN Address[g[1]] ELSE 16
<1>1. g[1] \in Names => g[1] \notin DOMAIN Slots
  BY SlotFacts DEF SlotNames
<1>2. g[1] = "RAM_0" => Prio(g) = 0
  BY <1>1 DEF Prio, Names
<1>3. g[1] \in {"IRM", "IRM_X"} => Prio(g) = 1
  BY <1>1 DEF Prio, Names
<1>4. g[1] \in {"CAOS_C", "CAOS_E", "USER"} => Prio(g) = 2
  BY <1>1 DEF Prio, Names
<1>5. g[1] = "RAM_8" => Prio(g) = 3
  BY <1>1 DEF Prio, Names
<1>6. g[1] = "RAM_4" => Prio(g) = 4
  BY <1>1 DEF Prio, Names
<1>7. g[1] \in SlotNames => Prio(g) = IF Slots[g[1]] = "ram" THEN Address[g[1]] ELSE 16
  BY <1>1 DEF Prio, Names, SlotNames
<1>. QED
  BY <1>2, <1>3, <1>4, <1>5, <1>6, <1>7

LEMMA PrioOfNothing == Prio(Nothing) = 256
<1>1. Nothing[1] = "-" /\ "-" \notin DOMAIN Slots
  BY SlotFacts DEF SlotNames, Names, Nothing
<1>. QED
  BY <1>1 DEF Prio

\* Every group, with its name and priority.
LEMMA GroupIs ==
  ASSUME NEW g \in Group
  PROVE  \/ g = Nothing /\ g[1] = "-" /\ Prio(g) = 256
         \/ g = <<"RAM_0", 0>> /\ g[1] = "RAM_0" /\ Prio(g) = 0
         \/ g = <<"RAM_4", 0>> /\ g[1] = "RAM_4" /\ Prio(g) = 4
         \/ g = <<"CAOS_C", 0>> /\ g[1] = "CAOS_C" /\ Prio(g) = 2
         \/ g = <<"CAOS_E", 0>> /\ g[1] = "CAOS_E" /\ Prio(g) = 2
         \/ Prio(g) = 3 /\ g[1] = "RAM_8" /\ g[2] \in Blocks /\ g = Ram8(g[2])
         \/ Prio(g) = 2 /\ g[1] = "USER" /\ g[2] \in Roms /\ g = User(g[2])
         \/ Prio(g) = 1 /\ g[1] = "IRM" /\ g[2] \in 0 .. 3 /\ g = Irm(g[2])
         \/ Prio(g) = 1 /\ g[1] = "IRM_X" /\ g[2] \in 0 .. 3 /\ g = IrmUpper(g[2])
         \/ /\ g[1] \in SlotNames /\ g[2] \in 0 .. 15 /\ g = <<g[1], g[2]>> /\ g \in Modules
            /\ Prio(g) = IF Slots[g[1]] = "ram" THEN Address[g[1]] ELSE 16
<1>1. Nothing[1] = "-"
  BY DEF Nothing
<1>2. g \in Onboard \/ g \in Modules
  BY DEF Group
<1>3. CASE g \in Modules
  <2>1. g[1] \in SlotNames /\ g[2] \in 0 .. 15 /\ g = <<g[1], g[2]>>
    BY <1>3 DEF Modules, SlotNames
  <2>2. g[1] # "-"
    BY <2>1, SlotFacts DEF Names
  <2>. QED
    BY <1>1, <1>3, <2>1, <2>2, PrioByName
<1>4. CASE g \in Onboard
  <2>. DEFINE Single == {Nothing, <<"RAM_0", 0>>, <<"RAM_4", 0>>, <<"CAOS_C", 0>>, <<"CAOS_E", 0>>}
  <2>1. \/ g = Nothing
        \/ g[1] = "RAM_0" /\ g = <<"RAM_0", 0>>
        \/ g[1] = "RAM_4" /\ g = <<"RAM_4", 0>>
        \/ g[1] = "CAOS_C" /\ g = <<"CAOS_C", 0>>
        \/ g[1] = "CAOS_E" /\ g = <<"CAOS_E", 0>>
        \/ g[1] = "RAM_8" /\ g[2] \in Blocks /\ g = Ram8(g[2])
        \/ g[1] = "USER" /\ g[2] \in Roms /\ g = User(g[2])
        \/ g[1] = "IRM" /\ g[2] \in 0 .. 3 /\ g = Irm(g[2])
        \/ g[1] = "IRM_X" /\ g[2] \in 0 .. 3 /\ g = IrmUpper(g[2])
    <3>. HIDE DEF Single
    <3>1. \/ g \in Single
          \/ \E b \in Blocks : g = Ram8(b)
          \/ \E r \in Roms : g = User(r)
          \/ \E i \in 0 .. 3 : g = Irm(i)
          \/ \E i \in 0 .. 3 : g = IrmUpper(i)
      <4>1. Onboard = Single \cup {Ram8(b) : b \in Blocks} \cup {User(r) : r \in Roms}
                        \cup {Irm(i) : i \in 0 .. 3} \cup {IrmUpper(i) : i \in 0 .. 3}
        BY DEF Onboard, Single
      <4>. QED
        BY <1>4, <4>1
    <3>2. g \in Single => \/ g = Nothing
                          \/ g[1] = "RAM_0" /\ g = <<"RAM_0", 0>>
                          \/ g[1] = "RAM_4" /\ g = <<"RAM_4", 0>>
                          \/ g[1] = "CAOS_C" /\ g = <<"CAOS_C", 0>>
                          \/ g[1] = "CAOS_E" /\ g = <<"CAOS_E", 0>>
      <4>1. g \in Single => \/ g = Nothing \/ g = <<"RAM_0", 0>> \/ g = <<"RAM_4", 0>>
                            \/ g = <<"CAOS_C", 0>> \/ g = <<"CAOS_E", 0>>
        BY Zenon DEF Single
      <4>2. g = <<"RAM_0", 0>> => g[1] = "RAM_0"
        OBVIOUS
      <4>3. g = <<"RAM_4", 0>> => g[1] = "RAM_4"
        OBVIOUS
      <4>4. g = <<"CAOS_C", 0>> => g[1] = "CAOS_C"
        OBVIOUS
      <4>5. g = <<"CAOS_E", 0>> => g[1] = "CAOS_E"
        OBVIOUS
      <4>. QED
        BY <4>1, <4>2, <4>3, <4>4, <4>5
    <3>3. \A b \in Blocks : g = Ram8(b) => g[1] = "RAM_8" /\ g[2] \in Blocks /\ g = Ram8(g[2])
      BY DEF Ram8
    <3>4. \A r \in Roms : g = User(r) => g[1] = "USER" /\ g[2] \in Roms /\ g = User(g[2])
      BY DEF User
    <3>5. \A i \in 0 .. 3 : g = Irm(i) => g[1] = "IRM" /\ g[2] \in 0 .. 3 /\ g = Irm(g[2])
      BY DEF Irm
    <3>6. \A i \in 0 .. 3 : g = IrmUpper(i) => g[1] = "IRM_X" /\ g[2] \in 0 .. 3 /\ g = IrmUpper(g[2])
      BY DEF IrmUpper
    <3>. QED
      BY <3>1, <3>2, <3>3, <3>4, <3>5, <3>6, Zenon
  <2>2. g = Nothing \/ g # Nothing
    OBVIOUS
  <2>3. CASE g = Nothing
    BY <1>1, <2>3, PrioOfNothing
  <2>4. CASE g # Nothing
    BY <2>1, <2>4, PrioByName
  <2>. QED
    BY <2>3, <2>4
<1>. QED
  BY <1>2, <1>3, <1>4

\* The rank of a group: its priority, twice, and the USER ROMs behind that of CAOS.
LEMMA Ranks ==
  ASSUME NEW g \in Group
  PROVE  /\ Prio(g) \in 0 .. 256 /\ Rank(g) \in Int
         /\ Rank(g) = IF g[1] = "USER" THEN 5 ELSE 2 * Prio(g)
         /\ g[1] = "USER" => Prio(g) = 2
<1>1. g[1] \in SlotNames => (IF Slots[g[1]] = "ram" THEN Address[g[1]] ELSE 16) \in 0 .. 256
  BY SlotFacts
<1>2. Prio(g) \in 0 .. 256
  <2>1. \/ Prio(g) \in {0, 1, 2, 3, 4, 256}
        \/ /\ g[1] \in SlotNames
           /\ Prio(g) = IF Slots[g[1]] = "ram" THEN Address[g[1]] ELSE 16
    BY GroupIs
  <2>. QED
    BY <1>1, <2>1
<1>3. g[1] = "USER" => Prio(g) = 2
  <2>1. \A s \in SlotNames : s # "USER"
    BY SlotFacts DEF Names
  <2>. QED
    BY <2>1, GroupIs
<1>. QED
  BY <1>2, <1>3 DEF Rank

LEMMA GroupTypes == \A g \in Group : Prio(g) \in Int /\ Rank(g) \in Int
<1>. SUFFICES ASSUME NEW g \in Group PROVE Prio(g) \in Int /\ Rank(g) \in Int
  OBVIOUS
<1>1. Prio(g) \in 0 .. 256 /\ Rank(g) \in Int
  BY Ranks
<1>. QED
  BY <1>1

\* A greater priority is a greater rank; and an equal one, unless a USER ROM comes first.
LEMMA RankByPrio ==
  ASSUME NEW g \in Group, NEW h \in Group
  PROVE  /\ Prio(g) < Prio(h) => Rank(g) <= Rank(h)
         /\ Prio(g) <= Prio(h) /\ (h[1] = "USER" \/ Prio(h) # 2 \/ g[1] # "USER")
              => Rank(g) <= Rank(h)
<1>1. /\ Prio(g) \in Int /\ Prio(h) \in Int
      /\ g[1] = "USER" => Prio(g) = 2 /\ Rank(g) = 5
      /\ g[1] # "USER" => Rank(g) = 2 * Prio(g)
      /\ h[1] = "USER" => Prio(h) = 2 /\ Rank(h) = 5
      /\ h[1] # "USER" => Rank(h) = 2 * Prio(h)
  BY Ranks, GroupTypes
<1>2. \A p, q \in Int : p <= q => 2 * p <= 2 * q
  OBVIOUS
<1>3. \A p \in Int : /\ p <= 2 => 2 * p <= 5
                     /\ 2 < p => 5 <= 2 * p
                     /\ 2 <= p /\ p # 2 => 5 <= 2 * p
  OBVIOUS
<1>4. CASE g[1] = "USER" /\ h[1] = "USER"
  BY <1>1, <1>4
<1>5. CASE g[1] = "USER" /\ h[1] # "USER"
  BY <1>1, <1>3, <1>5
<1>6. CASE g[1] # "USER" /\ h[1] = "USER"
  BY <1>1, <1>3, <1>6
<1>7. CASE g[1] # "USER" /\ h[1] # "USER"
  BY <1>1, <1>2, <1>7
<1>. QED
  BY <1>4, <1>5, <1>6, <1>7

LEMMA PrioByRank ==
  ASSUME NEW g \in Group, NEW h \in Group, Rank(g) <= Rank(h)
  PROVE  Prio(g) <= Prio(h)
<1>1. Prio(g) \in Int /\ Prio(h) \in Int
  BY Ranks
<1>2. 2 * Prio(g) <= Rank(g) /\ Rank(h) <= 2 * Prio(h) + 1 /\ Rank(g) \in Int /\ Rank(h) \in Int
  BY Ranks
<1>. QED
  BY <1>1, <1>2

-----------------------------------------------------------------------------
(***************************************************************************)
(* The list of a page: its groups once each, sorted.                       *)
(***************************************************************************)
Rng(l) == {l[k] : k \in 1 .. Len(l)}
Sorted(l) ==
  /\ l \in Seq(Group)
  /\ \A j, k \in 1 .. Len(l) : l[j] = l[k] => j = k
  /\ \A j, k \in 1 .. Len(l) : j < k => Rank(l[j]) <= Rank(l[k])

\* Where MemAreaPtr::add puts a group.
LEMMA PlaceIs ==
  ASSUME NEW l, Sorted(l), NEW g \in Group
  PROVE  /\ Place(l, g) \in 0 .. Len(l)
         /\ \A k \in 1 .. Place(l, g) : Prio(l[k]) <= Prio(g)
         /\ \A k \in Place(l, g) + 1 .. Len(l) : Prio(l[k]) > Prio(g)
<1>. DEFINE T == {n \in 0 .. Len(l) : n < Len(l) => Prio(l[n + 1]) > Prio(g)}
            Is(n) == /\ \A k \in 1 .. n : Prio(l[k]) <= Prio(g)
                     /\ n < Len(l) => Prio(l[n + 1]) > Prio(g)
            n == Place(l, g)
<1>1. Len(l) \in Nat /\ \A k \in 1 .. Len(l) : l[k] \in Group /\ Prio(l[k]) \in Int
  <2>1. Len(l) \in Nat /\ \A k \in 1 .. Len(l) : l[k] \in Group
    BY LenProperties, ElementOfSeq DEF Sorted
  <2>. QED
    BY <2>1, GroupTypes
<1>2. Prio(g) \in Int
  BY Ranks
<1>3. \E x \in T : \A y \in T : x <= y
  <2>1. Len(l) \in T
    BY <1>1
  <2>2. T # {} /\ T \subseteq 0 .. Len(l)
    BY <2>1
  <2>. HIDE DEF T
  <2>. QED
    BY <1>1, <2>2, Least
<1>4. PICK x \in T : \A y \in T : x <= y
  BY <1>3
<1>5. x \in 0 .. Len(l) /\ Is(x)
  <2>1. ASSUME NEW k \in 1 .. x PROVE Prio(l[k]) <= Prio(g)
    <3>1. x \in 0 .. Len(l)
      OBVIOUS
    <3>2. /\ k - 1 \in 0 .. Len(l) /\ k - 1 < Len(l) /\ k - 1 + 1 = k /\ ~(x <= k - 1)
          /\ k \in 1 .. Len(l)
      BY <1>1, <3>1
    <3>3. k - 1 \notin T
      BY <1>4, <3>2
    <3>4. ~(Prio(l[k - 1 + 1]) > Prio(g))
      BY <3>2, <3>3
    <3>. QED
      BY <1>1, <1>2, <3>2, <3>4
  <2>. QED
    BY <1>4, <2>1
<1>6. n = CHOOSE i \in 0 .. Len(l) : Is(i)
  BY DEF Place
<1>. HIDE DEF n, Is, T
<1>7. n \in 0 .. Len(l) /\ Is(n)
  BY <1>5, <1>6
<1>8. ASSUME NEW k \in n + 1 .. Len(l) PROVE Prio(l[k]) > Prio(g)
  <2>1. n + 1 \in 1 .. Len(l) /\ k \in 1 .. Len(l) /\ n < Len(l)
    BY <1>1, <1>7
  <2>2. Prio(l[n + 1]) > Prio(g)
    BY <1>7, <2>1 DEF Is
  <2>3. Prio(l[n + 1]) <= Prio(l[k])
    <3>1. CASE k = n + 1
      BY <1>1, <2>1, <3>1
    <3>2. CASE n + 1 < k
      BY <1>1, <2>1, <3>2, PrioByRank DEF Sorted
    <3>. QED
      BY <1>7, <2>1, <3>1, <3>2
  <2>. QED
    BY <1>1, <1>2, <2>1, <2>2, <2>3
<1>. QED
  BY <1>7, <1>8 DEF Is, n

\* A group can be put behind those of its priority.
Fits(l, g) == g \notin Rng(l) /\ (\/ g[1] = "USER" \/ Prio(g) # 2
                                  \/ \A h \in Rng(l) : h[1] # "USER")

LEMMA InsertedSorted ==
  ASSUME NEW l, Sorted(l), NEW g \in Group, Fits(l, g)
  PROVE  Sorted(Inserted(l, g)) /\ Rng(Inserted(l, g)) = Rng(l) \cup {g}
<1>. DEFINE n == Place(l, g)
            t == Inserted(l, g)
<1>1. /\ l \in Seq(Group) /\ Len(l) \in Nat
      /\ \A k \in 1 .. Len(l) : l[k] \in Group /\ l[k] \in Rng(l)
  BY LenProperties, ElementOfSeq DEF Sorted, Rng
<1>2. /\ n \in 0 .. Len(l)
      /\ \A k \in 1 .. n : Prio(l[k]) <= Prio(g)
      /\ \A k \in n + 1 .. Len(l) : Prio(l[k]) > Prio(g)
  BY PlaceIs
<1>. HIDE DEF n
<1>3. PutIn(t, Group, l, n, g)
  BY <1>1, <1>2, Put DEF Inserted, n
<1>. HIDE DEF t
<1>4. /\ t \in Seq(Group) /\ Len(t) = Len(l) + 1
      /\ \A k \in 1 .. n : t[k] = l[k]
      /\ t[n + 1] = g
      /\ \A k \in n + 1 .. Len(l) : t[k + 1] = l[k]
  BY <1>3 DEF PutIn
<1>5. ASSUME NEW j \in 1 .. Len(t)
      PROVE  \/ j \in 1 .. n /\ j \in 1 .. Len(l) /\ t[j] = l[j]
             \/ j = n + 1 /\ t[j] = g
             \/ j - 1 \in n + 1 .. Len(l) /\ j - 1 \in 1 .. Len(l) /\ t[j] = l[j - 1]
  <2>1. \/ j \in 1 .. n /\ j \in 1 .. Len(l)
        \/ j = n + 1
        \/ j - 1 \in n + 1 .. Len(l) /\ j - 1 \in 1 .. Len(l) /\ j - 1 + 1 = j
    BY <1>1, <1>2, <1>4
  <2>. QED
    BY <1>4, <2>1
<1>6. ASSUME NEW j \in 1 .. Len(t), NEW k \in 1 .. Len(t), t[j] = t[k]
      PROVE  j = k
  <2>1. \A i \in 1 .. Len(l) : l[i] # g
    BY <1>1 DEF Fits
  <2>2. \A a, b \in 1 .. Len(l) : l[a] = l[b] => a = b
    BY DEF Sorted
  <2>3. \/ j \in 1 .. n /\ j \in 1 .. Len(l) /\ t[j] = l[j]
        \/ j = n + 1 /\ t[j] = g
        \/ j - 1 \in n + 1 .. Len(l) /\ j - 1 \in 1 .. Len(l) /\ t[j] = l[j - 1]
    BY <1>5
  <2>4. \/ k \in 1 .. n /\ k \in 1 .. Len(l) /\ t[k] = l[k]
        \/ k = n + 1 /\ t[k] = g
        \/ k - 1 \in n + 1 .. Len(l) /\ k - 1 \in 1 .. Len(l) /\ t[k] = l[k - 1]
    BY <1>5
  <2>5. CASE j \in 1 .. n /\ j \in 1 .. Len(l) /\ t[j] = l[j]
    <3>1. k \in 1 .. Len(l) /\ t[k] = l[k] => j = k
      BY <1>6, <2>2, <2>5
    <3>2. t[k] # g
      BY <1>6, <2>1, <2>5
    <3>3. k - 1 \in 1 .. Len(l) /\ t[k] = l[k - 1] => j = k - 1
      BY <1>6, <2>2, <2>5
    <3>4. k - 1 \in n + 1 .. Len(l) => j # k - 1
      BY <1>1, <1>2, <2>5
    <3>. QED
      BY <2>4, <3>1, <3>2, <3>3, <3>4
  <2>6. CASE j = n + 1 /\ t[j] = g
    BY <1>6, <2>1, <2>4, <2>6
  <2>7. CASE j - 1 \in n + 1 .. Len(l) /\ j - 1 \in 1 .. Len(l) /\ t[j] = l[j - 1]
    <3>1. k \in 1 .. Len(l) /\ t[k] = l[k] => j - 1 = k
      BY <1>6, <2>2, <2>7
    <3>2. t[k] # g
      BY <1>6, <2>1, <2>7
    <3>3. k - 1 \in 1 .. Len(l) /\ t[k] = l[k - 1] => j - 1 = k - 1
      BY <1>6, <2>2, <2>7
    <3>4. k \in 1 .. n => j - 1 # k
      BY <1>1, <1>2, <2>7
    <3>5. j - 1 = k - 1 => j = k
      BY <1>4
    <3>. QED
      BY <2>4, <3>1, <3>2, <3>3, <3>4, <3>5
  <2>. QED
    BY <2>3, <2>5, <2>6, <2>7
<1>7. ASSUME NEW j \in 1 .. Len(t), NEW k \in 1 .. Len(t), j < k
      PROVE  Rank(t[j]) <= Rank(t[k])
  <2>1. \A a, b \in 1 .. Len(l) : a < b => Rank(l[a]) <= Rank(l[b])
    BY DEF Sorted
  <2>2. ASSUME NEW a \in 1 .. n PROVE Rank(l[a]) <= Rank(g)
    <3>1. a \in 1 .. Len(l)
      BY <1>1, <1>2
    <3>. DEFINE h == l[a]
    <3>2. h \in Group /\ h \in Rng(l) /\ Prio(h) <= Prio(g)
      BY <1>1, <1>2, <3>1
    <3>. HIDE DEF h
    <3>5. g[1] = "USER" \/ Prio(g) # 2 \/ h[1] # "USER"
      BY <3>2 DEF Fits
    <3>6. Rank(h) <= Rank(g)
      BY <3>2, <3>5, RankByPrio
    <3>. QED
      BY <3>6 DEF h
  <2>3. ASSUME NEW a \in n + 1 .. Len(l) PROVE Rank(g) <= Rank(l[a])
    <3>1. a \in 1 .. Len(l)
      BY <1>1, <1>2
    <3>. DEFINE h == l[a]
    <3>2. h \in Group /\ Prio(h) > Prio(g)
      BY <1>1, <1>2, <3>1
    <3>. HIDE DEF h
    <3>5. Rank(g) <= Rank(h)
      BY <3>2, GroupTypes, RankByPrio
    <3>. QED
      BY <3>5 DEF h
  <2>4. \/ j \in 1 .. n /\ j \in 1 .. Len(l) /\ t[j] = l[j]
        \/ j = n + 1 /\ t[j] = g
        \/ j - 1 \in n + 1 .. Len(l) /\ j - 1 \in 1 .. Len(l) /\ t[j] = l[j - 1]
    BY <1>5
  <2>5. \/ k \in 1 .. n /\ k \in 1 .. Len(l) /\ t[k] = l[k]
        \/ k = n + 1 /\ t[k] = g
        \/ k - 1 \in n + 1 .. Len(l) /\ k - 1 \in 1 .. Len(l) /\ t[k] = l[k - 1]
    BY <1>5
  <2>. DEFINE Before(i) == i \in 1 .. n /\ i \in 1 .. Len(l) /\ t[i] = l[i]
              Behind(i) == i - 1 \in n + 1 .. Len(l) /\ i - 1 \in 1 .. Len(l) /\ t[i] = l[i - 1]
  <2>6. CASE Before(j)
    <3>1. CASE Before(k)
      BY <1>7, <2>1, <2>6, <3>1
    <3>2. CASE k = n + 1 /\ t[k] = g
      BY <2>2, <2>6, <3>2
    <3>3. CASE Behind(k)
      <4>1. j < k - 1
        BY <1>1, <1>2, <2>6, <3>3
      <4>. QED
        BY <2>1, <2>6, <3>3, <4>1
    <3>. QED
      BY <2>5, <3>1, <3>2, <3>3
  <2>7. CASE j = n + 1 /\ t[j] = g
    <3>1. k \notin 1 .. n /\ k # n + 1
      BY <1>1, <1>2, <1>7, <2>7
    <3>. QED
      BY <2>3, <2>5, <2>7, <3>1
  <2>8. CASE Behind(j)
    <3>1. k \notin 1 .. n /\ k # n + 1 /\ j - 1 < k - 1
      BY <1>1, <1>2, <1>7, <2>8
    <3>. QED
      BY <2>1, <2>5, <2>8, <3>1
  <2>. QED
    BY <2>4, <2>6, <2>7, <2>8
<1>8. Rng(t) = Rng(l) \cup {g}
  <2>1. Rng(t) \subseteq Rng(l) \cup {g}
    BY <1>1, <1>5 DEF Rng
  <2>2. g \in Rng(t)
    <3>1. n + 1 \in 1 .. Len(t)
      BY <1>1, <1>2, <1>4
    <3>. QED
      BY <1>4, <3>1 DEF Rng
  <2>3. ASSUME NEW k \in 1 .. Len(l) PROVE l[k] \in Rng(t)
    <3>1. CASE k \in 1 .. n
      <4>1. k \in 1 .. Len(t) /\ t[k] = l[k]
        BY <1>1, <1>2, <1>4, <3>1
      <4>. QED
        BY <4>1 DEF Rng
    <3>2. CASE k \in n + 1 .. Len(l)
      <4>1. k + 1 \in 1 .. Len(t) /\ t[k + 1] = l[k]
        BY <1>1, <1>2, <1>4, <3>2
      <4>. QED
        BY <4>1 DEF Rng
    <3>. QED
      BY <1>1, <1>2, <3>1, <3>2
  <2>4. Rng(l) \subseteq Rng(t)
    BY <2>3 DEF Rng
  <2>. QED
    BY <2>1, <2>2, <2>4
<1>9. Sorted(t)
  BY <1>4, <1>6, <1>7 DEF Sorted
<1>. QED
  BY <1>8, <1>9 DEF t

LEMMA RemovedSorted ==
  ASSUME NEW l, Sorted(l), NEW g
  PROVE  Sorted(Removed(l, g)) /\ Rng(Removed(l, g)) = Rng(l) \ {g}
<1>1. /\ l \in Seq(Group) /\ Len(l) \in Nat /\ DOMAIN l = 1 .. Len(l)
      /\ \A k \in 1 .. Len(l) : l[k] \in Group
  BY LenProperties, ElementOfSeq DEF Sorted
<1>2. CASE ~\E k \in DOMAIN l : l[k] = g
  <2>1. Removed(l, g) = l
    BY <1>2 DEF Removed
  <2>2. g \notin Rng(l)
    BY <1>1, <1>2 DEF Rng
  <2>. QED
    BY <2>1, <2>2
<1>3. CASE \E k \in DOMAIN l : l[k] = g
  <2>. DEFINE n == Found(l, g)
              t == Removed(l, g)
  <2>1. n \in 1 .. Len(l) /\ l[n] = g
    BY <1>1, <1>3 DEF Found
  <2>. HIDE DEF n
  <2>2. TakenOut(t, Group, l, n)
    BY <1>1, <1>3, <2>1, Take DEF Removed, n
  <2>. HIDE DEF t
  <2>3. /\ t \in Seq(Group) /\ Len(t) = Len(l) - 1
        /\ \A k \in 1 .. n - 1 : t[k] = l[k]
        /\ \A k \in n + 1 .. Len(l) : t[k - 1] = l[k]
    BY <2>2 DEF TakenOut
  <2>4. ASSUME NEW j \in 1 .. Len(t)
        PROVE  \/ j < n /\ j \in 1 .. Len(l) /\ t[j] = l[j]
               \/ j >= n /\ j + 1 \in 1 .. Len(l) /\ t[j] = l[j + 1]
    <3>1. CASE j < n
      <4>1. j \in 1 .. n - 1 /\ j \in 1 .. Len(l)
        BY <1>1, <2>1, <2>3, <3>1
      <4>. QED
        BY <2>3, <3>1, <4>1
    <3>2. CASE j >= n
      <4>1. j + 1 \in n + 1 .. Len(l) /\ j + 1 \in 1 .. Len(l) /\ j + 1 - 1 = j
        BY <1>1, <2>1, <2>3, <3>2
      <4>. QED
        BY <2>3, <3>2, <4>1
    <3>. QED
      BY <2>1, <3>1, <3>2
  <2>5. ASSUME NEW j \in 1 .. Len(t), NEW k \in 1 .. Len(t), t[j] = t[k] PROVE j = k
    <3>1. \A a, b \in 1 .. Len(l) : l[a] = l[b] => a = b
      BY DEF Sorted
    <3>2. j \in Int /\ k \in Int /\ n \in Int
      BY <2>1
    <3>3. CASE j < n /\ k < n
      BY <2>4, <2>5, <3>1, <3>2, <3>3
    <3>4. CASE j < n /\ k >= n
      <4>1. j \in 1 .. Len(l) /\ k + 1 \in 1 .. Len(l) /\ l[j] = l[k + 1]
        BY <2>4, <2>5, <3>2, <3>4
      <4>2. j = k + 1
        BY <3>1, <4>1
      <4>. QED
        BY <3>2, <3>4, <4>2
    <3>5. CASE j >= n /\ k < n
      <4>1. j + 1 \in 1 .. Len(l) /\ k \in 1 .. Len(l) /\ l[j + 1] = l[k]
        BY <2>4, <2>5, <3>2, <3>5
      <4>2. j + 1 = k
        BY <3>1, <4>1
      <4>. QED
        BY <3>2, <3>5, <4>2
    <3>6. CASE j >= n /\ k >= n
      <4>1. j + 1 \in 1 .. Len(l) /\ k + 1 \in 1 .. Len(l) /\ l[j + 1] = l[k + 1]
        BY <2>4, <2>5, <3>2, <3>6
      <4>2. j + 1 = k + 1
        BY <3>1, <4>1
      <4>. QED
        BY <3>2, <4>2
    <3>. QED
      BY <3>2, <3>3, <3>4, <3>5, <3>6
  <2>6. ASSUME NEW j \in 1 .. Len(t), NEW k \in 1 .. Len(t), j < k
        PROVE  Rank(t[j]) <= Rank(t[k])
    <3>1. \A a, b \in 1 .. Len(l) : a < b => Rank(l[a]) <= Rank(l[b])
      BY DEF Sorted
    <3>2. \/ j < n /\ j \in 1 .. Len(l) /\ t[j] = l[j]
          \/ j >= n /\ j + 1 \in 1 .. Len(l) /\ t[j] = l[j + 1]
      BY <2>4
    <3>3. \/ k < n /\ k \in 1 .. Len(l) /\ t[k] = l[k]
          \/ k >= n /\ k + 1 \in 1 .. Len(l) /\ t[k] = l[k + 1]
      BY <2>4
    <3>4. /\ j < k + 1 /\ j + 1 < k + 1
          /\ j >= n => k >= n
      BY <2>1, <2>6
    <3>5. ~(k < n /\ k >= n)
      BY <2>1
    <3>. QED
      BY <2>6, <3>1, <3>2, <3>3, <3>4, <3>5
  <2>7. ASSUME NEW k \in 1 .. Len(l), l[k] # g PROVE l[k] \in Rng(t)
    <3>1. CASE k \in 1 .. n - 1
      <4>1. k \in 1 .. Len(t) /\ t[k] = l[k]
        BY <1>1, <2>1, <2>3, <3>1
      <4>. QED
        BY <4>1 DEF Rng
    <3>2. CASE k \in n + 1 .. Len(l)
      <4>1. k - 1 \in 1 .. Len(t) /\ t[k - 1] = l[k]
        BY <1>1, <2>1, <2>3, <3>2
      <4>. QED
        BY <4>1 DEF Rng
    <3>3. k \in 1 .. n - 1 \/ k = n \/ k \in n + 1 .. Len(l)
      BY <1>1, <2>1
    <3>. QED
      BY <2>1, <2>7, <3>1, <3>2, <3>3
  <2>8. ASSUME NEW j \in 1 .. Len(t) PROVE t[j] \in Rng(l) /\ t[j] # g
    <3>1. \A a, b \in 1 .. Len(l) : l[a] = l[b] => a = b
      BY DEF Sorted
    <3>2. CASE j < n /\ j \in 1 .. Len(l) /\ t[j] = l[j]
      <4>1. j # n
        BY <2>1, <3>2
      <4>. QED
        BY <2>1, <3>1, <3>2, <4>1 DEF Rng
    <3>3. CASE j >= n /\ j + 1 \in 1 .. Len(l) /\ t[j] = l[j + 1]
      <4>1. j + 1 # n
        BY <2>1, <3>3
      <4>. QED
        BY <2>1, <3>1, <3>3, <4>1 DEF Rng
    <3>. QED
      BY <2>4, <3>2, <3>3
  <2>9. Rng(t) = Rng(l) \ {g}
    BY <2>7, <2>8 DEF Rng
  <2>10. Sorted(t)
    BY <2>3, <2>5, <2>6 DEF Sorted
  <2>. QED
    BY <2>9, <2>10 DEF t
<1>. QED
  BY <1>2, <1>3

\* MemAreaPtr::get_read_ptr: of the groups that are active, one of the lowest rank.
LEMMA FirstIs ==
  ASSUME NEW l, Sorted(l), NEW A, NEW h \in Rng(l), h \in A
  PROVE  /\ FirstOf(l, A) \in Rng(l) /\ FirstOf(l, A) \in A
         /\ \A g \in Rng(l) : g \in A => Rank(FirstOf(l, A)) <= Rank(g)
<1>. DEFINE Is(n) == l[n] \in A /\ \A k \in 1 .. n - 1 : l[k] \notin A
            n == CHOOSE k \in DOMAIN l : Is(k)
            T == {k \in 1 .. Len(l) : l[k] \in A}
<1>1. /\ l \in Seq(Group) /\ Len(l) \in Nat /\ DOMAIN l = 1 .. Len(l)
      /\ \A k \in 1 .. Len(l) : l[k] \in Group /\ Rank(l[k]) \in Int
  <2>1. /\ l \in Seq(Group) /\ Len(l) \in Nat /\ DOMAIN l = 1 .. Len(l)
        /\ \A k \in 1 .. Len(l) : l[k] \in Group
    BY LenProperties, ElementOfSeq DEF Sorted
  <2>. QED
    BY <2>1, GroupTypes
<1>2. T \subseteq 0 .. Len(l) /\ T # {}
  <2>1. PICK k \in 1 .. Len(l) : l[k] = h
    BY DEF Rng
  <2>. QED
    BY <2>1
<1>. HIDE DEF T
<1>3. PICK x \in T : \A y \in T : x <= y
  BY <1>1, <1>2, Least
<1>4. x \in DOMAIN l /\ Is(x)
  <2>1. x \in 1 .. Len(l) /\ l[x] \in A
    BY DEF T
  <2>2. ASSUME NEW k \in 1 .. x - 1, l[k] \in A PROVE FALSE
    <3>1. k \in 1 .. Len(l) /\ ~(x <= k)
      BY <1>1, <2>1
    <3>. QED
      BY <1>3, <2>2, <3>1 DEF T
  <2>. QED
    BY <1>1, <2>1, <2>2
<1>. HIDE DEF Is
<1>5. n \in 1 .. Len(l) /\ Is(n)
  BY <1>1, <1>4
<1>6. FirstOf(l, A) = l[n]
  BY DEF FirstOf, Is
<1>. HIDE DEF n
<1>7. ASSUME NEW k \in 1 .. Len(l), l[k] \in A PROVE Rank(l[n]) <= Rank(l[k])
  <2>1. ~(k \in 1 .. n - 1)
    BY <1>5, <1>7 DEF Is
  <2>2. k = n \/ n < k
    BY <1>1, <1>5, <2>1
  <2>3. n < k => Rank(l[n]) <= Rank(l[k])
    BY <1>5 DEF Sorted
  <2>. QED
    BY <1>1, <2>2, <2>3
<1>8. \A g \in Rng(l) : g \in A => Rank(l[n]) <= Rank(g)
  BY <1>7 DEF Rng
<1>. QED
  BY <1>5, <1>6, <1>8 DEF Rng, Is

-----------------------------------------------------------------------------
(***************************************************************************)
(* A state m of the memory, and what the model's operators change in it.   *)
(***************************************************************************)
IsMem(m) == m = [list |-> m.list, active |-> m.active, ro |-> m.ro, read |-> m.read,
                 write |-> m.write, switch |-> m.switch]

Pointers(m) ==
  /\ m.read = [p \in Page |-> First(m, p)]
  /\ m.write = [p \in Page |-> IF First(m, p) \in m.ro THEN Nothing ELSE First(m, p)]

\* r differs from m at most in the groups that are active; in the read-only ones.
ButActive(r, m) == IsMem(r) /\ r.list = m.list /\ r.ro = m.ro /\ r.switch = m.switch
ButLocked(r, m) == IsMem(r) /\ r.list = m.list /\ r.active = m.active /\ r.switch = m.switch

LEMMA Reloads ==
  ASSUME NEW m, IsMem(m)
  PROVE  /\ ButActive(Reload(m), m) /\ Reload(m).active = m.active
         /\ Pointers(Reload(m))
<1>. DEFINE first == [p \in Page |-> First(m, p)]
            rd == first
            wr == [p \in Page |-> IF first[p] \in m.ro THEN Nothing ELSE first[p]]
            r == [m EXCEPT !.read = rd, !.write = wr]
<1>1. Reload(m) = r
  BY DEF Reload
<1>2. wr = [p \in Page |-> IF First(m, p) \in m.ro THEN Nothing ELSE First(m, p)]
  OBVIOUS
<1>3. rd = [p \in Page |-> First(m, p)]
  OBVIOUS
<1>. HIDE DEF rd, wr
<1>0. r = [m EXCEPT !.read = rd, !.write = wr]
  OBVIOUS
<1>. HIDE DEF r
<1>4. PICK a, b, c, d, e, f : m = [list |-> a, active |-> b, ro |-> c, read |-> d,
                                   write |-> e, switch |-> f]
  BY DEF IsMem
<1>5. r = [list |-> a, active |-> b, ro |-> c, read |-> rd, write |-> wr, switch |-> f]
  BY <1>0, <1>4
<1>6. /\ r.list = m.list /\ r.active = m.active /\ r.ro = m.ro /\ r.switch = m.switch
      /\ r.read = rd /\ r.write = wr /\ IsMem(r)
  BY <1>4, <1>5 DEF IsMem
<1>7. \A p : First(r, p) = First(m, p)
  BY <1>6 DEF First
<1>. QED
  BY <1>1, <1>2, <1>3, <1>6, <1>7 DEF ButActive, Pointers

LEMMA Activates ==
  ASSUME NEW m, IsMem(m), NEW A
  PROVE  /\ ButActive([m EXCEPT !.active = A], m)
         /\ [m EXCEPT !.active = A].active = A
<1>. DEFINE r == [m EXCEPT !.active = A]
<1>1. PICK a, b, c, d, e, f : m = [list |-> a, active |-> b, ro |-> c, read |-> d,
                                   write |-> e, switch |-> f]
  BY DEF IsMem
<1>2. r = [list |-> a, active |-> A, ro |-> c, read |-> d, write |-> e, switch |-> f]
  BY <1>1
<1>. HIDE DEF r
<1>3. r.list = m.list /\ r.active = A /\ r.ro = m.ro /\ r.switch = m.switch /\ IsMem(r)
  BY <1>1, <1>2 DEF IsMem
<1>. QED
  BY <1>3 DEF ButActive, r

LEMMA Locks ==
  ASSUME NEW m, IsMem(m), NEW A
  PROVE  /\ ButLocked([m EXCEPT !.ro = A], m)
         /\ [m EXCEPT !.ro = A].ro = A
<1>. DEFINE r == [m EXCEPT !.ro = A]
<1>1. PICK a, b, c, d, e, f : m = [list |-> a, active |-> b, ro |-> c, read |-> d,
                                   write |-> e, switch |-> f]
  BY DEF IsMem
<1>2. r = [list |-> a, active |-> b, ro |-> A, read |-> d, write |-> e, switch |-> f]
  BY <1>1
<1>. HIDE DEF r
<1>3. r.list = m.list /\ r.active = m.active /\ r.ro = A /\ r.switch = m.switch /\ IsMem(r)
  BY <1>1, <1>2 DEF IsMem
<1>. QED
  BY <1>3 DEF ButLocked, r

LEMMA Switched ==
  ASSUME NEW m, IsMem(m), NEW A
  PROVE  LET r == [m EXCEPT !.switch = A] IN
         /\ IsMem(r) /\ r.list = m.list /\ r.active = m.active /\ r.ro = m.ro /\ r.switch = A
<1>. DEFINE r == [m EXCEPT !.switch = A]
<1>1. PICK a, b, c, d, e, f : m = [list |-> a, active |-> b, ro |-> c, read |-> d,
                                   write |-> e, switch |-> f]
  BY DEF IsMem
<1>2. r = [list |-> a, active |-> b, ro |-> c, read |-> d, write |-> e, switch |-> A]
  BY <1>1
<1>. HIDE DEF r
<1>3. r.list = m.list /\ r.active = m.active /\ r.ro = m.ro /\ r.switch = A /\ IsMem(r)
  BY <1>1, <1>2 DEF IsMem
<1>. QED
  BY <1>3 DEF r

LEMMA SetActiveIs ==
  ASSUME NEW m, IsMem(m), NEW g, NEW v \in BOOLEAN
  PROVE  /\ ButActive(SetActive(m, g, v), m)
         /\ \A h : h \in SetActive(m, g, v).active <=> IF h = g THEN v ELSE h \in m.active
<1>1. SetActive(m, g, v) = [m EXCEPT !.active = IF v THEN m.active \cup {g} ELSE m.active \ {g}]
  BY DEF SetActive
<1>2. /\ ButActive(SetActive(m, g, v), m)
      /\ SetActive(m, g, v).active = IF v THEN m.active \cup {g} ELSE m.active \ {g}
  BY <1>1, Activates
<1>. QED
  BY <1>2

LEMMA SetReadOnlyIs ==
  ASSUME NEW m, IsMem(m), NEW g, NEW v \in BOOLEAN
  PROVE  /\ ButLocked(SetReadOnly(m, g, v), m)
         /\ \A h : h \in SetReadOnly(m, g, v).ro <=> IF h = g THEN v ELSE h \in m.ro
<1>1. SetReadOnly(m, g, v) = [m EXCEPT !.ro = IF v THEN m.ro \cup {g} ELSE m.ro \ {g}]
  BY DEF SetReadOnly
<1>2. /\ ButLocked(SetReadOnly(m, g, v), m)
      /\ SetReadOnly(m, g, v).ro = IF v THEN m.ro \cup {g} ELSE m.ro \ {g}
  BY <1>1, Locks
<1>. QED
  BY <1>2

LEMMA SetActiveOfIs ==
  ASSUME NEW m, IsMem(m), NEW gs, NEW lit
  PROVE  /\ ButActive(SetActiveOf(m, gs, lit), m)
         /\ \A h : h \in SetActiveOf(m, gs, lit).active <=> IF h \in gs THEN h \in lit ELSE h \in m.active
<1>1. SetActiveOf(m, gs, lit) = [m EXCEPT !.active = (m.active \ gs) \cup (lit \cap gs)]
  BY DEF SetActiveOf
<1>2. /\ ButActive(SetActiveOf(m, gs, lit), m)
      /\ SetActiveOf(m, gs, lit).active = (m.active \ gs) \cup (lit \cap gs)
  BY <1>1, Activates
<1>. QED
  BY <1>2

-----------------------------------------------------------------------------
(***************************************************************************)
(* The settings w of the switches, what is lit and what is protected by    *)
(* them.                                                                   *)
(***************************************************************************)
AllFields == {"caos_e", "ram_0", "irm", "write_0", "basic", "ram_8", "write_8",
              "color", "screen", "segment", "ram_4", "write_4", "rom", "caos_c"}
Value(f) == IF f = "rom" THEN 0 .. 3 ELSE IF f = "segment" THEN 0 .. 15 ELSE BOOLEAN
Setting(w) == w = [f \in AllFields |-> w[f]] /\ \A f \in AllFields : w[f] \in Value(f)

\* w is u with the field f set to v.
Turned(w, u, f, v) == \A g \in AllFields : w[g] = IF g = f THEN v ELSE u[g]

LEMMA FieldsAre ==
  /\ Ports = {"A", "B", "P84", "P86"}
  /\ Fields["A"] = <<"caos_e", "ram_0", "irm", "write_0", "basic">>
  /\ Fields["B"] = <<"ram_8", "write_8">>
  /\ Fields["P84"] = <<"color", "screen", "segment">>
  /\ Fields["P86"] = <<"ram_4", "write_4", "rom", "caos_c">>
BY DEF Ports, Fields

LEMMA FieldIs ==
  /\ Seqs!ToSet(Fields["A"]) = {"caos_e", "ram_0", "irm", "write_0", "basic"}
  /\ Seqs!ToSet(Fields["B"]) = {"ram_8", "write_8"}
  /\ Seqs!ToSet(Fields["P84"]) = {"color", "screen", "segment"}
  /\ Seqs!ToSet(Fields["P86"]) = {"ram_4", "write_4", "rom", "caos_c"}
  /\ Field = AllFields
  /\ \A p \in Ports : DOMAIN Fields[p] \subseteq 1 .. 5
<1>. DEFINE a == <<"caos_e", "ram_0", "irm", "write_0", "basic">>
            b == <<"ram_8", "write_8">>
            c == <<"color", "screen", "segment">>
            d == <<"ram_4", "write_4", "rom", "caos_c">>
<1>1. DOMAIN a = 1 .. 5 /\ DOMAIN b = 1 .. 2 /\ DOMAIN c = 1 .. 3 /\ DOMAIN d = 1 .. 4
  OBVIOUS
<1>2. {a[k] : k \in 1 .. 5} = {"caos_e", "ram_0", "irm", "write_0", "basic"}
  <2>1. \A k \in 1 .. 5 : k = 1 \/ k = 2 \/ k = 3 \/ k = 4 \/ k = 5
    OBVIOUS
  <2>. QED
    BY <2>1
<1>3. {b[k] : k \in 1 .. 2} = {"ram_8", "write_8"}
  <2>1. \A k \in 1 .. 2 : k = 1 \/ k = 2
    OBVIOUS
  <2>. QED
    BY <2>1
<1>4. {c[k] : k \in 1 .. 3} = {"color", "screen", "segment"}
  <2>1. \A k \in 1 .. 3 : k = 1 \/ k = 2 \/ k = 3
    OBVIOUS
  <2>. QED
    BY <2>1
<1>5. {d[k] : k \in 1 .. 4} = {"ram_4", "write_4", "rom", "caos_c"}
  <2>1. \A k \in 1 .. 4 : k = 1 \/ k = 2 \/ k = 3 \/ k = 4
    OBVIOUS
  <2>. QED
    BY <2>1
<1>6. Fields["A"] = a /\ Fields["B"] = b /\ Fields["P84"] = c /\ Fields["P86"] = d
  BY FieldsAre
<1>. HIDE DEF a, b, c, d
<1>7. /\ Seqs!ToSet(Fields["A"]) = {"caos_e", "ram_0", "irm", "write_0", "basic"}
      /\ Seqs!ToSet(Fields["B"]) = {"ram_8", "write_8"}
      /\ Seqs!ToSet(Fields["P84"]) = {"color", "screen", "segment"}
      /\ Seqs!ToSet(Fields["P86"]) = {"ram_4", "write_4", "rom", "caos_c"}
  BY <1>1, <1>2, <1>3, <1>4, <1>5, <1>6 DEF Seqs!ToSet
<1>8. Field = Seqs!ToSet(Fields["A"]) \cup Seqs!ToSet(Fields["B"]) \cup Seqs!ToSet(Fields["P84"])
                \cup Seqs!ToSet(Fields["P86"])
  BY FieldsAre DEF Field
<1>9. Field = AllFields
  BY <1>7, <1>8 DEF AllFields
<1>10. \A p \in Ports : DOMAIN Fields[p] \subseteq 1 .. 5
  BY <1>1, <1>6, FieldsAre
<1>. QED
  BY <1>7, <1>9, <1>10

\* What the guest writes to a port has the values of its fields.
LEMMA OutputIs ==
  ASSUME NEW p \in Ports, NEW v \in Output[p]
  PROVE  /\ DOMAIN v = Seqs!ToSet(Fields[p])
         /\ \A f \in Seqs!ToSet(Fields[p]) : v[f] \in Value(f) /\ f \in AllFields
<1>1. CASE p = "A"
  <2>1. v \in [caos_e : BOOLEAN, ram_0 : BOOLEAN, irm : BOOLEAN, write_0 : BOOLEAN, basic : BOOLEAN]
    BY <1>1, Memory4Assumption
  <2>. QED
    BY <1>1, <2>1, FieldIs DEF Value, AllFields
<1>2. CASE p = "B"
  <2>1. v \in [ram_8 : BOOLEAN, write_8 : BOOLEAN]
    BY <1>2, Memory4Assumption
  <2>. QED
    BY <1>2, <2>1, FieldIs DEF Value, AllFields
<1>3. CASE p = "P84"
  <2>1. v \in [color : BOOLEAN, screen : BOOLEAN, segment : 0 .. 15]
    BY <1>3, Memory4Assumption
  <2>. QED
    BY <1>3, <2>1, FieldIs DEF Value, AllFields
<1>4. CASE p = "P86"
  <2>1. v \in [ram_4 : BOOLEAN, write_4 : BOOLEAN, rom : 0 .. 3, caos_c : BOOLEAN]
    BY <1>4, Memory4Assumption
  <2>. QED
    BY <1>4, <2>1, FieldIs DEF Value, AllFields
<1>. QED
  BY <1>1, <1>2, <1>3, <1>4, FieldsAre

\* The groups of the machine that are active; that are read-only.
Lit(g, w) ==
  /\ g[1] = "RAM_0" => w.ram_0
  /\ g[1] = "RAM_4" => w.ram_4
  /\ g[1] = "RAM_8" => w.ram_8 /\ g[2] = BlockOf(w.segment)
  /\ g[1] = "IRM" => w.irm /\ g[2] = Index(w)
  /\ g[1] = "IRM_X" => w.irm /\ g[2] = IF w.caos_c /\ ~w.caos_e THEN Index(w) ELSE 0
  /\ g[1] = "CAOS_C" => w.caos_c
  /\ g[1] = "CAOS_E" => w.caos_e
  /\ g[1] = "USER" => w.basic /\ g[2] = w.rom
Locked(g, w) ==
  \/ g \in ReadOnly
  \/ g[1] = "RAM_0" /\ ~w.write_0
  \/ g[1] = "RAM_4" /\ ~w.write_4
  \/ g[1] = "RAM_8" /\ ~w.write_8

\* The fields of Memory4 follow the settings.
Switches(sw, w) ==
  /\ DOMAIN sw = DOMAIN AtReset
  /\ sw.caos_c = w.caos_c /\ sw.caos_e = w.caos_e /\ sw.irm = w.irm
  /\ sw.color = w.color /\ sw.screen = w.screen /\ sw.ram_8 = w.ram_8
  /\ sw.block = BlockOf(w.segment) /\ sw.basic = w.basic /\ sw.rom = w.rom

\* gr is the group of the module in every slot, vl its control byte.
Lists(m, vl, gr) ==
  \A p \in Page :
    /\ Sorted(m.list[p])
    /\ \A g \in Onboard : g \in Rng(m.list[p]) <=> p \in PagesOf(g)
    /\ \A g \in Modules : g \in Rng(m.list[p])
                            <=> gr[g[1]] = g /\ p \in PagesFrom(vl[g[1]].base)
Lights(A, w, gr) ==
  /\ A \subseteq Group
  /\ \A g \in Onboard : g \in A <=> Lit(g, w)
  /\ \A g \in Modules : g \in A <=> gr[g[1]] = g
Guards(R, w, vl, gr) ==
  /\ R \subseteq Group
  /\ \A g \in Onboard : g \in R <=> Locked(g, w)
  /\ \A g \in Modules : g \in R <=> gr[g[1]] = g /\ ~vl[g[1]].we

Core(m, w, vl, gr) ==
  /\ IsMem(m) /\ Lists(m, vl, gr) /\ Lights(m.active, w, gr) /\ Guards(m.ro, w, vl, gr)
  /\ Switches(m.switch, w)

-----------------------------------------------------------------------------
(* Which groups the configuring operators light.                           *)
LEMMA IndexIs ==
  ASSUME NEW sw, NEW w, Setting(w), Switches(sw, w)
  PROVE  Index(sw) = Index(w) /\ Index(w) \in 0 .. 3
<1>1. w.screen \in BOOLEAN /\ w.color \in BOOLEAN
  BY DEF Setting, AllFields, Value
<1>. QED
  BY <1>1 DEF Index, Switches

LEMMA OnboardIs ==
  ASSUME NEW g \in Group
  PROVE  /\ g \in {IrmUpper(k) : k \in 0 .. 3} <=> g[1] = "IRM_X"
         /\ g \in {Irm(k) : k \in 0 .. 3} <=> g[1] = "IRM"
         /\ g \in {Ram8(b) : b \in Blocks} <=> g[1] = "RAM_8"
         /\ g \in {User(r) : r \in Roms} <=> g[1] = "USER"
         /\ g = <<"RAM_0", 0>> <=> g[1] = "RAM_0"
         /\ g = <<"RAM_4", 0>> <=> g[1] = "RAM_4"
         /\ g = <<"CAOS_C", 0>> <=> g[1] = "CAOS_C"
         /\ g = <<"CAOS_E", 0>> <=> g[1] = "CAOS_E"
         /\ g = Nothing <=> g[1] = "-"
<1>0. \A s \in SlotNames : s \notin Names
  BY SlotFacts
<1>1. /\ \A k : IrmUpper(k)[1] = "IRM_X" /\ IrmUpper(k)[2] = k
      /\ \A k : Irm(k)[1] = "IRM" /\ Irm(k)[2] = k
      /\ \A k : Ram8(k)[1] = "RAM_8" /\ Ram8(k)[2] = k
      /\ \A k : User(k)[1] = "USER" /\ User(k)[2] = k
  BY DEF IrmUpper, Irm, Ram8, User
<1>2. /\ <<"RAM_0", 0>>[1] = "RAM_0" /\ <<"RAM_4", 0>>[1] = "RAM_4"
      /\ <<"CAOS_C", 0>>[1] = "CAOS_C" /\ <<"CAOS_E", 0>>[1] = "CAOS_E"
      /\ Nothing[1] = "-"
  BY DEF Nothing
<1>3. g[1] = "IRM_X" => g[2] \in 0 .. 3 /\ g = IrmUpper(g[2])
  BY <1>0, GroupIs DEF Names
<1>4. g[1] = "IRM" => g[2] \in 0 .. 3 /\ g = Irm(g[2])
  BY <1>0, GroupIs DEF Names
<1>5. g[1] = "RAM_8" => g[2] \in Blocks /\ g = Ram8(g[2])
  BY <1>0, GroupIs DEF Names
<1>6. g[1] = "USER" => g[2] \in Roms /\ g = User(g[2])
  BY <1>0, GroupIs DEF Names
<1>7. /\ g[1] = "RAM_0" => g = <<"RAM_0", 0>>
      /\ g[1] = "RAM_4" => g = <<"RAM_4", 0>>
      /\ g[1] = "CAOS_C" => g = <<"CAOS_C", 0>>
      /\ g[1] = "CAOS_E" => g = <<"CAOS_E", 0>>
      /\ g[1] = "-" => g = Nothing
  BY <1>0, GroupIs DEF Names
<1>. QED
  BY <1>1, <1>2, <1>3, <1>4, <1>5, <1>6, <1>7

LEMMA SomeOnboard ==
  /\ {IrmUpper(k) : k \in 0 .. 3} \subseteq Onboard /\ {Irm(k) : k \in 0 .. 3} \subseteq Onboard
  /\ {Ram8(b) : b \in Blocks} \subseteq Onboard /\ {User(r) : r \in Roms} \subseteq Onboard
  /\ <<"RAM_0", 0>> \in Onboard /\ <<"RAM_4", 0>> \in Onboard
  /\ <<"CAOS_C", 0>> \in Onboard /\ <<"CAOS_E", 0>> \in Onboard /\ Nothing \in Onboard
  /\ Onboard \subseteq Group /\ Modules \subseteq Group
  /\ \A g \in Onboard : g[1] \in Names
  /\ \A g \in Modules : g[1] \in SlotNames /\ g[1] \notin Names
<1>1. \A g \in Modules : g[1] \in SlotNames /\ g[1] \notin Names
  BY SlotFacts DEF Modules, SlotNames
<1>2. \A g \in Onboard : g[1] \in Names
  <2>. SUFFICES ASSUME NEW g \in Onboard PROVE g[1] \in Names
    OBVIOUS
  <2>1. \A b : Ram8(b)[1] = "RAM_8" /\ User(b)[1] = "USER" /\ Irm(b)[1] = "IRM" /\ IrmUpper(b)[1] = "IRM_X"
    BY DEF Ram8, User, Irm, IrmUpper
  <2>2. Nothing[1] = "-"
    BY DEF Nothing
  <2>. QED
    BY <2>1, <2>2 DEF Onboard, Names
<1>. QED
  BY <1>1, <1>2 DEF Onboard, Group

\* In r the groups of the kind name follow w, and the others are as in m.
Relit(r, m, name, w) ==
  /\ ButActive(r, m) /\ r.active \subseteq Group
  /\ \A g \in Group : g \in r.active <=> IF g[1] = name THEN Lit(g, w) ELSE g \in m.active

LEMMA UpperLit ==
  ASSUME NEW m, NEW w, IsMem(m), Setting(w), Switches(m.switch, w), m.active \subseteq Group
  PROVE  Relit(ConfigureIRM(m), m, "IRM_X", w)
<1>. DEFINE i == IF m.switch.caos_e \/ ~m.switch.caos_c THEN 0 ELSE Index(m.switch)
            gs == {IrmUpper(k) : k \in 0 .. 3}
            lit == IF m.switch.irm THEN {IrmUpper(i)} ELSE {}
            r == SetActiveOf(m, gs, lit)
<1>1. ConfigureIRM(m) = r
  BY DEF ConfigureIRM
<1>2. /\ i = IF w.caos_c /\ ~w.caos_e THEN Index(w) ELSE 0
      /\ i \in 0 .. 3 /\ m.switch.irm = w.irm /\ w.irm \in BOOLEAN
  <2>1. w.caos_c \in BOOLEAN /\ w.caos_e \in BOOLEAN /\ w.irm \in BOOLEAN
    BY DEF Setting, AllFields, Value
  <2>2. Index(m.switch) = Index(w) /\ Index(w) \in 0 .. 3
    BY IndexIs
  <2>. QED
    BY <2>1, <2>2 DEF Switches
<1>. HIDE DEF i
<1>3. ButActive(r, m) /\ \A h : h \in r.active <=> IF h \in gs THEN h \in lit ELSE h \in m.active
  BY SetActiveOfIs
<1>4. ASSUME NEW g \in Group, g[1] = "IRM_X" PROVE g \in gs /\ (g \in lit <=> Lit(g, w))
  <2>1. g \in gs
    BY <1>4, OnboardIs
  <2>2. g = IrmUpper(i) <=> g[2] = i
    <3>1. PICK k \in 0 .. 3 : g = IrmUpper(k)
      BY <2>1
    <3>. QED
      BY <3>1 DEF IrmUpper
  <2>3. Lit(g, w) <=> w.irm /\ g[2] = i
    BY <1>2, <1>4 DEF Lit
  <2>. QED
    BY <1>2, <2>1, <2>2, <2>3
<1>5. \A g \in Group : g[1] # "IRM_X" => g \notin gs
  BY OnboardIs
<1>6. r.active \subseteq Group
  BY <1>3, SomeOnboard
<1>. HIDE DEF r, lit, gs
<1>. QED
  BY <1>1, <1>3, <1>4, <1>5, <1>6 DEF Relit

LEMMA LowerLit ==
  ASSUME NEW m, NEW w, IsMem(m), Setting(w), Switches(m.switch, w), m.active \subseteq Group
  PROVE  Relit(SetActiveOf(m, {Irm(k) : k \in 0 .. 3},
                           IF m.switch.irm THEN {Irm(Index(m.switch))} ELSE {}), m, "IRM", w)
<1>. DEFINE i == Index(m.switch)
            gs == {Irm(k) : k \in 0 .. 3}
            lit == IF m.switch.irm THEN {Irm(i)} ELSE {}
            r == SetActiveOf(m, gs, lit)
<1>2. i = Index(w) /\ m.switch.irm = w.irm /\ w.irm \in BOOLEAN
  <2>1. w.irm \in BOOLEAN
    BY DEF Setting, AllFields, Value
  <2>. QED
    BY <2>1, IndexIs DEF Switches
<1>. HIDE DEF i
<1>3. ButActive(r, m) /\ \A h : h \in r.active <=> IF h \in gs THEN h \in lit ELSE h \in m.active
  BY SetActiveOfIs
<1>4. ASSUME NEW g \in Group, g[1] = "IRM" PROVE g \in gs /\ (g \in lit <=> Lit(g, w))
  <2>1. g \in gs
    BY <1>4, OnboardIs
  <2>2. g = Irm(i) <=> g[2] = i
    <3>1. PICK k \in 0 .. 3 : g = Irm(k)
      BY <2>1
    <3>. QED
      BY <3>1 DEF Irm
  <2>3. Lit(g, w) <=> w.irm /\ g[2] = i
    BY <1>2, <1>4 DEF Lit
  <2>. QED
    BY <1>2, <2>1, <2>2, <2>3
<1>5. \A g \in Group : g[1] # "IRM" => g \notin gs
  BY OnboardIs
<1>6. r.active \subseteq Group
  BY <1>3, SomeOnboard
<1>7. r = SetActiveOf(m, {Irm(k) : k \in 0 .. 3},
                      IF m.switch.irm THEN {Irm(Index(m.switch))} ELSE {})
  BY DEF i
<1>. HIDE DEF r, lit, gs
<1>. QED
  BY <1>3, <1>4, <1>5, <1>6, <1>7 DEF Relit

\* A state that has been reloaded, lit again.
LEMMA ReloadLit ==
  ASSUME NEW r, NEW m, NEW name, NEW w, Relit(r, m, name, w)
  PROVE  Relit(Reload(r), m, name, w) /\ Pointers(Reload(r))
BY Reloads DEF Relit, ButActive

LEMMA Ram8Lit ==
  ASSUME NEW m, NEW w, IsMem(m), Setting(w), Switches(m.switch, w), m.active \subseteq Group
  PROVE  Relit(ConfigureRAM_8(m), m, "RAM_8", w) /\ Pointers(ConfigureRAM_8(m))
<1>. DEFINE i == m.switch.block
            gs == {Ram8(b) : b \in Blocks}
            lit == IF m.switch.ram_8 THEN {Ram8(i)} ELSE {}
            r == SetActiveOf(m, gs, lit)
<1>1. ConfigureRAM_8(m) = Reload(r)
  BY DEF ConfigureRAM_8
<1>2. i = BlockOf(w.segment) /\ m.switch.ram_8 = w.ram_8 /\ w.ram_8 \in BOOLEAN
  <2>1. w.ram_8 \in BOOLEAN
    BY DEF Setting, AllFields, Value
  <2>. QED
    BY <2>1 DEF Switches
<1>. HIDE DEF i
<1>3. ButActive(r, m) /\ \A h : h \in r.active <=> IF h \in gs THEN h \in lit ELSE h \in m.active
  BY SetActiveOfIs
<1>4. ASSUME NEW g \in Group, g[1] = "RAM_8" PROVE g \in gs /\ (g \in lit <=> Lit(g, w))
  <2>1. g \in gs
    BY <1>4, OnboardIs
  <2>2. g = Ram8(i) <=> g[2] = i
    <3>1. PICK k \in Blocks : g = Ram8(k)
      BY <2>1
    <3>. QED
      BY <3>1 DEF Ram8
  <2>3. Lit(g, w) <=> w.ram_8 /\ g[2] = i
    BY <1>2, <1>4 DEF Lit
  <2>. QED
    BY <1>2, <2>1, <2>2, <2>3
<1>5. \A g \in Group : g[1] # "RAM_8" => g \notin gs
  BY OnboardIs
<1>6. r.active \subseteq Group
  BY <1>3, SomeOnboard
<1>. HIDE DEF r, lit, gs
<1>7. Relit(r, m, "RAM_8", w)
  BY <1>3, <1>4, <1>5, <1>6 DEF Relit
<1>. QED
  BY <1>1, <1>7, ReloadLit

LEMMA UserLit ==
  ASSUME NEW m, NEW w, IsMem(m), Setting(w), Switches(m.switch, w), m.active \subseteq Group
  PROVE  Relit(ConfigureROM_C(m), m, "USER", w) /\ Pointers(ConfigureROM_C(m))
<1>. DEFINE i == m.switch.rom
            gs == {User(b) : b \in Roms}
            lit == IF m.switch.basic THEN {User(i)} ELSE {}
            r == SetActiveOf(m, gs, lit)
<1>1. ConfigureROM_C(m) = Reload(r)
  BY DEF ConfigureROM_C
<1>2. i = w.rom /\ m.switch.basic = w.basic /\ w.basic \in BOOLEAN
  <2>1. w.basic \in BOOLEAN
    BY DEF Setting, AllFields, Value
  <2>. QED
    BY <2>1 DEF Switches
<1>. HIDE DEF i
<1>3. ButActive(r, m) /\ \A h : h \in r.active <=> IF h \in gs THEN h \in lit ELSE h \in m.active
  BY SetActiveOfIs
<1>4. ASSUME NEW g \in Group, g[1] = "USER" PROVE g \in gs /\ (g \in lit <=> Lit(g, w))
  <2>1. g \in gs
    BY <1>4, OnboardIs
  <2>2. g = User(i) <=> g[2] = i
    <3>1. PICK k \in Roms : g = User(k)
      BY <2>1
    <3>. QED
      BY <3>1 DEF User
  <2>3. Lit(g, w) <=> w.basic /\ g[2] = i
    BY <1>2, <1>4 DEF Lit
  <2>. QED
    BY <1>2, <2>1, <2>2, <2>3
<1>5. \A g \in Group : g[1] # "USER" => g \notin gs
  BY OnboardIs
<1>6. r.active \subseteq Group
  BY <1>3, SomeOnboard
<1>. HIDE DEF r, lit, gs
<1>7. Relit(r, m, "USER", w)
  BY <1>3, <1>4, <1>5, <1>6 DEF Relit
<1>. QED
  BY <1>1, <1>7, ReloadLit

\* The group of a switch that is a group of its own.
LEMMA OneLit ==
  ASSUME NEW m, NEW w, IsMem(m), m.active \subseteq Group,
         NEW name \in {"RAM_0", "RAM_4", "CAOS_C", "CAOS_E"}, NEW v \in BOOLEAN,
         \A g \in Group : g[1] = name => (Lit(g, w) <=> v)
  PROVE  Relit(SetActive(m, <<name, 0>>, v), m, name, w)
<1>. DEFINE r == SetActive(m, <<name, 0>>, v)
<1>1. ButActive(r, m) /\ \A h : h \in r.active <=> IF h = <<name, 0>> THEN v ELSE h \in m.active
  BY SetActiveIs
<1>2. \A g \in Group : g = <<name, 0>> <=> g[1] = name
  BY OnboardIs
<1>3. <<name, 0>> \in Group
  BY SomeOnboard
<1>. HIDE DEF r
<1>4. r.active \subseteq Group
  BY <1>1, <1>3
<1>. QED
  BY <1>1, <1>2, <1>4 DEF Relit, r

-----------------------------------------------------------------------------
(* A field that changes.                                                   *)

\* The kinds of groups that a field lights.
LitBy(f) ==
  CASE f = "caos_e" -> {"CAOS_E", "IRM_X"}
    [] f = "caos_c" -> {"CAOS_C", "IRM_X"}
    [] f \in {"irm", "color", "screen"} -> {"IRM", "IRM_X"}
    [] f = "ram_0" -> {"RAM_0"}
    [] f = "ram_4" -> {"RAM_4"}
    [] f \in {"ram_8", "segment"} -> {"RAM_8"}
    [] f \in {"basic", "rom"} -> {"USER"}
    [] f \in {"write_0", "write_4", "write_8"} -> {}
Writes == {"write_0", "write_4", "write_8"}

LEMMA LitByIs ==
  /\ LitBy("caos_e") = {"CAOS_E", "IRM_X"} /\ LitBy("caos_c") = {"CAOS_C", "IRM_X"}
  /\ \A f \in {"irm", "color", "screen"} : LitBy(f) = {"IRM", "IRM_X"}
  /\ LitBy("ram_0") = {"RAM_0"} /\ LitBy("ram_4") = {"RAM_4"}
  /\ \A f \in {"ram_8", "segment"} : LitBy(f) = {"RAM_8"}
  /\ \A f \in {"basic", "rom"} : LitBy(f) = {"USER"}
  /\ \A f \in Writes : LitBy(f) = {}
BY DEF LitBy, Writes

LEMMA SameLit ==
  ASSUME NEW w, NEW u, NEW f \in AllFields, NEW v, Turned(w, u, f, v),
         NEW g, g[1] \notin LitBy(f)
  PROVE  Lit(g, w) <=> Lit(g, u)
<1>0. \A h \in AllFields : h # f => w[h] = u[h]
  BY DEF Turned
<1>1. \/ f = "caos_e" \/ f = "caos_c" \/ f \in {"irm", "color", "screen"}
      \/ f = "ram_0" \/ f = "ram_4" \/ f \in {"ram_8", "segment"}
      \/ f \in {"basic", "rom"} \/ f \in Writes
  BY DEF AllFields, Writes
<1>2. CASE f = "caos_e"
  BY <1>0, <1>2, LitByIs DEF Lit, AllFields, Index
<1>3. CASE f = "caos_c"
  BY <1>0, <1>3, LitByIs DEF Lit, AllFields, Index
<1>4. CASE f \in {"irm", "color", "screen"}
  BY <1>0, <1>4, LitByIs DEF Lit, AllFields, Index
<1>5. CASE f = "ram_0"
  BY <1>0, <1>5, LitByIs DEF Lit, AllFields, Index
<1>6. CASE f = "ram_4"
  BY <1>0, <1>6, LitByIs DEF Lit, AllFields, Index
<1>7. CASE f \in {"ram_8", "segment"}
  BY <1>0, <1>7, LitByIs DEF Lit, AllFields, Index
<1>8. CASE f \in {"basic", "rom"}
  BY <1>0, <1>8, LitByIs DEF Lit, AllFields, Index
<1>9. CASE f \in Writes
  BY <1>0, <1>9, LitByIs DEF Lit, AllFields, Index, Writes
<1>. QED
  BY <1>1, <1>2, <1>3, <1>4, <1>5, <1>6, <1>7, <1>8, <1>9

LEMMA SameLocked ==
  ASSUME NEW w, NEW u, NEW f \in AllFields, NEW v, Turned(w, u, f, v), f \notin Writes,
         NEW R, NEW vl, NEW gr, Guards(R, u, vl, gr)
  PROVE  Guards(R, w, vl, gr)
<1>1. w.write_0 = u.write_0 /\ w.write_4 = u.write_4 /\ w.write_8 = u.write_8
  BY DEF Turned, Writes, AllFields
<1>. QED
  BY <1>1 DEF Guards, Locked

\* The kinds of groups in N follow the new setting w, the others did not change.
Relights(r, m, N, w) ==
  /\ IsMem(r) /\ r.list = m.list /\ r.ro = m.ro /\ r.active \subseteq Group
  /\ \A g \in Group : g \in r.active <=> IF g[1] \in N THEN Lit(g, w) ELSE g \in m.active

LEMMA Relights1 ==
  ASSUME NEW r, NEW m, NEW name, NEW w, Relit(r, m, name, w)
  PROVE  Relights(r, m, {name}, w)
BY DEF Relit, Relights, ButActive

LEMMA Relights2 ==
  ASSUME NEW r, NEW s, NEW m, NEW a, NEW b, NEW w, Relit(s, m, a, w), Relit(r, s, b, w)
  PROVE  Relights(r, m, {a, b}, w)
BY DEF Relit, Relights, ButActive

LEMMA CoreKept ==
  ASSUME NEW m, NEW u, NEW vl, NEW gr, Core(m, u, vl, gr),
         NEW w, NEW f \in AllFields, NEW v, Turned(w, u, f, v), f \notin Writes,
         NEW r, Relights(r, m, LitBy(f), w), Switches(r.switch, w)
  PROVE  Core(r, w, vl, gr)
<1>1. Lists(r, vl, gr)
  BY DEF Core, Relights, Lists
<1>2. Guards(r.ro, w, vl, gr)
  BY SameLocked DEF Core, Relights
<1>3. \A g \in Onboard : g \in r.active <=> Lit(g, w)
  <2>. SUFFICES ASSUME NEW g \in Onboard PROVE g \in r.active <=> Lit(g, w)
    OBVIOUS
  <2>1. g \in Group
    BY SomeOnboard
  <2>2. CASE g[1] \in LitBy(f)
    BY <2>1, <2>2 DEF Relights
  <2>3. CASE g[1] \notin LitBy(f)
    BY <2>1, <2>3, SameLit DEF Relights, Core, Lights
  <2>. QED
    BY <2>2, <2>3
<1>4. \A g \in Modules : g \in r.active <=> gr[g[1]] = g
  <2>. SUFFICES ASSUME NEW g \in Modules PROVE g \in r.active <=> gr[g[1]] = g
    OBVIOUS
  <2>1. LitBy(f) \subseteq Names
    BY LitByIs DEF AllFields, Writes, Names
  <2>2. g \in Group /\ g[1] \notin LitBy(f)
    BY <2>1, SomeOnboard
  <2>. QED
    BY <2>2 DEF Relights, Core, Lights
<1>. QED
  BY <1>1, <1>2, <1>3, <1>4 DEF Core, Relights, Lights

\* The field of Memory4 is set.
LEMMA SwitchSet ==
  ASSUME NEW sw, NEW u, Switches(sw, u), NEW w, NEW f \in AllFields, NEW v, Turned(w, u, f, v)
  PROVE  /\ f # "segment" => Switches([k \in DOMAIN sw |-> IF k = f THEN v ELSE sw[k]], w)
         /\ f = "segment" => Switches([sw EXCEPT !.block = BlockOf(v)], w)
<1>1. DOMAIN AtReset = {"caos_c", "caos_e", "irm", "color", "screen", "ram_8", "block", "basic", "rom"}
  BY DEF AtReset
<1>2. DOMAIN sw = DOMAIN AtReset
  BY DEF Switches
<1>3. CASE f # "segment"
  <2>. DEFINE t == [k \in DOMAIN sw |-> IF k = f THEN v ELSE sw[k]]
  <2>1. DOMAIN t = DOMAIN AtReset /\ \A k \in DOMAIN sw : t[k] = IF k = f THEN v ELSE sw[k]
    BY <1>2
  <2>. HIDE DEF t
  <2>2. \A g \in AllFields : w[g] = IF g = f THEN v ELSE u[g]
    BY DEF Turned
  <2>3. w.segment = u.segment /\ t.block = sw.block
    <3>1. "segment" \in AllFields /\ "block" \notin AllFields
      BY DEF AllFields
    <3>2. "block" \in DOMAIN sw /\ "block" # f
      BY <1>1, <1>2, <3>1
    <3>. QED
      BY <1>3, <2>1, <2>2, <3>1, <3>2
  <2>4. \A k \in DOMAIN sw \ {"block"} : k \in AllFields /\ (sw[k] = u[k] => t[k] = w[k])
    <3>1. DOMAIN sw \ {"block"} \subseteq AllFields
      BY <1>1, <1>2 DEF AllFields
    <3>. QED
      BY <2>1, <2>2, <3>1
  <2>5. Switches(t, w)
    BY <1>1, <1>2, <2>1, <2>3, <2>4 DEF Switches
  <2>. QED
    BY <1>3, <2>5 DEF t
<1>4. CASE f = "segment"
  <2>. DEFINE t == [sw EXCEPT !.block = BlockOf(v)]
  <2>1. /\ DOMAIN t = DOMAIN AtReset /\ t.block = BlockOf(v)
        /\ \A k \in DOMAIN sw \ {"block"} : t[k] = sw[k]
    BY <1>1, <1>2
  <2>. HIDE DEF t
  <2>2. w.segment = v /\ \A g \in AllFields \ {"segment"} : w[g] = u[g]
    BY <1>4 DEF Turned, AllFields
  <2>3. \A k \in DOMAIN sw \ {"block"} : t[k] = sw[k] /\ w[k] = u[k]
    <3>1. DOMAIN sw \ {"block"} \subseteq AllFields \ {"segment"}
      BY <1>1, <1>2 DEF AllFields
    <3>. QED
      BY <2>1, <2>2, <3>1
  <2>4. Switches(t, w)
    BY <1>1, <1>2, <2>1, <2>2, <2>3 DEF Switches
  <2>. QED
    BY <1>4, <2>4 DEF t
<1>. QED
  BY <1>3, <1>4

\* A reloaded state keeps what has been lit.
LEMMA RelightsReload ==
  ASSUME NEW r, NEW m, NEW N, NEW w, Relights(r, m, N, w), NEW x, Switches(r.switch, x)
  PROVE  Relights(Reload(r), m, N, w) /\ Switches(Reload(r).switch, x) /\ Pointers(Reload(r))
BY Reloads DEF Relights, ButActive

\* Memory4 after one field has changed: the map is that of the new setting.
LEMMA ChangeOK ==
  ASSUME NEW m, NEW u, NEW vl, NEW gr, Core(m, u, vl, gr), Setting(u),
         NEW w, Setting(w), NEW f \in AllFields, NEW v \in Value(f), Turned(w, u, f, v)
  PROVE  Core(Change(m, f, v), w, vl, gr) /\ Pointers(Change(m, f, v))
<1>. DEFINE turned == [k \in DOMAIN m.switch |-> IF k = f THEN v ELSE m.switch[k]]
            sw == [m EXCEPT !.switch = turned]
            block == [m.switch EXCEPT !.block = BlockOf(v)]
            sb == [m EXCEPT !.switch = block]
            r == Change(m, f, v)
<1>1. /\ IsMem(m) /\ Lists(m, vl, gr) /\ Lights(m.active, u, gr) /\ Guards(m.ro, u, vl, gr)
      /\ Switches(m.switch, u) /\ m.active \subseteq Group
  BY DEF Core, Lights
<1>2. /\ f # "segment" => Switches(turned, w)
      /\ f = "segment" => Switches(block, w)
  BY <1>1, SwitchSet
<1>3. sw = [m EXCEPT !.switch = [k \in DOMAIN @ |-> IF k = f THEN v ELSE @[k]]]
  OBVIOUS
<1>4. sb = [m EXCEPT !.switch.block = BlockOf(v)]
  BY <1>1 DEF IsMem
<1>. HIDE DEF turned, block
<1>5. /\ IsMem(sw) /\ sw.list = m.list /\ sw.active = m.active /\ sw.ro = m.ro /\ sw.switch = turned
      /\ IsMem(sb) /\ sb.list = m.list /\ sb.active = m.active /\ sb.ro = m.ro /\ sb.switch = block
  BY <1>1, Switched
<1>. HIDE DEF sw, sb
<1>6. w[f] = v /\ (f \notin {"rom", "segment"} => v \in BOOLEAN)
  BY DEF Turned, Value
<1>7. ASSUME NEW x, f \notin Writes, Relights(x, m, LitBy(f), w), Switches(x.switch, w), r = Reload(x)
      PROVE  Core(r, w, vl, gr) /\ Pointers(r)
  <2>1. Relights(Reload(x), m, LitBy(f), w) /\ Switches(Reload(x).switch, w) /\ Pointers(Reload(x))
    BY <1>7, RelightsReload
  <2>2. Core(Reload(x), w, vl, gr)
    BY <1>7, <2>1, CoreKept
  <2>. QED
    BY <1>7, <2>1, <2>2
<1>8. ASSUME NEW x, NEW N, Relights(x, sw, N, w)
      PROVE  Relights(x, m, N, w)
  BY <1>5, <1>8 DEF Relights
<1>9. ASSUME NEW name \in {"CAOS_C", "CAOS_E"}, f \in {"caos_c", "caos_e"},
             f = "caos_c" <=> name = "CAOS_C", r = EnableCAOS(sw, name, v)
      PROVE  Core(r, w, vl, gr) /\ Pointers(r)
  <2>. DEFINE a == SetActive(sw, <<name, 0>>, v)
              b == ConfigureIRM(a)
  <2>1. r = Reload(b)
    BY <1>9 DEF EnableCAOS
  <2>2. \A g \in Group : g[1] = name => (Lit(g, w) <=> v)
    BY <1>6, <1>9 DEF Lit
  <2>3. Relit(a, sw, name, w)
    BY <1>1, <1>5, <1>6, <1>9, <2>2, OneLit
  <2>. HIDE DEF a
  <2>4. IsMem(a) /\ Switches(a.switch, w) /\ a.active \subseteq Group
    BY <1>2, <1>5, <1>9, <2>3 DEF Relit, ButActive
  <2>5. Relit(b, a, "IRM_X", w)
    BY <2>4, UpperLit
  <2>. HIDE DEF b
  <2>6. Relights(b, m, {name, "IRM_X"}, w) /\ Switches(b.switch, w)
    <3>1. Relights(b, sw, {name, "IRM_X"}, w)
      BY <2>3, <2>5, Relights2
    <3>2. b.switch = a.switch
      BY <2>5 DEF Relit, ButActive
    <3>. QED
      BY <1>8, <2>4, <3>1, <3>2
  <2>7. LitBy(f) = {name, "IRM_X"} /\ f \notin Writes
    BY <1>9, LitByIs DEF Writes
  <2>. QED
    BY <1>7, <2>1, <2>6, <2>7
<1>10. CASE f = "caos_e"
  <2>1. r = EnableCAOS(sw, "CAOS_E", v)
    BY <1>3, <1>10 DEF Change
  <2>. QED
    BY <1>9, <1>10, <2>1
<1>11. CASE f = "caos_c"
  <2>1. r = EnableCAOS(sw, "CAOS_C", v)
    BY <1>3, <1>11 DEF Change
  <2>. QED
    BY <1>9, <1>11, <2>1
<1>12. CASE f \in {"irm", "color", "screen"}
  <2>. DEFINE a == SetActiveOf(sw, {Irm(k) : k \in 0 .. 3},
                               IF sw.switch.irm THEN {Irm(Index(sw.switch))} ELSE {})
              b == ConfigureIRM(a)
  <2>0. Switches(sw.switch, w)
    BY <1>2, <1>5, <1>12
  <2>1. r = Reload(b)
    <3>1. r = EnableIRM(sw)
      BY <1>3, <1>12 DEF Change
    <3>. QED
      BY <3>1 DEF EnableIRM
  <2>2. Relit(a, sw, "IRM", w)
    BY <1>1, <1>5, <2>0, LowerLit
  <2>. HIDE DEF a
  <2>3. IsMem(a) /\ Switches(a.switch, w) /\ a.active \subseteq Group
    BY <2>0, <2>2 DEF Relit, ButActive
  <2>4. Relit(b, a, "IRM_X", w)
    BY <2>3, UpperLit
  <2>. HIDE DEF b
  <2>5. Relights(b, m, {"IRM", "IRM_X"}, w) /\ Switches(b.switch, w)
    <3>1. Relights(b, sw, {"IRM", "IRM_X"}, w)
      BY <2>2, <2>4, Relights2
    <3>2. b.switch = a.switch
      BY <2>4 DEF Relit, ButActive
    <3>. QED
      BY <1>8, <2>3, <3>1, <3>2
  <2>6. LitBy(f) = {"IRM", "IRM_X"} /\ f \notin Writes
    BY <1>12, LitByIs DEF Writes
  <2>. QED
    BY <1>7, <2>1, <2>5, <2>6
<1>13. ASSUME NEW name \in {"RAM_0", "RAM_4"}, f \in {"ram_0", "ram_4"},
              f = "ram_0" <=> name = "RAM_0", r = Reload(SetActive(m, <<name, 0>>, v))
       PROVE  Core(r, w, vl, gr) /\ Pointers(r)
  <2>. DEFINE a == SetActive(m, <<name, 0>>, v)
  <2>1. \A g \in Group : g[1] = name => (Lit(g, w) <=> v)
    BY <1>6, <1>13 DEF Lit
  <2>2. Relit(a, m, name, w)
    BY <1>1, <1>6, <1>13, <2>1, OneLit
  <2>. HIDE DEF a
  <2>3. Relights(a, m, {name}, w)
    BY <2>2, Relights1
  <2>4. LitBy(f) = {name} /\ f \notin Writes
    BY <1>13, LitByIs DEF Writes
  <2>5. Switches(a.switch, w)
    <3>1. a.switch = m.switch
      BY <2>2 DEF Relit, ButActive
    <3>2. f \notin DOMAIN AtReset /\ f # "segment"
      BY <1>13 DEF AtReset
    <3>3. \A k \in DOMAIN AtReset \ {"block"} : w[k] = u[k]
      <4>1. DOMAIN AtReset \ {"block"} \subseteq AllFields
        BY DEF AtReset, AllFields
      <4>. QED
        BY <3>2, <4>1 DEF Turned
    <3>4. w.segment = u.segment
      BY <3>2 DEF Turned, AllFields
    <3>5. DOMAIN AtReset = {"caos_c", "caos_e", "irm", "color", "screen", "ram_8", "block",
                            "basic", "rom"}
      BY DEF AtReset
    <3>. QED
      BY <1>1, <3>1, <3>3, <3>4, <3>5 DEF Switches
  <2>6. r = Reload(a)
    BY <1>13 DEF a
  <2>. QED
    BY <1>7, <2>3, <2>4, <2>5, <2>6
<1>14. CASE f = "ram_0"
  <2>1. r = Reload(SetActive(m, <<"RAM_0", 0>>, v))
    BY <1>14 DEF Change
  <2>. QED
    BY <1>13, <1>14, <2>1
<1>15. CASE f = "ram_4"
  <2>1. r = Reload(SetActive(m, <<"RAM_4", 0>>, v))
    BY <1>15 DEF Change
  <2>. QED
    BY <1>13, <1>15, <2>1
<1>16. ASSUME NEW name, Relit(r, sw, name, w) \/ Relit(r, sb, name, w), Pointers(r),
              LitBy(f) = {name}, f \notin Writes, Switches(r.switch, w)
       PROVE  Core(r, w, vl, gr) /\ Pointers(r)
  <2>1. Relights(r, m, {name}, w)
    BY <1>5, <1>16 DEF Relit, Relights, ButActive
  <2>. HIDE DEF r
  <2>. QED
    BY <1>16, <2>1, CoreKept
<1>17. CASE f = "ram_8"
  <2>1. r = ConfigureRAM_8(sw) /\ Switches(sw.switch, w)
    BY <1>2, <1>3, <1>5, <1>17 DEF Change
  <2>2. Relit(r, sw, "RAM_8", w) /\ Pointers(r)
    BY <1>1, <1>5, <2>1, Ram8Lit
  <2>3. r.switch = sw.switch /\ LitBy(f) = {"RAM_8"} /\ f \notin Writes
    BY <1>17, <2>2, LitByIs DEF Relit, ButActive, Writes
  <2>. QED
    BY <1>16, <2>1, <2>2, <2>3
<1>18. CASE f = "segment"
  <2>1. r = ConfigureRAM_8(sb) /\ Switches(sb.switch, w)
    BY <1>2, <1>4, <1>5, <1>18 DEF Change
  <2>2. Relit(r, sb, "RAM_8", w) /\ Pointers(r)
    BY <1>1, <1>5, <2>1, Ram8Lit
  <2>3. r.switch = sb.switch /\ LitBy(f) = {"RAM_8"} /\ f \notin Writes
    BY <1>18, <2>2, LitByIs DEF Relit, ButActive, Writes
  <2>. QED
    BY <1>16, <2>1, <2>2, <2>3
<1>19. CASE f \in {"basic", "rom"}
  <2>1. r = ConfigureROM_C(sw) /\ Switches(sw.switch, w)
    BY <1>2, <1>3, <1>5, <1>19 DEF Change
  <2>2. Relit(r, sw, "USER", w) /\ Pointers(r)
    BY <1>1, <1>5, <2>1, UserLit
  <2>3. r.switch = sw.switch /\ LitBy(f) = {"USER"} /\ f \notin Writes
    BY <1>19, <2>2, LitByIs DEF Relit, ButActive, Writes
  <2>. QED
    BY <1>16, <2>1, <2>2, <2>3
<1>20. ASSUME f \in Writes, NEW x, ButLocked(x, m), Guards(x.ro, w, vl, gr), r = Reload(x)
       PROVE  Core(r, w, vl, gr) /\ Pointers(r)
  <2>1. Lights(m.active, w, gr)
    <3>1. \A g : Lit(g, w) <=> Lit(g, u)
      BY <1>20, SameLit, LitByIs
    <3>. QED
      BY <1>1, <3>1 DEF Lights
  <2>2. Switches(m.switch, w)
    <3>1. f \notin DOMAIN AtReset /\ f # "segment"
      BY <1>20 DEF AtReset, Writes
    <3>2. \A k \in DOMAIN AtReset \ {"block"} : w[k] = u[k]
      <4>1. DOMAIN AtReset \ {"block"} \subseteq AllFields
        BY DEF AtReset, AllFields
      <4>. QED
        BY <3>1, <4>1 DEF Turned
    <3>3. w.segment = u.segment
      BY <3>1 DEF Turned, AllFields
    <3>4. DOMAIN AtReset = {"caos_c", "caos_e", "irm", "color", "screen", "ram_8", "block",
                            "basic", "rom"}
      BY DEF AtReset
    <3>. QED
      BY <1>1, <3>2, <3>3, <3>4 DEF Switches
  <2>. HIDE DEF r
  <2>3. /\ IsMem(r) /\ Pointers(r) /\ r.list = m.list /\ r.active = m.active /\ r.ro = x.ro
        /\ r.switch = m.switch
    BY <1>20, Reloads DEF ButActive, ButLocked
  <2>4. Lists(r, vl, gr)
    BY <1>1, <2>3 DEF Lists
  <2>. QED
    BY <1>20, <2>1, <2>2, <2>3, <2>4 DEF Core
<1>21. ASSUME NEW name \in {"RAM_0", "RAM_4"}, f \in {"write_0", "write_4"},
              f = "write_0" <=> name = "RAM_0", r = Reload(SetReadOnly(m, <<name, 0>>, ~v))
       PROVE  Core(r, w, vl, gr) /\ Pointers(r)
  <2>. DEFINE a == SetReadOnly(m, <<name, 0>>, ~v)
  <2>1. v \in BOOLEAN /\ (~v) \in BOOLEAN
    BY <1>6, <1>21
  <2>2. ButLocked(a, m) /\ \A h : h \in a.ro <=> IF h = <<name, 0>> THEN ~v ELSE h \in m.ro
    BY <1>1, <2>1, SetReadOnlyIs
  <2>. HIDE DEF a
  <2>3. \A g \in Group : g = <<name, 0>> <=> g[1] = name
    BY <1>21, OnboardIs
  <2>4. \A g \in Onboard : g[1] # name => (Locked(g, w) <=> Locked(g, u))
    BY <1>21 DEF Locked, Turned, AllFields
  <2>5. \A g \in Onboard : g[1] = name => (Locked(g, w) <=> ~v)
    <3>1. <<name, 0>> \notin ReadOnly
      <4>1. <<name, 0>>[1] = name
        OBVIOUS
      <4>. QED
        BY <1>21, <4>1 DEF ReadOnly, Nothing
    <3>. QED
      BY <1>6, <1>21, <2>3, <3>1, SomeOnboard DEF Locked
  <2>6. <<name, 0>> \in Onboard
    BY <1>21, SomeOnboard
  <2>7. Guards(a.ro, w, vl, gr)
    <3>1. a.ro \subseteq Group
      BY <1>1, <2>2, <2>6, SomeOnboard DEF Guards
    <3>2. \A g \in Onboard : g \in a.ro <=> Locked(g, w)
      BY <1>1, <2>2, <2>3, <2>4, <2>5, SomeOnboard DEF Guards
    <3>3. \A g \in Modules : g \in a.ro <=> g \in m.ro
      <4>1. name \in Names
        BY DEF Names
      <4>. QED
        BY <2>2, <2>3, <4>1, SomeOnboard
    <3>. QED
      BY <1>1, <3>1, <3>2, <3>3 DEF Guards
  <2>8. f \in Writes
    BY <1>21 DEF Writes
  <2>9. r = Reload(a)
    BY <1>21 DEF a
  <2>. QED
    BY <1>20, <2>2, <2>7, <2>8, <2>9
<1>22. CASE f = "write_0"
  <2>1. r = Reload(SetReadOnly(m, <<"RAM_0", 0>>, ~v))
    BY <1>22 DEF Change
  <2>. QED
    BY <1>21, <1>22, <2>1
<1>23. CASE f = "write_4"
  <2>1. r = Reload(SetReadOnly(m, <<"RAM_4", 0>>, ~v))
    BY <1>23 DEF Change
  <2>. QED
    BY <1>21, <1>23, <2>1
<1>24. CASE f = "write_8"
  <2>. DEFINE gs == {Ram8(b) : b \in Blocks}
              R == IF ~v THEN m.ro \cup gs ELSE m.ro \ gs
              a == [m EXCEPT !.ro = R]
  <2>1. r = Reload(a)
    <3>1. r = ProtectRAM_8(m, ~v)
      BY <1>24 DEF Change
    <3>. QED
      BY <3>1 DEF ProtectRAM_8
  <2>. HIDE DEF R
  <2>2. ButLocked(a, m) /\ a.ro = R
    BY <1>1, Locks
  <2>. HIDE DEF a
  <2>3. v \in BOOLEAN
    BY <1>6, <1>24
  <2>4. \A g \in Group : g \in gs <=> g[1] = "RAM_8"
    BY OnboardIs
  <2>5. \A g \in Onboard : g[1] # "RAM_8" => (Locked(g, w) <=> Locked(g, u))
    BY <1>24 DEF Locked, Turned, AllFields
  <2>6. \A g \in Onboard : g[1] = "RAM_8" => (Locked(g, w) <=> ~v)
    <3>1. \A g \in ReadOnly : g[1] # "RAM_8"
      BY DEF ReadOnly, Nothing
    <3>. QED
      BY <1>6, <1>24, <3>1 DEF Locked
  <2>7. gs \subseteq Onboard
    BY SomeOnboard
  <2>. HIDE DEF gs
  <2>8. \A g \in Group : g \in R <=> IF g[1] = "RAM_8" THEN ~v ELSE g \in m.ro
    BY <2>3, <2>4 DEF R
  <2>9. R \subseteq Group
    BY <1>1, <2>7, SomeOnboard DEF R, Guards
  <2>10. Guards(R, w, vl, gr)
    <3>2. \A g \in Onboard : g \in R <=> Locked(g, w)
      BY <1>1, <2>5, <2>6, <2>8, SomeOnboard DEF Guards
    <3>3. \A g \in Modules : g \in R <=> g \in m.ro
      <4>1. "RAM_8" \in Names
        BY DEF Names
      <4>. QED
        BY <2>8, <4>1, SomeOnboard
    <3>. QED
      BY <1>1, <2>9, <3>2, <3>3 DEF Guards
  <2>11. f \in Writes
    BY <1>24 DEF Writes
  <2>. QED
    BY <1>20, <2>1, <2>2, <2>10, <2>11
<1>25. \/ f = "caos_e" \/ f = "caos_c" \/ f \in {"irm", "color", "screen"}
       \/ f = "ram_0" \/ f = "ram_4" \/ f = "ram_8" \/ f = "segment"
       \/ f \in {"basic", "rom"} \/ f = "write_0" \/ f = "write_4" \/ f = "write_8"
  BY DEF AllFields
<1>. QED
  BY <1>10, <1>11, <1>12, <1>14, <1>15, <1>17, <1>18, <1>19, <1>22, <1>23, <1>24, <1>25

\* The k-th of the fields of a port: the setting after it.
After(u, p, v, k) ==
  [f \in AllFields |-> IF k \in DOMAIN Fields[p] /\ f = Fields[p][k] /\ f \in Changed(p, v)
                       THEN v[f] ELSE u[f]]

LEMMA TurnOK ==
  ASSUME NEW m, NEW u, NEW vl, NEW gr, Core(m, u, vl, gr), Setting(u),
         NEW p \in Ports, NEW v \in Output[p], NEW k \in 1 .. 5
  PROVE  /\ Setting(After(u, p, v, k)) /\ Core(Turn(m, p, v, k), After(u, p, v, k), vl, gr)
         /\ Pointers(m) => Pointers(Turn(m, p, v, k))
<1>. DEFINE w == After(u, p, v, k)
            f == Fields[p][k]
<1>1. CASE k \in DOMAIN Fields[p] /\ f \in Changed(p, v)
  <2>1. f \in AllFields /\ v[f] \in Value(f)
    <3>1. f \in Seqs!ToSet(Fields[p])
      BY <1>1 DEF Changed
    <3>. QED
      BY <3>1, OutputIs
  <2>2. \A g \in AllFields : w[g] = IF g = f THEN v[f] ELSE u[g]
    BY <1>1 DEF After
  <2>3. w = [g \in AllFields |-> w[g]]
    BY DEF After
  <2>4. Turn(m, p, v, k) = Change(m, f, v[f])
    BY <1>1 DEF Turn
  <2>. HIDE DEF w, f
  <2>5. Setting(w) /\ Turned(w, u, f, v[f])
    BY <2>1, <2>2, <2>3 DEF Setting, Turned
  <2>6. Core(Change(m, f, v[f]), w, vl, gr) /\ Pointers(Change(m, f, v[f]))
    BY <2>1, <2>5, ChangeOK
  <2>. QED
    BY <2>4, <2>5, <2>6 DEF w
<1>2. CASE ~(k \in DOMAIN Fields[p] /\ f \in Changed(p, v))
  <2>1. Turn(m, p, v, k) = m
    BY <1>2 DEF Turn
  <2>2. w = [g \in AllFields |-> u[g]]
    BY <1>2 DEF After
  <2>3. w = u
    BY <2>2 DEF Setting
  <2>. QED
    BY <2>1, <2>3
<1>. QED
  BY <1>1, <1>2

\* What the control byte of a module can be.
Byte == [on : BOOLEAN, we : BOOLEAN, base : {"0000", "4000", "8000", "c000"}, segment : 0 .. 15]

LatchOK == latch = [p \in Ports |-> latch[p]]
           /\ \A p \in Ports : latch[p] = Empty \/ DOMAIN latch[p] = Seqs!ToSet(Fields[p])
SlotsAre(vl, gr) ==
  /\ vl \in [SlotNames -> {Empty} \cup Byte] /\ gr = [s \in SlotNames |-> gr[s]]
  /\ \A s \in SlotNames :
       gr[s] = IF vl[s] # Empty /\ Shows(s, vl[s]) THEN <<s, vl[s].segment>> ELSE Empty

\* The invariant of the memory.
MapInv ==
  /\ Core(State, set, val, group) /\ Pointers(State) /\ Setting(set)
  /\ SlotsAre(val, group) /\ LatchOK

LEMMA Follows ==
  ASSUME NEW m, NEW w, NEW vl, NEW gr, Core(m, w, vl, gr), Pointers(m), Becomes(m),
         Setting(w), SlotsAre(vl, gr), set' = w, val' = vl, group' = gr, LatchOK'
  PROVE  MapInv'
<1>1. State' = m
  <2>1. m = [list |-> m.list, active |-> m.active, ro |-> m.ro, read |-> m.read,
             write |-> m.write, switch |-> m.switch]
    BY DEF Core, IsMem
  <2>2. State' = [list |-> list', active |-> active', ro |-> ro', read |-> read',
                  write |-> write', switch |-> switch']
    BY DEF State
  <2>3. /\ list' = m.list /\ active' = m.active /\ ro' = m.ro
        /\ read' = m.read /\ write' = m.write /\ switch' = m.switch
    BY DEF Becomes
  <2>. QED
    BY <2>1, <2>2, <2>3
<1>. QED
  BY <1>1 DEF MapInv

\* The guest writes to a port.
LEMMA OutStep ==
  ASSUME MapInv, NEW p \in Ports, NEW v \in Output[p], Out(p, v)
  PROVE  MapInv'
<1>. DEFINE w1 == After(set, p, v, 1)
            w2 == After(w1, p, v, 2)
            w3 == After(w2, p, v, 3)
            w4 == After(w3, p, v, 4)
            w5 == After(w4, p, v, 5)
            m1 == Turn(State, p, v, 1)
            m2 == Turn(m1, p, v, 2)
            m3 == Turn(m2, p, v, 3)
            m4 == Turn(m3, p, v, 4)
            m5 == Turn(m4, p, v, 5)
<1>1. /\ latch' = [latch EXCEPT ![p] = v] /\ Becomes(m5)
      /\ set' = [f \in Field |-> IF f \in Changed(p, v) THEN v[f] ELSE set[f]]
      /\ val' = val /\ group' = group
  BY DEF Out
<1>. HIDE DEF m1, m2, m3, m4, m5, w1, w2, w3, w4, w5
<1>2. Core(m1, w1, val, group) /\ Setting(w1) /\ Pointers(m1)
  BY TurnOK DEF MapInv, m1, w1
<1>3. Core(m2, w2, val, group) /\ Setting(w2) /\ Pointers(m2)
  BY <1>2, TurnOK DEF m2, w2
<1>4. Core(m3, w3, val, group) /\ Setting(w3) /\ Pointers(m3)
  BY <1>3, TurnOK DEF m3, w3
<1>5. Core(m4, w4, val, group) /\ Setting(w4) /\ Pointers(m4)
  BY <1>4, TurnOK DEF m4, w4
<1>6. Core(m5, w5, val, group) /\ Setting(w5) /\ Pointers(m5)
  BY <1>5, TurnOK DEF m5, w5
<1>7. ASSUME NEW f \in AllFields
      PROVE  w5[f] = IF f \in Changed(p, v) THEN v[f] ELSE set[f]
  <2>1. CASE f \notin Changed(p, v)
    BY <2>1 DEF w1, w2, w3, w4, w5, After
  <2>2. CASE f \in Changed(p, v)
    <3>1. PICK k \in DOMAIN Fields[p] : f = Fields[p][k]
      BY <2>2 DEF Changed, Seqs!ToSet
    <3>2. k = 1 \/ k = 2 \/ k = 3 \/ k = 4 \/ k = 5
      <4>1. k \in 1 .. 5
        BY FieldIs
      <4>. QED
        BY <4>1
    <3>3. k = 1 => w1[f] = v[f]
      BY <2>2, <3>1 DEF w1, After
    <3>4. k = 2 \/ w1[f] = v[f] => w2[f] = v[f]
      BY <2>2, <3>1 DEF w2, After
    <3>5. k = 3 \/ w2[f] = v[f] => w3[f] = v[f]
      BY <2>2, <3>1 DEF w3, After
    <3>6. k = 4 \/ w3[f] = v[f] => w4[f] = v[f]
      BY <2>2, <3>1 DEF w4, After
    <3>7. k = 5 \/ w4[f] = v[f] => w5[f] = v[f]
      BY <2>2, <3>1 DEF w5, After
    <3>. QED
      BY <2>2, <3>2, <3>3, <3>4, <3>5, <3>6, <3>7
  <2>. QED
    BY <2>1, <2>2
<1>8. set' = w5
  <2>1. w5 = [f \in AllFields |-> w5[f]]
    BY <1>6 DEF Setting
  <2>2. set' = [f \in AllFields |-> IF f \in Changed(p, v) THEN v[f] ELSE set[f]]
    BY <1>1, FieldIs
  <2>. QED
    BY <1>7, <2>1, <2>2
<1>9. LatchOK'
  <2>1. latch' = [latch EXCEPT ![p] = v] /\ DOMAIN v = Seqs!ToSet(Fields[p]) /\ LatchOK
    BY <1>1, OutputIs DEF MapInv
  <2>2. /\ latch' = [q \in Ports |-> latch'[q]]
        /\ \A q \in Ports : latch'[q] = Empty \/ DOMAIN latch'[q] = Seqs!ToSet(Fields[q])
    BY <2>1 DEF LatchOK
  <2>. QED
    BY <2>2 DEF LatchOK
<1>10. SlotsAre(val, group)
  BY DEF MapInv
<1>. QED
  BY <1>1, <1>6, <1>8, <1>9, <1>10, Follows

-----------------------------------------------------------------------------
(* Memory4::reset.                                                         *)
\* Setting w agrees with SetAtReset but for the write protection.
ResetTo(w) == Setting(w) /\ \A f \in AllFields \ Writes : w[f] = SetAtReset[f]

LEMMA AtResetIs ==
  /\ DOMAIN AtReset = {"caos_c", "caos_e", "irm", "color", "screen", "ram_8", "block", "basic", "rom"}
  /\ AtReset["rom"] = 3 /\ AtReset["block"] = 0
  /\ \A f \in DOMAIN AtReset \ {"block", "rom"} : AtReset[f] \in BOOLEAN
  /\ \A f \in DOMAIN AtReset \ {"block"} : f \in AllFields \ Writes /\ SetAtReset[f] = AtReset[f]
  /\ SetAtReset["segment"] = 2
  /\ \A f \in Writes \cup {"ram_0", "ram_4"} : SetAtReset[f] = TRUE
<1>1. DOMAIN AtReset = {"caos_c", "caos_e", "irm", "color", "screen", "ram_8", "block", "basic", "rom"}
  BY DEF AtReset
<1>2. AtReset["rom"] = 3 /\ AtReset["block"] = 0
  BY DEF AtReset
<1>3. \A f \in DOMAIN AtReset \ {"block", "rom"} : AtReset[f] \in BOOLEAN
  <2>1. /\ AtReset["caos_c"] = FALSE /\ AtReset["caos_e"] = TRUE /\ AtReset["irm"] = TRUE
        /\ AtReset["color"] = FALSE /\ AtReset["screen"] = FALSE /\ AtReset["ram_8"] = TRUE
        /\ AtReset["basic"] = FALSE
    BY DEF AtReset
  <2>. QED
    BY <1>1, <2>1
<1>4. ASSUME NEW f \in AllFields
      PROVE  SetAtReset[f] =
               CASE f \in DOMAIN AtReset -> AtReset[f]
                 [] f = "segment" -> 2
                 [] f \in {"ram_0", "ram_4", "write_0", "write_4", "write_8"} -> TRUE
  BY FieldIs DEF SetAtReset
<1>5. \A f \in DOMAIN AtReset \ {"block"} :
        /\ f \in AllFields \ Writes /\ f # "segment"
        /\ f \notin {"ram_0", "ram_4", "write_0", "write_4", "write_8"}
  BY <1>1 DEF AllFields, Writes
<1>6. \A f \in DOMAIN AtReset \ {"block"} : SetAtReset[f] = AtReset[f]
  BY <1>4, <1>5
<1>7. SetAtReset["segment"] = 2
  <2>1. "segment" \in AllFields /\ "segment" \notin DOMAIN AtReset
    BY <1>1 DEF AllFields
  <2>. QED
    BY <1>4, <2>1
<1>8. \A f \in Writes \cup {"ram_0", "ram_4"} : SetAtReset[f] = TRUE
  <2>1. \A f \in Writes \cup {"ram_0", "ram_4"} :
          /\ f \in AllFields /\ f \notin DOMAIN AtReset /\ f # "segment"
          /\ f \in {"ram_0", "ram_4", "write_0", "write_4", "write_8"}
    BY <1>1 DEF AllFields, Writes
  <2>. QED
    BY <1>4, <2>1
<1>. QED
  BY <1>1, <1>2, <1>3, <1>5, <1>6, <1>7, <1>8

LEMMA ResetValues == \A f \in AllFields : SetAtReset[f] \in Value(f)
<1>. SUFFICES ASSUME NEW f \in AllFields PROVE SetAtReset[f] \in Value(f)
  OBVIOUS
<1>1. \/ f \in DOMAIN AtReset \ {"block", "rom"} \/ f = "rom" \/ f = "segment"
      \/ f \in Writes \cup {"ram_0", "ram_4"}
  BY AtResetIs DEF AllFields, Writes
<1>2. CASE f \in DOMAIN AtReset \ {"block", "rom"}
  <2>1. f # "segment" /\ f # "rom"
    BY <1>2, AtResetIs
  <2>. QED
    BY <1>2, <2>1, AtResetIs DEF Value
<1>3. CASE f = "rom"
  <2>1. SetAtReset["rom"] = 3
    BY AtResetIs
  <2>. QED
    BY <1>3, <2>1 DEF Value
<1>4. CASE f = "segment"
  BY <1>4, AtResetIs DEF Value
<1>5. CASE f \in Writes \cup {"ram_0", "ram_4"}
  BY <1>5, AtResetIs DEF Value, Writes
<1>. QED
  BY <1>1, <1>2, <1>3, <1>4, <1>5

LEMMA ResetIs ==
  ASSUME NEW w, ResetTo(w)
  PROVE  /\ w.caos_c = FALSE /\ w.caos_e = TRUE /\ w.irm = TRUE /\ w.color = FALSE
         /\ w.screen = FALSE /\ w.ram_8 = TRUE /\ w.basic = FALSE /\ w.rom = 3
         /\ w.segment = 2 /\ w.ram_0 = TRUE /\ w.ram_4 = TRUE
         /\ BlockOf(w.segment) = 0 /\ Index(w) = 0
         /\ Switches(AtReset, w)
<1>1. DOMAIN AtReset = {"caos_c", "caos_e", "irm", "color", "screen", "ram_8", "block", "basic", "rom"}
  BY DEF AtReset
<1>2. \A f \in DOMAIN AtReset \ {"block"} : w[f] = AtReset[f]
  BY AtResetIs DEF ResetTo
<1>3. w.segment = 2 /\ w.ram_0 = TRUE /\ w.ram_4 = TRUE
  BY AtResetIs DEF ResetTo, AllFields, Writes
<1>4. /\ w.caos_c = FALSE /\ w.caos_e = TRUE /\ w.irm = TRUE /\ w.color = FALSE
      /\ w.screen = FALSE /\ w.ram_8 = TRUE /\ w.basic = FALSE /\ w.rom = 3
  BY <1>1, <1>2 DEF AtReset
<1>5. BlockOf(w.segment) = 0 /\ Index(w) = 0
  BY <1>3, <1>4 DEF BlockOf, Index
<1>6. AtReset.block = 0
  BY DEF AtReset
<1>. QED
  BY <1>1, <1>2, <1>3, <1>4, <1>5, <1>6 DEF Switches

LEMMA ResetLit ==
  ASSUME NEW w, ResetTo(w), NEW g \in Onboard
  PROVE  Lit(g, w) <=> g \in ActiveAtReset
<1>1. g \in Group /\ g[1] \in Names
  BY SomeOnboard
<1>2. ActiveAtReset \subseteq Onboard /\ ActiveAtReset \subseteq Group
  BY SlotFacts, SomeOnboard DEF ActiveAtReset
<1>3. /\ g = Ram8(0) <=> g[1] = "RAM_8" /\ g[2] = 0
      /\ g = Irm(0) <=> g[1] = "IRM" /\ g[2] = 0
      /\ g = IrmUpper(0) <=> g[1] = "IRM_X" /\ g[2] = 0
  <2>1. /\ g[1] = "RAM_8" => \E b \in Blocks : g = Ram8(b)
        /\ g[1] = "IRM" => \E b \in 0 .. 3 : g = Irm(b)
        /\ g[1] = "IRM_X" => \E b \in 0 .. 3 : g = IrmUpper(b)
    BY <1>1, OnboardIs
  <2>2. /\ \A b : Ram8(b)[1] = "RAM_8" /\ Ram8(b)[2] = b
        /\ \A b : Irm(b)[1] = "IRM" /\ Irm(b)[2] = b
        /\ \A b : IrmUpper(b)[1] = "IRM_X" /\ IrmUpper(b)[2] = b
    BY DEF Ram8, Irm, IrmUpper
  <2>. QED
    BY <2>1, <2>2
<1>4. g \in ActiveAtReset <=>
        \/ g[1] = "-" \/ g[1] = "RAM_0" \/ g[1] = "RAM_4" \/ g[1] = "CAOS_E"
        \/ g[1] = "RAM_8" /\ g[2] = 0
        \/ g[1] = "IRM" /\ g[2] = 0
        \/ g[1] = "IRM_X" /\ g[2] = 0
  BY <1>1, <1>3, OnboardIs, Zenon DEF ActiveAtReset
<1>5. Lit(g, w) <=>
        /\ g[1] = "RAM_8" => g[2] = 0
        /\ g[1] = "IRM" => g[2] = 0
        /\ g[1] = "IRM_X" => g[2] = 0
        /\ g[1] # "CAOS_C" /\ g[1] # "USER"
  BY ResetIs DEF Lit
<1>. QED
  BY <1>1, <1>4, <1>5 DEF Names

LEMMA ResetOK ==
  ASSUME NEW m, IsMem(m), NEW w, ResetTo(w), NEW vl, NEW gr, Lists(m, vl, gr),
         m.active \subseteq Group, \A g \in Modules : g \in m.active <=> gr[g[1]] = g,
         Guards(m.ro, w, vl, gr)
  PROVE  Core(ResetMemory(m), w, vl, gr) /\ Pointers(ResetMemory(m))
<1>. DEFINE A == (m.active \ Onboard) \cup ActiveAtReset
            a == [m EXCEPT !.switch = AtReset]
            b == [a EXCEPT !.active = A]
            r == Reload(b)
<1>1. [m EXCEPT !.switch = AtReset, !.active = (@ \ Onboard) \cup ActiveAtReset] = b
  BY DEF IsMem
<1>2. ResetMemory(m) = r
  BY <1>1 DEF ResetMemory
<1>. HIDE DEF A
<1>3. IsMem(a) /\ a.list = m.list /\ a.active = m.active /\ a.ro = m.ro /\ a.switch = AtReset
  BY Switched
<1>. HIDE DEF a
<1>4. ButActive(b, a) /\ b.active = A
  BY <1>3, Activates
<1>. HIDE DEF b
<1>5. /\ IsMem(r) /\ Pointers(r) /\ r.list = m.list /\ r.active = A /\ r.ro = m.ro
      /\ r.switch = AtReset
  BY <1>3, <1>4, Reloads DEF ButActive
<1>6. Lights(A, w, gr)
  <2>1. ActiveAtReset \subseteq Onboard
    BY SlotFacts, SomeOnboard DEF ActiveAtReset
  <2>2. \A g \in Modules : g \notin Onboard
    BY SomeOnboard
  <2>. QED
    BY <2>1, <2>2, ResetLit, SomeOnboard DEF Lights, A
<1>7. Switches(AtReset, w)
  BY ResetIs
<1>8. Lists(r, vl, gr)
  BY <1>5 DEF Lists
<1>. HIDE DEF r
<1>9. Core(r, w, vl, gr)
  BY <1>5, <1>6, <1>7, <1>8 DEF Core
<1>. QED
  BY <1>2, <1>5, <1>9

LEMMA ResetStep ==
  ASSUME MapInv, Reset
  PROVE  MapInv'
<1>1. /\ Becomes(ResetMemory(State))
      /\ latch' = [p \in Ports |-> IF p \in {"A", "B"} /\ latch[p] # Empty
                                     THEN [f \in DOMAIN latch[p] |-> FALSE] ELSE latch[p]]
      /\ set' = [f \in Field |-> IF f \in Writes THEN set[f] ELSE SetAtReset[f]]
      /\ val' = val /\ group' = group
  BY DEF Reset, Writes
<1>2. Core(State, set, val, group) /\ Setting(set) /\ SlotsAre(val, group) /\ LatchOK
  BY DEF MapInv
<1>3. LatchOK'
  <2>1. latch' = [p \in Ports |-> latch'[p]]
    BY <1>1
  <2>2. ASSUME NEW p \in Ports PROVE latch'[p] = Empty \/ DOMAIN latch'[p] = Seqs!ToSet(Fields[p])
    BY <1>1, <1>2 DEF LatchOK
  <2>. QED
    BY <2>1, <2>2 DEF LatchOK
<1>. DEFINE w == [f \in AllFields |-> IF f \in Writes THEN set[f] ELSE SetAtReset[f]]
<1>4. set' = w
  BY <1>1, FieldIs
<1>5. ResetTo(w)
  <2>1. \A f \in AllFields \ Writes : SetAtReset[f] \in Value(f)
    BY ResetValues
  <2>2. \A f \in AllFields : w[f] \in Value(f)
    BY <1>2, <2>1 DEF Setting
  <2>3. \A f \in AllFields \ Writes : w[f] = SetAtReset[f]
    OBVIOUS
  <2>. HIDE DEF w
  <2>4. w = [f \in AllFields |-> w[f]]
    BY DEF w
  <2>. QED
    BY <2>2, <2>3, <2>4 DEF ResetTo, Setting
<1>6. w.write_0 = set.write_0 /\ w.write_4 = set.write_4 /\ w.write_8 = set.write_8
  BY DEF Writes, AllFields
<1>. HIDE DEF w
<1>7. Guards(ro, w, val, group) /\ State.ro = ro
  BY <1>2, <1>6 DEF Core, State, Guards, Locked
<1>8. Core(ResetMemory(State), w, val, group) /\ Pointers(ResetMemory(State))
  BY <1>2, <1>5, <1>7, ResetOK DEF Core, Lights
<1>. QED
  BY <1>1, <1>2, <1>3, <1>4, <1>5, <1>8, Follows DEF ResetTo

-----------------------------------------------------------------------------
(* The memory of the modules.                                              *)
LEMMA ModuleIs ==
  ASSUME NEW g \in Modules
  PROVE  /\ g \in Group /\ g \notin Onboard /\ g # Empty
         /\ g[1] \in SlotNames /\ g[2] \in 0 .. 15 /\ g = <<g[1], g[2]>>
         /\ g[1] # "USER" /\ Prio(g) # 2
<1>1. /\ g \in Group /\ g \notin Onboard /\ g[1] \in SlotNames /\ g[1] \notin Names
  BY SomeOnboard
<1>2. g[2] \in 0 .. 15 /\ g = <<g[1], g[2]>>
  BY DEF Modules
<1>3. g # Empty
  <2>1. PICK s \in DOMAIN Slots, n \in 0 .. 15 : g = <<s, n>>
    BY DEF Modules
  <2>. QED
    BY <2>1 DEF Empty
<1>4. Prio(g) # 2
  <2>1. Prio(g) = IF Slots[g[1]] = "ram" THEN Address[g[1]] ELSE 16
    BY <1>1, PrioByName, OnboardIs DEF Names
  <2>. QED
    BY <1>1, <2>1, SlotFacts
<1>. QED
  BY <1>1, <1>2, <1>3, <1>4 DEF Names

\* Memory::unregister_memory of the group of slot s.
LEMMA UnregisterOK ==
  ASSUME NEW m, NEW w, NEW vl, NEW gr, Core(m, w, vl, gr), gr = [s \in SlotNames |-> gr[s]],
         NEW s \in SlotNames, NEW g \in Modules, gr[s] = g, g[1] = s
  PROVE  /\ Core(Unregister(m, g), w, vl, [gr EXCEPT ![s] = Empty])
         /\ Pointers(Unregister(m, g))
<1>. DEFINE L == [p \in Page |-> Removed(m.list[p], g)]
            A == m.active \ {g}
            R == m.ro \ {g}
            a == [m EXCEPT !.list = L, !.active = A, !.ro = R]
            r == Reload(a)
            new == [gr EXCEPT ![s] = Empty]
<1>1. Unregister(m, g) = r
  BY DEF Unregister
<1>2. \A p \in Page : L[p] = Removed(m.list[p], g)
  OBVIOUS
<1>3. \A h : (h \in A <=> h \in m.active /\ h # g) /\ (h \in R <=> h \in m.ro /\ h # g)
  OBVIOUS
<1>. HIDE DEF L, A, R
<1>4. a = [m EXCEPT !.list = L, !.active = A, !.ro = R]
  OBVIOUS
<1>. HIDE DEF a
<1>5. PICK x1, x2, x3, x4, x5, x6 : m = [list |-> x1, active |-> x2, ro |-> x3, read |-> x4,
                                         write |-> x5, switch |-> x6]
  BY DEF Core, IsMem
<1>6. a = [list |-> L, active |-> A, ro |-> R, read |-> x4, write |-> x5, switch |-> x6]
  BY <1>4, <1>5
<1>7. IsMem(a) /\ a.list = L /\ a.active = A /\ a.ro = R /\ a.switch = m.switch
  BY <1>5, <1>6 DEF IsMem
<1>8. /\ IsMem(r) /\ Pointers(r) /\ r.list = L /\ r.active = A /\ r.ro = R /\ r.switch = m.switch
  BY <1>7, Reloads DEF ButActive
<1>. HIDE DEF r
<1>9. \A h \in Modules : h # g => (h[1] = s => gr[h[1]] # h) /\ (h[1] # s => new[h[1]] = gr[h[1]])
  <2>. SUFFICES ASSUME NEW h \in Modules, h # g
                PROVE  (h[1] = s => gr[h[1]] # h) /\ (h[1] # s => new[h[1]] = gr[h[1]])
    OBVIOUS
  <2>1. h[1] \in SlotNames
    BY ModuleIs
  <2>. QED
    BY <2>1
<1>10. new[s] = Empty /\ \A h \in Modules : h # Empty
  BY ModuleIs
<1>. HIDE DEF new
<1>11. \A h \in Modules : new[h[1]] = h <=> h # g /\ gr[h[1]] = h
  BY <1>9, <1>10
<1>12. g \in Group /\ g \notin Onboard
  BY ModuleIs
<1>13. Lists(r, vl, new)
  <2>. SUFFICES ASSUME NEW p \in Page
                PROVE  /\ Sorted(L[p])
                       /\ \A h \in Onboard : h \in Rng(L[p]) <=> p \in PagesOf(h)
                       /\ \A h \in Modules : h \in Rng(L[p])
                                               <=> new[h[1]] = h /\ p \in PagesFrom(vl[h[1]].base)
    BY <1>8 DEF Lists
  <2>1. /\ Sorted(m.list[p])
        /\ \A h \in Onboard : h \in Rng(m.list[p]) <=> p \in PagesOf(h)
        /\ \A h \in Modules : h \in Rng(m.list[p]) <=> gr[h[1]] = h /\ p \in PagesFrom(vl[h[1]].base)
    BY DEF Core, Lists
  <2>2. Sorted(L[p]) /\ Rng(L[p]) = Rng(m.list[p]) \ {g}
    BY <1>2, <2>1, RemovedSorted
  <2>. QED
    BY <1>11, <1>12, <2>1, <2>2
<1>14. Lights(A, w, new)
  <2>1. Lights(m.active, w, gr)
    BY DEF Core
  <2>. QED
    BY <1>3, <1>11, <1>12, <2>1 DEF Lights
<1>15. Guards(R, w, vl, new)
  <2>1. Guards(m.ro, w, vl, gr)
    BY DEF Core
  <2>. QED
    BY <1>3, <1>11, <1>12, <2>1 DEF Guards
<1>16. Core(r, w, vl, new)
  BY <1>8, <1>13, <1>14, <1>15 DEF Core
<1>. QED
  BY <1>1, <1>8, <1>16 DEF new

\* The byte of a slot without a group does not matter.
LEMMA ByteFree ==
  ASSUME NEW m, NEW w, NEW vl, NEW gr, Core(m, w, vl, gr), NEW s \in SlotNames, gr[s] = Empty,
         vl \in [SlotNames -> {Empty} \cup Byte], NEW v
  PROVE  Core(m, w, [vl EXCEPT ![s] = v], gr)
<1>. DEFINE new == [vl EXCEPT ![s] = v]
<1>1. \A t \in SlotNames : t # s => new[t] = vl[t]
  OBVIOUS
<1>. HIDE DEF new
<1>2. \A h \in Modules : gr[h[1]] = h => new[h[1]] = vl[h[1]]
  <2>. SUFFICES ASSUME NEW h \in Modules, gr[h[1]] = h PROVE new[h[1]] = vl[h[1]]
    OBVIOUS
  <2>1. h # Empty /\ h[1] \in SlotNames
    BY ModuleIs
  <2>. QED
    BY <1>1, <2>1
<1>3. Lists(m, new, gr)
  BY <1>2 DEF Core, Lists
<1>4. Guards(m.ro, w, new, gr)
  BY <1>2 DEF Core, Guards
<1>. QED
  BY <1>3, <1>4 DEF Core, new

\* Memory::register_memory of a module in slot s.
LEMMA RegisterOK ==
  ASSUME NEW m, NEW w, NEW vl, NEW gr, Core(m, w, vl, gr), gr = [s \in SlotNames |-> gr[s]],
         NEW s \in SlotNames, gr[s] = Empty, vl[s] \in Byte
  PROVE  LET g == <<s, vl[s].segment>>
             r == Register(m, g, PagesFrom(vl[s].base), ~vl[s].we) IN
         Core(r, w, vl, [gr EXCEPT ![s] = g]) /\ Pointers(r)
<1>. DEFINE g == <<s, vl[s].segment>>
            pages == PagesFrom(vl[s].base)
            readonly == ~vl[s].we
            L == [p \in Page |-> IF p \in pages THEN Inserted(m.list[p], g) ELSE m.list[p]]
            a == [m EXCEPT !.list = L]
            b == SetActive(a, g, TRUE)
            c == SetReadOnly(b, g, readonly)
            r == Reload(c)
            new == [gr EXCEPT ![s] = g]
<1>1. Register(m, g, pages, readonly) = r
  BY DEF Register
<1>2. g \in Modules /\ g[1] = s /\ readonly \in BOOLEAN
  BY DEF Modules, SlotNames, Byte
<1>3. new[s] = g /\ \A t \in SlotNames : t # s => new[t] = gr[t]
  OBVIOUS
<1>4. \A p \in Page : L[p] = IF p \in pages THEN Inserted(m.list[p], g) ELSE m.list[p]
  OBVIOUS
<1>. HIDE DEF L, new, g, pages
<1>5. IsMem(m)
  BY DEF Core
<1>6. IsMem(a) /\ a.list = L /\ a.active = m.active /\ a.ro = m.ro /\ a.switch = m.switch
  <2>1. PICK x1, x2, x3, x4, x5, x6 : m = [list |-> x1, active |-> x2, ro |-> x3, read |-> x4,
                                           write |-> x5, switch |-> x6]
    BY <1>5 DEF IsMem
  <2>2. a = [list |-> L, active |-> x2, ro |-> x3, read |-> x4, write |-> x5, switch |-> x6]
    BY <2>1
  <2>. HIDE DEF a
  <2>. QED
    BY <2>1, <2>2 DEF IsMem
<1>. HIDE DEF a
<1>7. ButActive(b, a) /\ \A h : h \in b.active <=> h = g \/ h \in m.active
  BY <1>6, SetActiveIs
<1>. HIDE DEF b, readonly
<1>8. ButLocked(c, b) /\ \A h : h \in c.ro <=> IF h = g THEN readonly ELSE h \in m.ro
  BY <1>2, <1>6, <1>7, SetReadOnlyIs DEF ButActive
<1>. HIDE DEF c
<1>9. /\ IsMem(r) /\ Pointers(r) /\ r.list = L /\ r.active = c.active /\ r.ro = c.ro
      /\ r.switch = m.switch /\ c.active = b.active
  BY <1>6, <1>7, <1>8, Reloads DEF ButActive, ButLocked
<1>. HIDE DEF r
<1>10. g \in Group /\ g \notin Onboard /\ g # Empty /\ g[1] # "USER" /\ Prio(g) # 2
  BY <1>2, ModuleIs
<1>11. ASSUME NEW h \in Modules
       PROVE  /\ new[h[1]] = h <=> h = g \/ gr[h[1]] = h
              /\ gr[h[1]] = h => h # g
  <2>1. h[1] \in SlotNames /\ h # Empty
    BY ModuleIs
  <2>. QED
    BY <1>2, <1>3, <2>1
<1>12. Lists(r, vl, new)
  <2>. SUFFICES ASSUME NEW p \in Page
                PROVE  /\ Sorted(L[p])
                       /\ \A h \in Onboard : h \in Rng(L[p]) <=> p \in PagesOf(h)
                       /\ \A h \in Modules : h \in Rng(L[p])
                                               <=> new[h[1]] = h /\ p \in PagesFrom(vl[h[1]].base)
    BY <1>9 DEF Lists
  <2>1. /\ Sorted(m.list[p])
        /\ \A h \in Onboard : h \in Rng(m.list[p]) <=> p \in PagesOf(h)
        /\ \A h \in Modules : h \in Rng(m.list[p]) <=> gr[h[1]] = h /\ p \in PagesFrom(vl[h[1]].base)
    BY DEF Core, Lists
  <2>2. g \notin Rng(m.list[p])
    BY <1>2, <1>11, <2>1
  <2>3. CASE p \in pages
    <3>1. Fits(m.list[p], g)
      BY <1>10, <2>2 DEF Fits
    <3>2. Sorted(L[p]) /\ Rng(L[p]) = Rng(m.list[p]) \cup {g}
      BY <1>4, <1>10, <2>1, <2>3, <3>1, InsertedSorted
    <3>3. p \in PagesFrom(vl[s].base)
      BY <2>3 DEF pages
    <3>. QED
      BY <1>2, <1>10, <1>11, <2>1, <3>2, <3>3
  <2>4. CASE p \notin pages
    <3>1. L[p] = m.list[p] /\ p \notin PagesFrom(vl[s].base)
      BY <1>4, <2>4 DEF pages
    <3>. QED
      BY <1>2, <1>11, <2>1, <3>1
  <2>. QED
    BY <2>3, <2>4
<1>13. Lights(r.active, w, new)
  <2>1. Lights(m.active, w, gr)
    BY DEF Core
  <2>. QED
    BY <1>7, <1>9, <1>10, <1>11, <2>1 DEF Lights
<1>14. Guards(r.ro, w, vl, new)
  <2>1. Guards(m.ro, w, vl, gr)
    BY DEF Core
  <2>2. readonly = ~vl[g[1]].we
    BY <1>2 DEF readonly
  <2>. QED
    BY <1>8, <1>9, <1>10, <1>11, <2>1, <2>2 DEF Guards
<1>15. Core(r, w, vl, new)
  BY <1>9, <1>12, <1>13, <1>14 DEF Core
<1>. QED
  BY <1>1, <1>9, <1>15 DEF new, g, pages, readonly

\* The module of slot s gives back what it has registered; its byte may change.
LEMMA WithoutOK ==
  ASSUME MapInv, NEW s \in SlotNames, NEW v
  PROVE  /\ Core(Without(s), set, [val EXCEPT ![s] = v], [group EXCEPT ![s] = Empty])
         /\ Pointers(Without(s))
<1>. DEFINE gr == [group EXCEPT ![s] = Empty]
            r == Without(s)
<1>1. /\ Core(State, set, val, group) /\ Pointers(State) /\ Setting(set) /\ SlotsAre(val, group)
  BY DEF MapInv
<1>2. group = [t \in SlotNames |-> group[t]] /\ val \in [SlotNames -> {Empty} \cup Byte]
  BY <1>1 DEF SlotsAre
<1>3. Core(r, set, val, gr) /\ Pointers(r) /\ gr[s] = Empty
  <2>1. CASE group[s] = Empty
    <3>1. r = State /\ gr = group
      BY <1>2, <2>1 DEF Without
    <3>. QED
      BY <1>1, <2>1, <3>1
  <2>2. CASE group[s] # Empty
    <3>. DEFINE g == group[s]
    <3>1. r = Unregister(State, g)
      BY <2>2 DEF Without
    <3>2. g = <<s, val[s].segment>> /\ val[s] # Empty
      BY <1>1, <2>2 DEF SlotsAre
    <3>3. g \in Modules /\ g[1] = s
      <4>1. val[s].segment \in 0 .. 15
        BY <1>2, <3>2 DEF Byte
      <4>. QED
        BY <3>2, <4>1 DEF Modules, SlotNames
    <3>4. gr[s] = Empty
      BY <1>2
    <3>. QED
      BY <1>1, <1>2, <3>1, <3>3, <3>4, UnregisterOK
  <2>. QED
    BY <2>1, <2>2
<1>. HIDE DEF gr, r
<1>4. Core(r, set, [val EXCEPT ![s] = v], gr)
  BY <1>2, <1>3, ByteFree
<1>. QED
  BY <1>3, <1>4 DEF r, gr

\* The module of slot s changes.
LEMMA SlotsChange ==
  ASSUME NEW vl, NEW gr, SlotsAre(vl, gr), NEW s \in SlotNames, NEW v \in {Empty} \cup Byte,
         NEW g, g = IF v # Empty /\ Shows(s, v) THEN <<s, v.segment>> ELSE Empty
  PROVE  SlotsAre([vl EXCEPT ![s] = v], [gr EXCEPT ![s] = g])
<1>. DEFINE vn == [vl EXCEPT ![s] = v]
            gn == [gr EXCEPT ![s] = g]
<1>1. /\ vl \in [SlotNames -> {Empty} \cup Byte] /\ gr = [t \in SlotNames |-> gr[t]]
      /\ \A t \in SlotNames :
           gr[t] = IF vl[t] # Empty /\ Shows(t, vl[t]) THEN <<t, vl[t].segment>> ELSE Empty
  BY DEF SlotsAre
<1>2. vn \in [SlotNames -> {Empty} \cup Byte] /\ gn = [t \in SlotNames |-> gn[t]]
  BY <1>1
<1>3. /\ vn[s] = v /\ gn[s] = g
      /\ \A t \in SlotNames : t # s => vn[t] = vl[t] /\ gn[t] = gr[t]
  BY <1>1
<1>. HIDE DEF vn, gn
<1>4. ASSUME NEW t \in SlotNames
      PROVE  gn[t] = IF vn[t] # Empty /\ Shows(t, vn[t]) THEN <<t, vn[t].segment>> ELSE Empty
  <2>1. CASE t = s
    BY <1>3, <2>1
  <2>2. CASE t # s
    BY <1>1, <1>3, <2>2
  <2>. QED
    BY <2>1, <2>2
<1>5. SlotsAre(vn, gn)
  BY <1>2, <1>4 DEF SlotsAre
<1>. QED
  BY <1>5 DEF vn, gn

\* A module is put in or pulled out.
LEMMA PlugStep ==
  ASSUME MapInv, NEW s \in SlotNames, Insert(s) \/ Pull(s)
  PROVE  MapInv'
<1>1. PICK v \in {Off, Empty} : val' = [val EXCEPT ![s] = v]
  BY DEF Insert, Pull
<1>2. /\ group' = [group EXCEPT ![s] = Empty] /\ Becomes(Without(s))
      /\ latch' = latch /\ set' = set
  BY DEF Insert, Pull
<1>3. Off \in Byte
  BY DEF Off, Byte
<1>4. Empty = IF v # Empty /\ Shows(s, v) THEN <<s, v.segment>> ELSE Empty
  <2>1. ~Shows(s, Off)
    BY DEF Shows, Off
  <2>. QED
    BY <2>1
<1>5. SlotsAre(val', group')
  BY <1>1, <1>2, <1>3, <1>4, SlotsChange DEF MapInv
<1>6. Core(Without(s), set, val', group') /\ Pointers(Without(s))
  BY <1>1, <1>2, WithoutOK
<1>7. LatchOK'
  BY <1>2 DEF MapInv, LatchOK
<1>8. Setting(set)
  BY DEF MapInv
<1>. QED
  BY <1>2, <1>5, <1>6, <1>7, <1>8, Follows

\* The guest writes to the control port of a module.
LEMMA ModuleStep ==
  ASSUME MapInv, NEW s \in SlotNames, NEW v \in Bytes[s], ModuleOut(s, v)
  PROVE  MapInv'
<1>1. v \in Byte
  BY Memory4Assumption DEF Byte, SlotNames
<1>2. /\ val[s] # Empty /\ val' = [val EXCEPT ![s] = v] /\ latch' = latch /\ set' = set
  BY DEF ModuleOut
<1>3. LatchOK' /\ Setting(set) /\ SlotsAre(val, group)
  BY <1>2 DEF MapInv, LatchOK
<1>4. Core(Without(s), set, val', [group EXCEPT ![s] = Empty]) /\ Pointers(Without(s))
  BY <1>2, WithoutOK
<1>5. v # Empty
  <2>1. DOMAIN v = {"on", "we", "base", "segment"}
    BY <1>1 DEF Byte
  <2>2. DOMAIN Empty = {}
    BY DEF Empty
  <2>. QED
    BY <2>1, <2>2
<1>6. group = [t \in SlotNames |-> group[t]] /\ val \in [SlotNames -> {Empty} \cup Byte]
  BY <1>3 DEF SlotsAre
<1>7. CASE Shows(s, v)
  <2>. DEFINE g == <<s, v.segment>>
              r == Register(Without(s), g, PagesFrom(v.base), ~v.we)
              gr == [group EXCEPT ![s] = Empty]
  <2>1. group' = [group EXCEPT ![s] = g] /\ Becomes(r)
    BY <1>7 DEF ModuleOut
  <2>2. gr[s] = Empty /\ gr = [t \in SlotNames |-> gr[t]] /\ [gr EXCEPT ![s] = g] = group'
    BY <1>6, <2>1
  <2>3. val'[s] = v
    BY <1>2, <1>6
  <2>. HIDE DEF gr
  <2>4. Core(r, set, val', group') /\ Pointers(r)
    <3>1. Core(Without(s), set, val', gr)
      BY <1>4 DEF gr
    <3>. QED
      BY <1>1, <2>2, <2>3, <3>1, RegisterOK
  <2>5. SlotsAre(val', group')
    BY <1>1, <1>2, <1>3, <1>5, <1>7, <2>1, SlotsChange
  <2>. HIDE DEF r
  <2>. QED
    BY <1>2, <1>3, <2>1, <2>4, <2>5, Follows
<1>8. CASE ~Shows(s, v)
  <2>1. group' = [group EXCEPT ![s] = Empty] /\ Becomes(Without(s))
    BY <1>8 DEF ModuleOut
  <2>2. SlotsAre(val', group')
    BY <1>1, <1>2, <1>3, <1>8, <2>1, SlotsChange
  <2>. QED
    BY <1>2, <1>3, <1>4, <2>1, <2>2, Follows
<1>. QED
  BY <1>7, <1>8

-----------------------------------------------------------------------------
(***************************************************************************)
(* The lists after init_memory_groups().                                   *)
(***************************************************************************)

\* The number of a group in the list of all.
Number(g) ==
  CASE g[1] = "-" -> 1
    [] g[1] = "RAM_0" -> 2
    [] g[1] = "RAM_4" -> 3
    [] g[1] = "RAM_8" -> 4 + g[2]
    [] g[1] = "IRM" -> 20 + g[2]
    [] g[1] = "IRM_X" -> 24 + g[2]
    [] g[1] = "CAOS_C" -> 28
    [] g[1] = "CAOS_E" -> 29
    [] g[1] = "USER" -> 33 - g[2]

LEMMA NumberIs ==
  ASSUME NEW k \in 1 .. 33
  PROVE  /\ Number(Initially[k]) = k
         /\ Initially[k][1] = "USER" <=> k >= 30
<1>1. /\ \A b : Ram8(b)[1] = "RAM_8" /\ Ram8(b)[2] = b
      /\ \A b : User(b)[1] = "USER" /\ User(b)[2] = b
      /\ \A b : Irm(b)[1] = "IRM" /\ Irm(b)[2] = b
      /\ \A b : IrmUpper(b)[1] = "IRM_X" /\ IrmUpper(b)[2] = b
      /\ Nothing[1] = "-"
  BY DEF Ram8, User, Irm, IrmUpper, Nothing
<1>2. CASE k = 1
  <2>1. Initially[k] = Nothing
    BY <1>2 DEF Initially
  <2>. QED
    BY <1>1, <1>2, <2>1 DEF Number
<1>3. CASE k = 2
  <2>1. Initially[k] = <<"RAM_0", 0>>
    BY <1>3 DEF Initially
  <2>. QED
    BY <1>3, <2>1 DEF Number
<1>4. CASE k = 3
  <2>1. Initially[k] = <<"RAM_4", 0>>
    BY <1>4 DEF Initially
  <2>. QED
    BY <1>4, <2>1 DEF Number
<1>5. CASE k \in 4 .. 19
  <2>1. Initially[k] = Ram8(k - 4)
    BY <1>5 DEF Initially
  <2>. QED
    BY <1>1, <1>5, <2>1 DEF Number
<1>6. CASE k \in 20 .. 23
  <2>1. Initially[k] = Irm(k - 20)
    BY <1>6 DEF Initially
  <2>. QED
    BY <1>1, <1>6, <2>1 DEF Number
<1>7. CASE k \in 24 .. 27
  <2>1. Initially[k] = IrmUpper(k - 24)
    BY <1>7 DEF Initially
  <2>. QED
    BY <1>1, <1>7, <2>1 DEF Number
<1>8. CASE k = 28
  <2>1. Initially[k] = <<"CAOS_C", 0>>
    BY <1>8 DEF Initially
  <2>. QED
    BY <1>8, <2>1 DEF Number
<1>9. CASE k = 29
  <2>1. Initially[k] = <<"CAOS_E", 0>>
    BY <1>9 DEF Initially
  <2>. QED
    BY <1>9, <2>1 DEF Number
<1>10. CASE k \in 30 .. 33
  <2>1. Initially[k] = User(33 - k)
    BY <1>10 DEF Initially
  <2>. QED
    BY <1>1, <1>10, <2>1 DEF Number
<1>11. \/ k = 1 \/ k = 2 \/ k = 3 \/ k \in 4 .. 19 \/ k \in 20 .. 23 \/ k \in 24 .. 27
       \/ k = 28 \/ k = 29 \/ k \in 30 .. 33
  OBVIOUS
<1>. QED
  BY <1>2, <1>3, <1>4, <1>5, <1>6, <1>7, <1>8, <1>9, <1>10, <1>11

LEMMA AllNumbered ==
  ASSUME NEW g \in Onboard
  PROVE  \E k \in 1 .. 33 : Initially[k] = g
<1>1. g \in Group /\ g[1] \in Names
  BY SomeOnboard
<1>2. Initially[1] = Nothing /\ Initially[2] = <<"RAM_0", 0>> /\ Initially[3] = <<"RAM_4", 0>>
  BY DEF Initially
<1>3. Initially[28] = <<"CAOS_C", 0>> /\ Initially[29] = <<"CAOS_E", 0>>
  BY DEF Initially
<1>4. CASE g[1] = "RAM_8"
  <2>1. PICK b \in Blocks : g = Ram8(b)
    BY <1>1, <1>4, OnboardIs
  <2>2. b \in 0 .. 15 /\ b + 4 \in 1 .. 33 /\ b + 4 \in 4 .. 19 /\ b + 4 - 4 = b
    BY SlotFacts
  <2>3. Initially[b + 4] = Ram8(b + 4 - 4)
    BY <2>2 DEF Initially
  <2>. QED
    BY <2>1, <2>2, <2>3
<1>5. CASE g[1] = "IRM"
  <2>1. PICK b \in 0 .. 3 : g = Irm(b)
    BY <1>1, <1>5, OnboardIs
  <2>2. b + 20 \in 1 .. 33 /\ b + 20 \in 20 .. 23 /\ b + 20 - 20 = b
    OBVIOUS
  <2>3. Initially[b + 20] = Irm(b + 20 - 20)
    BY <2>2 DEF Initially
  <2>. QED
    BY <2>1, <2>2, <2>3
<1>6. CASE g[1] = "IRM_X"
  <2>1. PICK b \in 0 .. 3 : g = IrmUpper(b)
    BY <1>1, <1>6, OnboardIs
  <2>2. b + 24 \in 1 .. 33 /\ b + 24 \in 24 .. 27 /\ b + 24 - 24 = b
    OBVIOUS
  <2>3. Initially[b + 24] = IrmUpper(b + 24 - 24)
    BY <2>2 DEF Initially
  <2>. QED
    BY <2>1, <2>2, <2>3
<1>7. CASE g[1] = "USER"
  <2>1. PICK b \in Roms : g = User(b)
    BY <1>1, <1>7, OnboardIs
  <2>2. b \in 0 .. 3 /\ 33 - b \in 1 .. 33 /\ 33 - b \in 30 .. 33 /\ 33 - (33 - b) = b
    BY SlotFacts
  <2>3. Initially[33 - b] = User(33 - (33 - b))
    BY <2>2 DEF Initially
  <2>. QED
    BY <2>1, <2>2, <2>3
<1>8. g[1] \in {"-", "RAM_0", "RAM_4", "CAOS_C", "CAOS_E"} =>
        \E k \in {1, 2, 3, 28, 29} : Initially[k] = g
  <2>1. /\ g[1] = "-" => g = Nothing
        /\ g[1] = "RAM_0" => g = <<"RAM_0", 0>>
        /\ g[1] = "RAM_4" => g = <<"RAM_4", 0>>
        /\ g[1] = "CAOS_C" => g = <<"CAOS_C", 0>>
        /\ g[1] = "CAOS_E" => g = <<"CAOS_E", 0>>
    BY <1>1, OnboardIs
  <2>. QED
    BY <1>2, <1>3, <2>1
<1>. QED
  BY <1>1, <1>4, <1>5, <1>6, <1>7, <1>8 DEF Names

\* The groups of a page among the first k; what the k-th does to the list of a page.
FirstOnes(p, k) == {Initially[j] : j \in {i \in 1 .. k : Initially[i] \in Onboard
                                                         /\ p \in PagesOf(Initially[i])}}
InitStep(p, k, l) ==
  IF Initially[k] \in Onboard /\ p \in PagesOf(Initially[k]) THEN Inserted(l, Initially[k]) ELSE l

\* The list after k groups.
Partial(p, k, l) == Sorted(l) /\ Rng(l) = FirstOnes(p, k)

LEMMA PartialStep ==
  ASSUME NEW p \in Page, NEW k \in 1 .. 33, NEW l, Partial(p, k - 1, l)
  PROVE  Partial(p, k, InitStep(p, k, l))
<1>. DEFINE g == Initially[k]
<1>1. Sorted(l) /\ Rng(l) = FirstOnes(p, k - 1)
  BY DEF Partial
<1>2. 1 .. k = (1 .. k - 1) \cup {k}
  OBVIOUS
<1>3. CASE g \in Onboard /\ p \in PagesOf(g)
  <2>1. FirstOnes(p, k) = FirstOnes(p, k - 1) \cup {g}
    BY <1>2, <1>3 DEF FirstOnes
  <2>2. \A j \in 1 .. k - 1 : Initially[j] # g
    <3>. SUFFICES ASSUME NEW j \in 1 .. k - 1, Initially[j] = g PROVE FALSE
      OBVIOUS
    <3>1. j \in 1 .. 33 /\ j # k
      OBVIOUS
    <3>2. Number(Initially[j]) = j /\ Number(Initially[k]) = k
      BY <3>1, NumberIs
    <3>. QED
      BY <3>1, <3>2
  <2>3. g[1] = "USER" \/ \A j \in 1 .. k - 1 : Initially[j][1] # "USER"
    <3>. SUFFICES ASSUME g[1] # "USER", NEW j \in 1 .. k - 1 PROVE Initially[j][1] # "USER"
      OBVIOUS
    <3>1. ~(k >= 30) /\ j \in 1 .. 33 /\ ~(j >= 30)
      BY NumberIs
    <3>. QED
      BY <3>1, NumberIs
  <2>4. Fits(l, g)
    BY <1>1, <2>2, <2>3 DEF Fits, FirstOnes
  <2>5. Sorted(Inserted(l, g)) /\ Rng(Inserted(l, g)) = Rng(l) \cup {g}
    <3>1. g \in Group
      BY <1>3, SomeOnboard
    <3>. HIDE DEF g
    <3>. QED
      BY <1>1, <2>4, <3>1, InsertedSorted
  <2>6. InitStep(p, k, l) = Inserted(l, g)
    BY <1>3 DEF InitStep
  <2>. QED
    BY <1>1, <2>1, <2>5, <2>6 DEF Partial
<1>4. CASE ~(g \in Onboard /\ p \in PagesOf(g))
  <2>1. FirstOnes(p, k) = FirstOnes(p, k - 1)
    BY <1>2, <1>4 DEF FirstOnes
  <2>2. InitStep(p, k, l) = l
    BY <1>4 DEF InitStep
  <2>. QED
    BY <1>1, <2>1, <2>2 DEF Partial
<1>. QED
  BY <1>3, <1>4

LEMMA OnPageIs ==
  ASSUME NEW p \in Page
  PROVE  Sorted(OnPage(p)) /\ \A g \in Group : g \in Rng(OnPage(p))
                                                 <=> g \in Onboard /\ p \in PagesOf(g)
<1>. DEFINE X == {l \in Seq(Group) : Sorted(l)}
            Step(k, l) == IF Partial(p, k - 1, l) THEN InitStep(p, k, l) ELSE l
            G == [x \in (1 .. 33) \X X |-> Step(x[1], x[2])]
            Goes(f) == [k \in 0 .. 33 |-> IF k = 0 THEN <<>> ELSE InitStep(p, k, f[k - 1])]
            l == CHOOSE f : f = Goes(f)
<1>0. 33 \in Nat /\ <<>> \in X
  <2>1. <<>> \in Seq(Group) /\ Len(<<>>) = 0 /\ 1 .. 0 = {}
    OBVIOUS
  <2>. QED
    BY <2>1 DEF Sorted
<1>1. ASSUME NEW k \in 1 .. 33, NEW x \in X PROVE Step(k, x) \in X
  <2>1. Partial(p, k - 1, x) => Sorted(InitStep(p, k, x))
    BY PartialStep DEF Partial
  <2>2. Partial(p, k - 1, x) => InitStep(p, k, x) \in Seq(Group)
    BY <2>1 DEF Sorted
  <2>. QED
    BY <2>1, <2>2
<1>. HIDE DEF X, Step
<1>2. G \in [(1 .. 33) \X X -> X] /\ \A k \in 1 .. 33, x \in X : G[<<k, x>>] = Step(k, x)
  BY <1>1
<1>. HIDE DEF G
<1>3. PICK g \in [0 .. 33 -> X] : Recursive(33, <<>>, G, g)
  BY ONLY <1>0, <1>2, Recursion
<1>4. g[0] = <<>> /\ \A k \in 1 .. 33 : g[k] = Step(k, g[k - 1])
  <2>1. \A k \in 0 .. 33 : g[k] = IF k = 0 THEN <<>> ELSE G[<<k, g[k - 1]>>]
    BY <1>3 DEF Recursive
  <2>2. \A k \in 1 .. 33 : k \in 0 .. 33 /\ k # 0 /\ k - 1 \in 0 .. 33
    OBVIOUS
  <2>3. 0 \in 0 .. 33
    OBVIOUS
  <2>. QED
    BY <1>2, <1>3, <2>1, <2>2, <2>3
<1>5. \A k \in 0 .. 33 : Partial(p, k, g[k])
  <2>. DEFINE T == {k \in 0 .. 33 : Partial(p, k, g[k])}
  <2>1. 0 \in T
    <3>1. Rng(<<>>) = {} /\ FirstOnes(p, 0) = {}
      BY DEF Rng, FirstOnes
    <3>2. Sorted(<<>>)
      BY <1>0 DEF X
    <3>3. Partial(p, 0, <<>>)
      BY <3>1, <3>2 DEF Partial
    <3>4. g[0] = <<>>
      BY <1>4
    <3>5. Partial(p, 0, g[0])
      BY ONLY <3>3, <3>4
    <3>6. 0 \in 0 .. 33
      OBVIOUS
    <3>. QED
      BY ONLY <3>5, <3>6
  <2>2. ASSUME NEW k \in 1 .. 33, k - 1 \in T PROVE k \in T
    <3>1. Partial(p, k - 1, g[k - 1])
      BY <2>2
    <3>2. g[k] = InitStep(p, k, g[k - 1])
      BY <1>4, <3>1 DEF Step
    <3>. QED
      BY <3>1, <3>2, PartialStep
  <2>. HIDE DEF T
  <2>3. \A k \in 0 .. 33 : k \in T
    BY <1>0, <2>1, <2>2, Induction
  <2>. QED
    BY <2>3 DEF T
<1>6. ASSUME NEW k \in 0 .. 33 PROVE g[k] = Goes(g)[k]
  <2>1. CASE k = 0
    BY <1>4, <2>1
  <2>2. CASE k # 0
    <3>1. k \in 1 .. 33 /\ k - 1 \in 0 .. 33
      BY <2>2
    <3>2. Partial(p, k - 1, g[k - 1])
      BY <1>5, <3>1
    <3>3. g[k] = InitStep(p, k, g[k - 1])
      BY <1>4, <3>1, <3>2 DEF Step
    <3>. QED
      BY <2>2, <3>3
  <2>. QED
    BY <2>1, <2>2
<1>7. g = Goes(g)
  <2>1. g = [k \in 0 .. 33 |-> g[k]] /\ Goes(g) = [k \in 0 .. 33 |-> Goes(g)[k]]
    BY <1>3
  <2>. QED
    BY ONLY <1>6, <2>1, Extensional
<1>8. l = Goes(l)
  BY <1>7
<1>9. OnPage(p) = l[33]
  BY Zenon DEF OnPage, InitStep
<1>. HIDE DEF l
<1>10. l[0] = <<>> /\ \A k \in 1 .. 33 : l[k] = InitStep(p, k, l[k - 1])
  BY <1>8
<1>11. \A k \in 0 .. 33 : l[k] = g[k]
  <2>. DEFINE T == {k \in 0 .. 33 : l[k] = g[k]}
  <2>1. 0 \in T
    <3>1. l[0] = g[0]
      BY <1>4, <1>10
    <3>2. 0 \in 0 .. 33
      OBVIOUS
    <3>. QED
      BY ONLY <3>1, <3>2
  <2>2. ASSUME NEW k \in 1 .. 33, k - 1 \in T PROVE k \in T
    <3>1. l[k] = InitStep(p, k, g[k - 1])
      BY <1>10, <2>2
    <3>2. g[k] = InitStep(p, k, g[k - 1])
      <4>1. Partial(p, k - 1, g[k - 1])
        BY <1>5, <2>2
      <4>. QED
        BY <1>4, <4>1 DEF Step
    <3>. QED
      BY <3>1, <3>2
  <2>. HIDE DEF T
  <2>3. \A k \in 0 .. 33 : k \in T
    BY <1>0, <2>1, <2>2, Induction
  <2>. QED
    BY <2>3 DEF T
<1>12. Partial(p, 33, OnPage(p))
  BY <1>5, <1>9, <1>11
<1>13. \A h \in Group : h \in FirstOnes(p, 33) <=> h \in Onboard /\ p \in PagesOf(h)
  BY AllNumbered DEF FirstOnes
<1>. QED
  BY <1>12, <1>13 DEF Partial

-----------------------------------------------------------------------------
(***************************************************************************)
(* The invariant holds at first and after every step.                      *)
(***************************************************************************)

LEMMA MapInit == Init => MapInv
<1>. SUFFICES ASSUME Init PROVE MapInv
  OBVIOUS
<1>. DEFINE m == [list |-> [p \in Page |-> OnPage(p)],
                  active |-> {}, ro |-> ReadOnly, read |-> <<>>, write |-> <<>>,
                  switch |-> AtReset]
            r == ResetMemory(m)
            w == SetAtReset
<1>1. /\ list = r.list /\ active = r.active /\ ro = r.ro
      /\ read = r.read /\ write = r.write /\ switch = r.switch
      /\ latch = [p \in Ports |-> Empty]
      /\ val = [s \in SlotNames |-> Empty]
      /\ group = [s \in SlotNames |-> Empty]
      /\ set = w
  BY DEF Init, SlotNames
<1>2. IsMem(m) /\ m.active = {} /\ m.ro = ReadOnly
  BY DEF IsMem
<1>3. \A p \in Page : m.list[p] = OnPage(p)
  OBVIOUS
<1>. HIDE DEF m
<1>4. \A g \in Modules : group[g[1]] # g
  BY <1>1, ModuleIs
<1>5. Lists(m, val, group)
  <2>1. \A g \in Modules : g \in Group /\ g \notin Onboard
    BY ModuleIs
  <2>2. Onboard \subseteq Group
    BY SomeOnboard
  <2>. QED
    BY <1>3, <1>4, <2>1, <2>2, OnPageIs DEF Lists
<1>6. ResetTo(w)
  <2>. DEFINE e(f) == CASE f \in DOMAIN AtReset -> AtReset[f]
                       [] f = "segment" -> 2
                       [] f \in {"ram_0", "ram_4", "write_0", "write_4", "write_8"} -> TRUE
  <2>1. w = [f \in AllFields |-> w[f]]
    <3>1. SetAtReset = [f \in Field |-> e(f)]
      BY DEF SetAtReset
    <3>. HIDE DEF e
    <3>2. SetAtReset = [f \in AllFields |-> e(f)]
      BY <3>1, FieldIs
    <3>3. \A f \in AllFields : SetAtReset[f] = e(f)
      BY <3>2
    <3>. QED
      BY <3>2, <3>3
  <2>. QED
    BY <2>1, ResetValues DEF ResetTo, Setting
<1>7. Guards(m.ro, w, val, group)
  <2>1. ReadOnly \subseteq Onboard /\ ReadOnly \subseteq Group
    BY SomeOnboard DEF ReadOnly
  <2>2. w.write_0 = TRUE /\ w.write_4 = TRUE /\ w.write_8 = TRUE
    BY AtResetIs DEF Writes
  <2>3. \A g \in Modules : g \notin ReadOnly
    BY <2>1, ModuleIs
  <2>. QED
    BY <1>2, <1>4, <2>1, <2>2, <2>3 DEF Guards, Locked
<1>8. Core(r, w, val, group) /\ Pointers(r)
  BY <1>2, <1>4, <1>5, <1>6, <1>7, ResetOK
<1>9. State = r
  <2>1. r = [list |-> r.list, active |-> r.active, ro |-> r.ro, read |-> r.read,
             write |-> r.write, switch |-> r.switch]
    BY <1>8 DEF Core, IsMem
  <2>. HIDE DEF r
  <2>. QED
    BY <1>1, <2>1 DEF State
<1>10. SlotsAre(val, group)
  BY <1>1 DEF SlotsAre
<1>11. LatchOK
  BY <1>1 DEF LatchOK
<1>. HIDE DEF r, w
<1>. QED
  BY <1>1, <1>6, <1>8, <1>9, <1>10, <1>11 DEF MapInv, ResetTo

LEMMA MapStep == MapInv /\ Next => MapInv'
<1>. SUFFICES ASSUME MapInv, Next PROVE MapInv'
  OBVIOUS
<1>1. CASE \E p \in Ports : \E v \in Output[p] : Out(p, v)
  BY <1>1, OutStep
<1>2. CASE \E s \in SlotNames : \E v \in Bytes[s] : ModuleOut(s, v)
  BY <1>2, ModuleStep
<1>3. CASE \E s \in SlotNames : Plugging(s)
  BY <1>3, PlugStep DEF Plugging
<1>4. CASE Reset
  BY <1>4, ResetStep
<1>. QED
  BY <1>1, <1>2, <1>3, <1>4 DEF Next, Guest, SlotNames

LEMMA MapStutter == MapInv /\ UNCHANGED vars => MapInv'
<1>. SUFFICES ASSUME MapInv, UNCHANGED vars PROVE MapInv'
  OBVIOUS
<1>1. /\ list' = list /\ active' = active /\ ro' = ro /\ read' = read /\ write' = write
      /\ switch' = switch /\ latch' = latch /\ val' = val /\ group' = group /\ set' = set
  BY DEF vars, memory
<1>2. State' = State
  BY <1>1 DEF State
<1>3. LatchOK'
  BY <1>1 DEF MapInv, LatchOK
<1>. QED
  BY <1>1, <1>2, <1>3 DEF MapInv

-----------------------------------------------------------------------------
(***************************************************************************)
(* What the invariant says of a page.                                      *)
(***************************************************************************)

\* The processor sees the first of the active groups, and writes to it or nothing.
LEMMA Seen ==
  ASSUME MapInv, NEW p \in Page
  PROVE  /\ read[p] \in Rng(list[p]) /\ read[p] \in active /\ read[p] \in Group
         /\ read[p] = First(State, p)
         /\ \A h \in Rng(list[p]) : h \in active => Rank(read[p]) <= Rank(h)
         /\ write[p] = IF read[p] \in ro THEN Nothing ELSE read[p]
         /\ Rng(list[p]) \subseteq Group /\ Nothing \in Group
         /\ read = [q \in Page |-> read[q]] /\ write = [q \in Page |-> write[q]]
<1>1. State.list = list /\ State.active = active /\ State.ro = ro /\ State.read = read
      /\ State.write = write
  BY DEF State
<1>2. Lists(State, val, group) /\ Lights(active, set, group) /\ Pointers(State)
  BY <1>1 DEF MapInv, Core
<1>3. Sorted(list[p]) /\ \A g \in Onboard : g \in Rng(list[p]) <=> p \in PagesOf(g)
  BY <1>1, <1>2 DEF Lists
<1>4. Nothing \in Onboard /\ PagesOf(Nothing) = Page /\ Nothing \in Group
  <2>1. Nothing[1] = "-"
    BY DEF Nothing
  <2>2. PagesOf(Nothing) = Page
    BY <2>1 DEF PagesOf
  <2>. QED
    BY <2>2, SomeOnboard
<1>5. Lit(Nothing, set)
  <2>1. Nothing[1] = "-"
    BY DEF Nothing
  <2>. QED
    BY <2>1 DEF Lit
<1>6. Nothing \in Rng(list[p]) /\ Nothing \in active
  BY <1>2, <1>3, <1>4, <1>5 DEF Lights
<1>7. First(State, p) = FirstOf(list[p], active)
  BY <1>1 DEF First
<1>8. /\ First(State, p) \in Rng(list[p]) /\ First(State, p) \in active
      /\ \A h \in Rng(list[p]) : h \in active => Rank(First(State, p)) <= Rank(h)
  BY <1>3, <1>6, <1>7, FirstIs
<1>9. /\ read = [q \in Page |-> First(State, q)]
      /\ write = [q \in Page |-> IF First(State, q) \in ro THEN Nothing ELSE First(State, q)]
  BY <1>1, <1>2 DEF Pointers
<1>10. Rng(list[p]) \subseteq Group
  BY <1>3, ElementOfSeq, LenProperties DEF Sorted, Rng
<1>. QED
  BY <1>4, <1>8, <1>9, <1>10

LEMMA ListSet ==
  ASSUME MapInv, NEW p \in Page
  PROVE  Seqs!ToSet(list[p]) = Rng(list[p]) /\ Seqs!IsInjective(list[p])
<1>1. Sorted(list[p])
  BY DEF MapInv, Core, Lists, State
<1>2. DOMAIN list[p] = 1 .. Len(list[p])
  BY <1>1, LenProperties DEF Sorted
<1>. QED
  BY <1>1, <1>2 DEF Sorted, Rng, Seqs!ToSet, Seqs!IsInjective

\* A module's group that is in a list is the one it has registered last.
LEMMA Registered ==
  ASSUME MapInv, NEW p \in Page, NEW g \in Group, g[1] \in SlotNames, g \in Rng(list[p])
  PROVE  group[g[1]] = g
<1>1. g \in Modules
  BY SomeOnboard, SlotFacts DEF Group
<1>. QED
  BY <1>1 DEF MapInv, Core, Lists, State

LEMMA MemoryThere == MapInv => NoDanglingMemory
<1>. SUFFICES ASSUME MapInv, NEW p \in Page,
                     NEW g \in {read[p], write[p]} \cup Seqs!ToSet(list[p]), g[1] \in SlotNames
              PROVE  group[g[1]] = g
  BY DEF NoDanglingMemory, SlotNames
<1>1. Nothing[1] \notin SlotNames
  <2>1. Nothing[1] = "-"
    BY DEF Nothing
  <2>. QED
    BY <2>1, SlotFacts DEF Names
<1>2. g \in Rng(list[p]) /\ g \in Group
  BY <1>1, Seen, ListSet
<1>. QED
  BY <1>2, Registered

\* The groups that the settings want at a page are those of its list that are active.
LEMMA WantedOnboard ==
  ASSUME MapInv, NEW p \in Page, NEW g \in Onboard
  PROVE  g \in Wanted(p) <=> g \in Rng(list[p]) /\ g \in active
<1>. DEFINE i == Index(set)
            W(h) == CASE h = Nothing      -> TRUE
                      [] h[1] = "RAM_0"  -> set.ram_0
                      [] h[1] = "RAM_4"  -> set.ram_4
                      [] h[1] = "RAM_8"  -> set.ram_8 /\ h[2] = (set.segment + 14) % 16
                      [] h[1] = "IRM"    -> set.irm /\ h[2] = i
                      [] h[1] = "IRM_X"  -> set.irm /\ h[2] = IF set.caos_c /\ ~set.caos_e THEN i ELSE 0
                      [] h[1] = "CAOS_C" -> set.caos_c
                      [] h[1] = "CAOS_E" -> set.caos_e
                      [] h[1] = "USER"   -> set.basic /\ h[2] = set.rom
            M == {<<s, val[s].segment>> : s \in {t \in SlotNames :
                    val[t] # Empty /\ Shows(t, val[t]) /\ p \in PagesFrom(val[t].base)}}
<1>1. g \in Rng(list[p]) <=> p \in PagesOf(g)
  BY DEF MapInv, Core, Lists, State
<1>2. g \in active <=> Lit(g, set)
  BY DEF MapInv, Core, Lights, State
<1>3. g \notin M
  <2>1. g[1] \in Names
    BY SomeOnboard
  <2>2. \A h \in M : h[1] \in SlotNames
    OBVIOUS
  <2>. QED
    BY <2>1, <2>2, SlotFacts
<1>4. g \in Wanted(p) <=> g \in M \/ (p \in PagesOf(g) /\ W(g))
  <2>1. Wanted(p) = {h \in Onboard : p \in PagesOf(h) /\ W(h)} \cup M
    BY DEF Wanted, SlotNames
  <2>. HIDE DEF W, M
  <2>. DEFINE N == {h \in Onboard : p \in PagesOf(h) /\ W(h)}
  <2>2. g \in N <=> p \in PagesOf(g) /\ W(g)
    OBVIOUS
  <2>3. Wanted(p) = N \cup M
    BY <2>1
  <2>. HIDE DEF N
  <2>. QED
    BY <2>2, <2>3
<1>5. g \in Group /\ g[1] \in Names
  BY SomeOnboard
<1>6. (set.segment + 14) % 16 = BlockOf(set.segment)
  <2>1. set.segment \in 0 .. 15
    BY DEF MapInv, Setting, AllFields, Value
  <2>2. \A x \in 0 .. 15 : (x + 14) % 16 = (x - 2) % 16
    OBVIOUS
  <2>. QED
    BY <2>1, <2>2 DEF BlockOf
<1>7. W(g) <=> Lit(g, set)
  <2>1. g = Nothing <=> g[1] = "-"
    BY <1>5, OnboardIs
  <2>2. CASE g[1] = "-"
    BY <2>1, <2>2 DEF Lit
  <2>3. CASE g[1] = "RAM_0"
    BY <2>1, <2>3 DEF Lit
  <2>4. CASE g[1] = "RAM_4"
    BY <2>1, <2>4 DEF Lit
  <2>5. CASE g[1] = "RAM_8"
    BY <1>6, <2>1, <2>5 DEF Lit
  <2>6. CASE g[1] = "IRM"
    BY <2>1, <2>6 DEF Lit
  <2>7. CASE g[1] = "IRM_X"
    BY <2>1, <2>7 DEF Lit
  <2>8. CASE g[1] = "CAOS_C"
    BY <2>1, <2>8 DEF Lit
  <2>9. CASE g[1] = "CAOS_E"
    BY <2>1, <2>9 DEF Lit
  <2>10. CASE g[1] = "USER"
    BY <2>1, <2>10 DEF Lit
  <2>. QED
    BY <1>5, <2>2, <2>3, <2>4, <2>5, <2>6, <2>7, <2>8, <2>9, <2>10 DEF Names
<1>. HIDE DEF W, M
<1>. QED
  BY <1>1, <1>2, <1>3, <1>4, <1>7

LEMMA WantedModule ==
  ASSUME MapInv, NEW p \in Page, NEW g \in Modules
  PROVE  g \in Wanted(p) <=> g \in Rng(list[p]) /\ g \in active
<1>1. g \in Rng(list[p]) <=> group[g[1]] = g /\ p \in PagesFrom(val[g[1]].base)
  BY DEF MapInv, Core, Lists, State
<1>2. g \in active <=> group[g[1]] = g
  BY DEF MapInv, Core, Lights, State
<1>3. g \notin Onboard /\ g # Empty /\ g[1] \in SlotNames /\ g = <<g[1], g[2]>>
  BY ModuleIs
<1>4. \A s \in SlotNames :
        group[s] = IF val[s] # Empty /\ Shows(s, val[s]) THEN <<s, val[s].segment>> ELSE Empty
  BY DEF MapInv, SlotsAre
<1>5. g \in Wanted(p) <=>
        \E s \in SlotNames : /\ val[s] # Empty /\ Shows(s, val[s]) /\ p \in PagesFrom(val[s].base)
                             /\ g = <<s, val[s].segment>>
  BY <1>3 DEF Wanted, SlotNames
<1>6. \A s \in SlotNames : g = <<s, val[s].segment>> => s = g[1]
  OBVIOUS
<1>. QED
  BY <1>1, <1>2, <1>3, <1>4, <1>5, <1>6

LEMMA WantedIs ==
  ASSUME MapInv, NEW p \in Page
  PROVE  /\ Wanted(p) \subseteq Group
         /\ \A g \in Group : g \in Wanted(p) <=> g \in Rng(list[p]) /\ g \in active
<1>1. Group = Onboard \cup Modules
  BY DEF Group
<1>2. Wanted(p) \subseteq Group
  <2>1. ASSUME NEW s \in SlotNames, val[s] # Empty PROVE <<s, val[s].segment>> \in Modules
    <3>1. val[s] \in Byte
      BY <2>1 DEF MapInv, SlotsAre
    <3>2. val[s].segment \in 0 .. 15
      BY <3>1 DEF Byte
    <3>. QED
      BY <3>2 DEF Modules, SlotNames
  <2>. QED
    BY <1>1, <2>1 DEF Wanted, SlotNames
<1>. QED
  BY <1>1, <1>2, WantedOnboard, WantedModule

\* No two modules have the same priority.
ModulesDiffer ==
  \A s, t \in DOMAIN Slots : s # t => Prio(<<s, 0>>) # Prio(<<t, 0>>)

\* Of two groups of the machine that are wanted at a page one has the greater rank.
LEMMA OnboardDiffer ==
  ASSUME MapInv, NEW p \in Page, NEW g \in Onboard, NEW h \in Onboard,
         p \in PagesOf(g), p \in PagesOf(h), Lit(g, set), Lit(h, set), Rank(g) = Rank(h)
  PROVE  g = h
<1>1. /\ g \in Group /\ g[1] \in Names /\ h \in Group /\ h[1] \in Names
  BY SomeOnboard
<1>. DEFINE NameRank(n) == IF n = "RAM_0" THEN 0 ELSE IF n \in {"IRM", "IRM_X"} THEN 2
                           ELSE IF n \in {"CAOS_C", "CAOS_E"} THEN 4 ELSE IF n = "USER" THEN 5
                           ELSE IF n = "RAM_8" THEN 6 ELSE IF n = "RAM_4" THEN 8 ELSE 512
<1>2. ASSUME NEW x \in Group, x[1] \in Names
      PROVE  Rank(x) = NameRank(x[1])
  <2>1. x[1] \notin SlotNames
    BY <1>2, SlotFacts
  <2>. QED
    BY <1>2, <2>1, GroupIs, Ranks DEF Names
<1>3. NameRank(g[1]) = NameRank(h[1])
  BY <1>1, <1>2
<1>4. \/ g[1] = h[1]
      \/ g[1] = "IRM" /\ h[1] = "IRM_X"
      \/ g[1] = "IRM_X" /\ h[1] = "IRM"
      \/ g[1] = "CAOS_C" /\ h[1] = "CAOS_E"
      \/ g[1] = "CAOS_E" /\ h[1] = "CAOS_C"
  <2>1. \A a, b \in Names :
          NameRank(a) = NameRank(b) =>
            \/ a = b
            \/ a = "IRM" /\ b = "IRM_X"
            \/ a = "IRM_X" /\ b = "IRM"
            \/ a = "CAOS_C" /\ b = "CAOS_E"
            \/ a = "CAOS_E" /\ b = "CAOS_C"
    <3>1. ASSUME NEW a \in Names
          PROVE  \/ NameRank(a) = 0 /\ a = "RAM_0"
                 \/ NameRank(a) = 2 /\ (a = "IRM" \/ a = "IRM_X")
                 \/ NameRank(a) = 4 /\ (a = "CAOS_C" \/ a = "CAOS_E")
                 \/ NameRank(a) = 5 /\ a = "USER"
                 \/ NameRank(a) = 6 /\ a = "RAM_8"
                 \/ NameRank(a) = 8 /\ a = "RAM_4"
                 \/ NameRank(a) = 512 /\ a = "-"
      BY <3>1 DEF Names
    <3>. HIDE DEF NameRank
    <3>. QED
      BY ONLY <3>1
  <2>. HIDE DEF NameRank
  <2>. QED
    BY <1>1, <1>3, <2>1
<1>5. ASSUME NEW x \in Group
      PROVE  /\ x[1] = "IRM" => PagesOf(x) = {"8000"}
             /\ x[1] = "IRM_X" => PagesOf(x) = {"a800"}
             /\ x[1] = "CAOS_C" => PagesOf(x) = {"c000"}
             /\ x[1] = "CAOS_E" => PagesOf(x) = {"e000"}
  <2>1. x = Nothing <=> x[1] = "-"
    BY OnboardIs
  <2>. QED
    BY <2>1 DEF PagesOf
<1>6. g[1] = h[1]
  BY <1>1, <1>4, <1>5
<1>7. /\ g[1] \in {"RAM_8", "USER", "IRM", "IRM_X"} => g[2] = h[2]
  BY <1>6 DEF Lit
<1>8. g[1] = "RAM_8" \/ g[1] = "USER" \/ g[1] = "IRM" \/ g[1] = "IRM_X"
        \/ g[1] \in {"-", "RAM_0", "RAM_4", "CAOS_C", "CAOS_E"}
  BY <1>1 DEF Names
<1>9. /\ g[1] = "RAM_8" => \E b \in Blocks : g = Ram8(b)
      /\ h[1] = "RAM_8" => \E b \in Blocks : h = Ram8(b)
      /\ g[1] = "USER" => \E b \in Roms : g = User(b)
      /\ h[1] = "USER" => \E b \in Roms : h = User(b)
      /\ g[1] = "IRM" => \E b \in 0 .. 3 : g = Irm(b)
      /\ h[1] = "IRM" => \E b \in 0 .. 3 : h = Irm(b)
      /\ g[1] = "IRM_X" => \E b \in 0 .. 3 : g = IrmUpper(b)
      /\ h[1] = "IRM_X" => \E b \in 0 .. 3 : h = IrmUpper(b)
  BY <1>1, OnboardIs
<1>10. \A b : Ram8(b)[2] = b /\ User(b)[2] = b /\ Irm(b)[2] = b /\ IrmUpper(b)[2] = b
  BY DEF Ram8, User, Irm, IrmUpper
<1>11. CASE g[1] \in {"RAM_8", "USER", "IRM", "IRM_X"}
  BY <1>6, <1>7, <1>9, <1>10, <1>11
<1>12. CASE g[1] \in {"-", "RAM_0", "RAM_4", "CAOS_C", "CAOS_E"}
  <2>1. /\ h[1] = "-" => h = Nothing
        /\ h[1] = "RAM_0" => h = <<"RAM_0", 0>>
        /\ h[1] = "RAM_4" => h = <<"RAM_4", 0>>
        /\ h[1] = "CAOS_C" => h = <<"CAOS_C", 0>>
        /\ h[1] = "CAOS_E" => h = <<"CAOS_E", 0>>
    BY <1>1, OnboardIs
  <2>2. /\ g[1] = "-" => g = Nothing
        /\ g[1] = "RAM_0" => g = <<"RAM_0", 0>>
        /\ g[1] = "RAM_4" => g = <<"RAM_4", 0>>
        /\ g[1] = "CAOS_C" => g = <<"CAOS_C", 0>>
        /\ g[1] = "CAOS_E" => g = <<"CAOS_E", 0>>
    BY <1>1, OnboardIs
  <2>. QED
    BY <1>6, <1>12, <2>1, <2>2
<1>. QED
  BY <1>8, <1>11, <1>12

\* A module of RAM or a segmented one is behind all that the machine has but Nothing.
LEMMA RankOfModule ==
  ASSUME NEW g \in Modules
  PROVE  Rank(g) = 2 * Prio(<<g[1], 0>>) /\ Prio(g) = Prio(<<g[1], 0>>) /\ Prio(g) \in 8 .. 255
<1>1. g \in Group /\ g[1] \in SlotNames /\ g # Nothing /\ g[1] \notin Names
  BY ModuleIs, SomeOnboard
<1>2. Prio(g) = IF Slots[g[1]] = "ram" THEN Address[g[1]] ELSE 16
  BY <1>1, PrioByName
<1>3. <<g[1], 0>> # Nothing
  BY <1>1 DEF Nothing, Names
<1>4. Prio(<<g[1], 0>>) = IF Slots[g[1]] = "ram" THEN Address[g[1]] ELSE 16
  BY <1>1, <1>3, PrioByName
<1>5. Rank(g) = 2 * Prio(g)
  BY <1>1, Ranks DEF Names
<1>. QED
  BY <1>1, <1>2, <1>4, <1>5, SlotFacts

LEMMA WantedDiffer ==
  ASSUME MapInv, ModulesDiffer, NEW p \in Page, NEW g \in Wanted(p), NEW h \in Wanted(p),
         Rank(g) = Rank(h)
  PROVE  g = h
<1>1. /\ g \in Group /\ g \in Rng(list[p]) /\ g \in active
      /\ h \in Group /\ h \in Rng(list[p]) /\ h \in active
  BY WantedIs
<1>2. ASSUME NEW x \in Onboard, x \in Rng(list[p]), x \in active
      PROVE  p \in PagesOf(x) /\ Lit(x, set)
  BY <1>2 DEF MapInv, Core, Lists, Lights, State
<1>3. ASSUME NEW x \in Modules, x \in active PROVE group[x[1]] = x
  BY <1>3 DEF MapInv, Core, Lights, State
<1>4. ASSUME NEW x \in Onboard, NEW y \in Modules PROVE Rank(x) # Rank(y)
  <2>1. Rank(y) = 2 * Prio(y) /\ Prio(y) \in 8 .. 255
    BY RankOfModule
  <2>2. x \in Group /\ x[1] \notin SlotNames
    BY SomeOnboard, SlotFacts
  <2>3. Prio(x) \in {0, 1, 2, 3, 4, 256}
    BY <2>2, GroupIs
  <2>4. Rank(x) = IF x[1] = "USER" THEN 5 ELSE 2 * Prio(x)
    BY <2>2, Ranks
  <2>5. Rank(x) \in {0, 2, 4, 5, 6, 8, 512}
    BY <2>3, <2>4
  <2>. QED
    BY <2>1, <2>5
<1>5. Group = Onboard \cup Modules
  BY DEF Group
<1>6. CASE g \in Onboard /\ h \in Onboard
  BY <1>1, <1>2, <1>6, OnboardDiffer
<1>7. CASE g \in Modules /\ h \in Modules
  <2>1. /\ Rank(g) = 2 * Prio(<<g[1], 0>>) /\ Prio(<<g[1], 0>>) \in Int
        /\ Rank(h) = 2 * Prio(<<h[1], 0>>) /\ Prio(<<h[1], 0>>) \in Int
    BY <1>7, RankOfModule
  <2>2. Prio(<<g[1], 0>>) = Prio(<<h[1], 0>>)
    <3>1. \A a, b \in Int : 2 * a = 2 * b => a = b
      OBVIOUS
    <3>2. 2 * Prio(<<g[1], 0>>) = 2 * Prio(<<h[1], 0>>)
      BY ONLY <2>1, Rank(g) = Rank(h)
    <3>. QED
      BY ONLY <2>1, <3>1, <3>2
  <2>3. g[1] \in DOMAIN Slots /\ h[1] \in DOMAIN Slots
    BY <1>7, ModuleIs DEF SlotNames
  <2>4. g[1] = h[1]
    BY <2>2, <2>3 DEF ModulesDiffer
  <2>. QED
    BY <1>1, <1>3, <1>7, <2>4
<1>. QED
  BY <1>1, <1>4, <1>5, <1>6, <1>7

\* What is read-only is what is protected.
LEMMA ProtectedIs ==
  ASSUME MapInv, NEW p \in Page, NEW g \in Wanted(p)
  PROVE  g \in ro <=> Protected(g)
<1>1. g \in Group /\ g \in active /\ Group = Onboard \cup Modules
  BY WantedIs DEF Group
<1>2. /\ \A x \in Onboard : x \in ro <=> Locked(x, set)
      /\ \A x \in Modules : x \in ro <=> group[x[1]] = x /\ ~val[x[1]].we
      /\ \A x \in Modules : x \in active <=> group[x[1]] = x
  BY DEF MapInv, Core, Guards, Lights, State
<1>3. CASE g \in Onboard
  <2>1. g[1] \notin SlotNames
    BY <1>3, SomeOnboard, SlotFacts
  <2>. QED
    BY <1>2, <1>3, <2>1 DEF Locked, Protected, SlotNames
<1>4. CASE g \in Modules
  <2>1. g[1] \in SlotNames /\ g[1] \notin Names /\ g \notin Onboard
    BY <1>4, SomeOnboard, ModuleIs
  <2>2. g \notin ReadOnly
    BY <2>1, SomeOnboard DEF ReadOnly
  <2>3. g[1] # "RAM_0" /\ g[1] # "RAM_4" /\ g[1] # "RAM_8"
    BY <2>1 DEF Names
  <2>. QED
    BY <1>1, <1>2, <1>4, <2>1, <2>2, <2>3 DEF Protected, SlotNames
<1>. QED
  BY <1>1, <1>3, <1>4

LEMMA MapTypes == MapInv => TypeOK
<1>. SUFFICES ASSUME MapInv PROVE TypeOK
  OBVIOUS
<1>1. \A p \in Page : Seqs!ToSet(list[p]) \subseteq Group /\ Seqs!IsInjective(list[p])
  BY ListSet, Seen
<1>2. active \subseteq Group /\ ro \subseteq Group
  BY DEF MapInv, Core, Lights, Guards, State
<1>3. read \in [Page -> Group] /\ write \in [Page -> Group]
  <2>1. \A p \in Page : read[p] \in Group /\ write[p] \in Group
    BY Seen
  <2>2. "0000" \in Page
    BY DEF Page
  <2>3. read = [q \in Page |-> read[q]] /\ write = [q \in Page |-> write[q]]
    BY <2>2, Seen
  <2>. QED
    BY <2>1, <2>3
<1>4. DOMAIN switch = DOMAIN AtReset /\ switch.block \in 0 .. 15 /\ switch.rom \in 0 .. 3
  <2>1. Switches(switch, set) /\ Setting(set)
    BY DEF MapInv, Core, State
  <2>2. set.segment \in 0 .. 15 /\ set.rom \in 0 .. 3
    BY <2>1 DEF Setting, AllFields, Value
  <2>3. BlockOf(set.segment) \in 0 .. 15
    BY <2>2 DEF BlockOf
  <2>. QED
    BY <2>1, <2>2, <2>3 DEF Switches
<1>5. \A p \in Ports : latch[p] = Empty \/ DOMAIN latch[p] = Seqs!ToSet(Fields[p])
  BY DEF MapInv, LatchOK
<1>6. ASSUME NEW s \in SlotNames PROVE group[s] = Empty \/ group[s] \in Modules
  <2>1. val[s] # Empty => val[s].segment \in 0 .. 15
    BY DEF MapInv, SlotsAre, Byte
  <2>. QED
    BY <2>1 DEF MapInv, SlotsAre, Modules, SlotNames
<1>. QED
  BY <1>1, <1>2, <1>3, <1>4, <1>5, <1>6 DEF TypeOK, SlotNames

LEMMA MapFresh == MapInv => PointersFresh
BY Seen DEF PointersFresh

LEMMA MapSafe == MapInv /\ ModulesDiffer => MapFollowsSwitches
<1>. SUFFICES ASSUME MapInv, ModulesDiffer, NEW p \in Page
              PROVE  \E g \in Wanted(p) :
                       /\ \A h \in Wanted(p) \ {g} : Rank(g) < Rank(h)
                       /\ read[p] = g
                       /\ write[p] = IF Protected(g) THEN Nothing ELSE g
  BY DEF MapFollowsSwitches
<1>. DEFINE g == read[p]
<1>1. g \in Wanted(p)
  BY Seen, WantedIs
<1>2. ASSUME NEW h \in Wanted(p) \ {g} PROVE Rank(g) < Rank(h)
  <2>1. h \in Rng(list[p]) /\ h \in active /\ h \in Group /\ g \in Group
    BY Seen, WantedIs
  <2>2. Rank(g) <= Rank(h)
    BY <2>1, Seen
  <2>3. Rank(g) # Rank(h)
    BY <1>1, <1>2, WantedDiffer
  <2>4. Rank(g) \in Int /\ Rank(h) \in Int
    BY <2>1, Ranks
  <2>. QED
    BY <2>2, <2>3, <2>4
<1>3. write[p] = IF Protected(g) THEN Nothing ELSE g
  BY <1>1, Seen, ProtectedIs
<1>. QED
  BY <1>1, <1>2, <1>3
-----------------------------------------------------------------------------
(***************************************************************************)
(* The port map.                                                           *)
(***************************************************************************)

\* What is behind the modules in the list of a port.
Rest(p) ==
  IF p \in Machine THEN <<Map!Group(Map!Chip, 10), Map!Group(Map!Null, 256)>>
                   ELSE <<Map!Group(Map!Null, 256)>>

Fixed == {Map!Chip, Map!Null}
Groups(A) == [obj : A \cup Fixed, prio : {0, 10, 256}]

\* The list has the groups of the objects A, each once, and the rest behind them.
Holds(l, A, p) ==
  /\ l \in Seq(Groups(A))
  /\ \E m \in Nat :
       /\ Len(l) = m + Len(Rest(p))
       /\ \A k \in 1 .. m : l[k].prio = 0 /\ l[k].obj \in A
       /\ \A o \in A : \E k \in 1 .. m : l[k].obj = o
       /\ \A j, k \in 1 .. m : l[j].obj = l[k].obj => j = k
       /\ \A k \in 1 .. Len(Rest(p)) : l[m + k] = Rest(p)[k]

LEMMA RestIs ==
  ASSUME NEW p
  PROVE  /\ Rest(p) \in Seq(Groups({})) /\ Len(Rest(p)) \in {1, 2}
         /\ \A k \in 1 .. Len(Rest(p)) : Rest(p)[k].prio \in {10, 256} /\ Rest(p)[k].obj \in Fixed
         /\ Rest(p)[Len(Rest(p))].obj = Map!Null
         /\ p \in Machine => \E k \in 1 .. Len(Rest(p)) : Rest(p)[k].obj = Map!Chip
         /\ p \notin Machine => \A k \in 1 .. Len(Rest(p)) : Rest(p)[k].obj = Map!Null
<1>. DEFINE c == Map!Group(Map!Chip, 10)
            n == Map!Group(Map!Null, 256)
<1>1. c \in Groups({}) /\ n \in Groups({})
  BY DEF Map!Group, Groups, Fixed
<1>2. /\ c.obj = Map!Chip /\ c.prio = 10
      /\ n.obj = Map!Null /\ n.prio = 256
  BY DEF Map!Group
<1>3. CASE p \in Machine
  <2>1. Rest(p) = <<c, n>>
    BY <1>3 DEF Rest
  <2>. HIDE DEF c, n
  <2>2. Rest(p) \in Seq(Groups({})) /\ Len(Rest(p)) = 2 /\ Rest(p)[1] = c /\ Rest(p)[2] = n
    BY <1>1, <2>1
  <2>3. 1 .. Len(Rest(p)) = {1, 2}
    BY <2>2
  <2>. QED
    BY <1>2, <1>3, <2>2, <2>3 DEF Fixed
<1>4. CASE p \notin Machine
  <2>1. Rest(p) = <<n>>
    BY <1>4 DEF Rest
  <2>. HIDE DEF c, n
  <2>2. Rest(p) \in Seq(Groups({})) /\ Len(Rest(p)) = 1 /\ Rest(p)[1] = n
    BY <1>1, <2>1
  <2>3. 1 .. Len(Rest(p)) = {1}
    BY <2>2
  <2>. QED
    BY <1>2, <1>4, <2>2, <2>3 DEF Fixed
<1>. QED
  BY <1>3, <1>4

\* A group of a module is inserted behind those of the other modules.
LEMMA InsertedHolds ==
  ASSUME NEW l, NEW A, NEW p, Holds(l, A, p), NEW o, o \notin A
  PROVE  Holds(Map!Inserted(l, Map!Group(o, 0)), A \cup {o}, p)
<1>. DEFINE g == Map!Group(o, 0)
            G == Groups(A \cup {o})
            R == Rest(p)
            t == Map!Inserted(l, g)
<1>1. PICK m \in Nat :
       /\ Len(l) = m + Len(R)
       /\ \A k \in 1 .. m : l[k].prio = 0 /\ l[k].obj \in A
       /\ \A x \in A : \E k \in 1 .. m : l[k].obj = x
       /\ \A j, k \in 1 .. m : l[j].obj = l[k].obj => j = k
       /\ \A k \in 1 .. Len(R) : l[m + k] = R[k]
  BY DEF Holds
<1>2. Len(R) \in {1, 2} /\ \A k \in 1 .. Len(R) : R[k].prio \in {10, 256}
  BY RestIs
<1>3. g.obj = o /\ g.prio = 0 /\ g \in G
  BY DEF Map!Group, Groups
<1>4. l \in Seq(G)
  <2>1. Groups(A) \subseteq G
    BY DEF Groups
  <2>2. l \in Seq(Groups(A))
    BY DEF Holds
  <2>. HIDE DEF G
  <2>. QED
    BY <2>1, <2>2, SeqMonotonic
<1>. DEFINE Is(n) == /\ \A k \in 1 .. n : l[k].prio <= 0
                     /\ n < Len(l) => l[n + 1].prio > 0
            n == Map!Place(l, 0)
<1>. HIDE DEF g, R
<1>5. t = SubSeq(l, 1, n) \o <<g>> \o SubSeq(l, n + 1, Len(l))
  BY <1>3 DEF Map!Inserted
<1>. HIDE DEF t, G
<1>6. m \in 0 .. Len(l) /\ Is(m)
  <2>1. l[m + 1] = R[1] /\ R[1].prio \in {10, 256}
    BY <1>1, <1>2
  <2>2. \A k \in 1 .. m : l[k].prio <= 0
    BY <1>1, <1>3
  <2>3. l[m + 1].prio > 0
    BY <1>3, <2>1
  <2>. QED
    BY <1>1, <1>2, <2>2, <2>3
<1>7. n \in 0 .. Len(l) /\ Is(n)
  BY <1>6 DEF Map!Place
<1>8. n = m
  <2>. HIDE DEF n
  <2>1. ASSUME n < m PROVE FALSE
    <3>1. n + 1 \in 1 .. m /\ n < Len(l)
      BY <1>1, <1>2, <1>7, <2>1
    <3>. QED
      BY <1>1, <1>3, <1>7, <3>1
  <2>2. ASSUME n > m PROVE FALSE
    <3>1. m + 1 \in 1 .. n /\ 1 \in 1 .. Len(R)
      BY <1>1, <1>2, <1>7, <2>2
    <3>2. l[m + 1].prio \in {10, 256}
      BY <1>1, <1>2, <3>1
    <3>3. l[m + 1].prio <= 0
      BY <1>3, <1>7, <3>1
    <3>. QED
      BY <3>2, <3>3
  <2>. QED
    BY <1>1, <1>7, <2>1, <2>2
<1>. HIDE DEF n, Is
<1>9. /\ t \in Seq(G) /\ Len(t) = Len(l) + 1
      /\ \A k \in 1 .. m : t[k] = l[k]
      /\ t[m + 1] = g
      /\ \A k \in m + 1 .. Len(l) : t[k + 1] = l[k]
  <2>1. t = SubSeq(l, 1, m) \o <<g>> \o SubSeq(l, m + 1, Len(l))
    BY <1>5, <1>8
  <2>2. l \in Seq(G) /\ m \in 0 .. Len(l) /\ g \in G
    BY <1>3, <1>4, <1>6
  <2>3. PutIn(t, G, l, m, g)
    BY <2>1, <2>2, Put, Zenon
  <2>. QED
    BY <2>3 DEF PutIn
<1>10. m + 1 \in Nat /\ Len(t) = (m + 1) + Len(R)
  BY <1>1, <1>2, <1>9
<1>11. \A k \in 1 .. m + 1 : k \in 1 .. m \/ k = m + 1
  BY <1>1
<1>12. \A k \in 1 .. m + 1 : t[k].prio = 0 /\ t[k].obj \in A \cup {o}
  <2>1. \A k \in 1 .. m : t[k].prio = 0 /\ t[k].obj \in A
    BY <1>1, <1>9
  <2>2. t[m + 1].prio = 0 /\ t[m + 1].obj = o
    BY <1>3, <1>9
  <2>. QED
    BY <1>11, <2>1, <2>2
<1>13. \A x \in A \cup {o} : \E k \in 1 .. m + 1 : t[k].obj = x
  <2>1. \A k \in 1 .. m : k \in 1 .. m + 1
    BY <1>1
  <2>2. m + 1 \in 1 .. m + 1
    BY <1>1
  <2>. QED
    BY <1>1, <1>3, <1>9, <2>1, <2>2
<1>14. \A j, k \in 1 .. m + 1 : t[j].obj = t[k].obj => j = k
  <2>1. \A k \in 1 .. m : t[k].obj = l[k].obj /\ t[k].obj \in A
    BY <1>1, <1>9
  <2>2. t[m + 1].obj = o
    BY <1>3, <1>9
  <2>. QED
    BY <1>1, <1>11, <2>1, <2>2
<1>15. \A k \in 1 .. Len(R) : t[(m + 1) + k] = R[k]
  <2>. SUFFICES ASSUME NEW k \in 1 .. Len(R) PROVE t[(m + 1) + k] = R[k]
    OBVIOUS
  <2>1. m + k \in m + 1 .. Len(l) /\ (m + k) + 1 = (m + 1) + k
    BY <1>1, <1>2
  <2>. QED
    BY <1>1, <1>9, <2>1
<1>. QED
  BY <1>9, <1>10, <1>12, <1>13, <1>14, <1>15 DEF Holds, R, g, t, G

\* The group of an object is taken out, and it alone.
LEMMA WithoutHolds ==
  ASSUME NEW l, NEW A, NEW p, Holds(l, A, p), NEW o \in A, o \notin Fixed
  PROVE  Holds(Map!Without(l, o), A \ {o}, p)
<1>. DEFINE R == Rest(p)
            t == Map!Without(l, o)
<1>1. PICK m \in Nat :
       /\ Len(l) = m + Len(R)
       /\ \A k \in 1 .. m : l[k].prio = 0 /\ l[k].obj \in A
       /\ \A x \in A : \E k \in 1 .. m : l[k].obj = x
       /\ \A j, k \in 1 .. m : l[j].obj = l[k].obj => j = k
       /\ \A k \in 1 .. Len(R) : l[m + k] = R[k]
  BY DEF Holds
<1>2. /\ Len(R) \in {1, 2}
      /\ \A k \in 1 .. Len(R) : R[k].prio \in {10, 256} /\ R[k].obj \in Fixed
  BY RestIs
<1>3. l \in Seq(Groups(A)) /\ DOMAIN l = 1 .. Len(l)
  BY LenProperties DEF Holds
<1>4. PICK n \in 1 .. m : l[n].obj = o
  BY <1>1
<1>. HIDE DEF R
<1>5. \A k \in DOMAIN l : l[k].obj = o => k = n
  <2>. SUFFICES ASSUME NEW k \in DOMAIN l, l[k].obj = o PROVE k = n
    OBVIOUS
  <2>1. CASE k \in 1 .. m
    BY <1>1, <1>4, <2>1
  <2>2. CASE k \notin 1 .. m
    <3>1. k - m \in 1 .. Len(R) /\ m + (k - m) = k
      BY <1>1, <1>2, <1>3, <2>2
    <3>2. l[k] = R[k - m]
      BY <1>1, <3>1
    <3>. QED
      BY <1>2, <3>1, <3>2
  <2>. QED
    BY <2>1, <2>2
<1>6. n \in DOMAIN l /\ n \in 1 .. Len(l)
  BY <1>1, <1>2, <1>3
<1>7. t = SubSeq(l, 1, n - 1) \o SubSeq(l, n + 1, Len(l))
  <2>1. Map!Found(l, o) = n
    BY <1>4, <1>5, <1>6 DEF Map!Found
  <2>. QED
    BY <1>4, <1>6, <2>1 DEF Map!Without
<1>. HIDE DEF t
<1>8. /\ t \in Seq(Groups(A)) /\ Len(t) = Len(l) - 1
      /\ \A k \in 1 .. n - 1 : t[k] = l[k]
      /\ \A k \in n + 1 .. Len(l) : t[k - 1] = l[k]
  <2>1. l \in Seq(Groups(A)) /\ n \in 1 .. Len(l)
    BY <1>3, <1>6
  <2>2. TakenOut(t, Groups(A), l, n)
    BY <1>7, <2>1, Take, Zenon
  <2>. QED
    BY <2>2 DEF TakenOut
<1>9. \A k \in 1 .. Len(t) : t[k] = l[IF k < n THEN k ELSE k + 1]
  <2>. SUFFICES ASSUME NEW k \in 1 .. Len(t) PROVE t[k] = l[IF k < n THEN k ELSE k + 1]
    OBVIOUS
  <2>1. CASE k < n
    <3>1. k \in 1 .. n - 1
      BY <1>4, <2>1
    <3>. QED
      BY <1>8, <2>1, <3>1
  <2>2. CASE ~(k < n)
    <3>1. k + 1 \in n + 1 .. Len(l) /\ (k + 1) - 1 = k
      BY <1>1, <1>2, <1>4, <1>8, <2>2
    <3>. QED
      BY <1>8, <2>2, <3>1
  <2>. QED
    BY <2>1, <2>2
<1>. DEFINE i(k) == IF k < n THEN k ELSE k + 1
<1>10. m - 1 \in Nat /\ Len(t) = (m - 1) + Len(R)
  BY <1>1, <1>2, <1>4, <1>8
<1>11. \A k \in 1 .. m - 1 : i(k) \in 1 .. m /\ i(k) # n /\ t[k] = l[i(k)]
  <2>. SUFFICES ASSUME NEW k \in 1 .. m - 1
                PROVE  i(k) \in 1 .. m /\ i(k) # n /\ t[k] = l[i(k)]
    OBVIOUS
  <2>1. k \in 1 .. Len(t)
    BY <1>2, <1>10
  <2>2. t[k] = l[i(k)]
    BY <1>9, <2>1
  <2>3. i(k) \in 1 .. m /\ i(k) # n
    BY <1>1, <1>4
  <2>. QED
    BY <2>2, <2>3
<1>12. \A k \in 1 .. m - 1 : t[k].prio = 0 /\ t[k].obj \in A \ {o}
  <2>. HIDE DEF i
  <2>1. n \in 1 .. m
    BY <1>4
  <2>. QED
    BY <1>1, <1>4, <1>11
<1>13. \A x \in A \ {o} : \E k \in 1 .. m - 1 : t[k].obj = x
  <2>. SUFFICES ASSUME NEW x \in A \ {o} PROVE \E k \in 1 .. m - 1 : t[k].obj = x
    OBVIOUS
  <2>1. PICK j \in 1 .. m : l[j].obj = x
    BY <1>1
  <2>2. j # n
    BY <1>4, <2>1
  <2>3. CASE j < n
    <3>1. j \in 1 .. m - 1 /\ j \in 1 .. n - 1
      BY <1>4, <2>3
    <3>. QED
      BY <1>8, <2>1, <3>1
  <2>4. CASE j > n
    <3>1. j - 1 \in 1 .. m - 1 /\ j \in n + 1 .. Len(l)
      BY <1>1, <1>2, <1>4, <2>4
    <3>. QED
      BY <1>8, <2>1, <3>1
  <2>. QED
    BY <1>4, <2>2, <2>3, <2>4
<1>14. \A j, k \in 1 .. m - 1 : t[j].obj = t[k].obj => j = k
  <2>. SUFFICES ASSUME NEW j \in 1 .. m - 1, NEW k \in 1 .. m - 1, t[j].obj = t[k].obj
                PROVE  j = k
    OBVIOUS
  <2>1. i(j) = i(k)
    <3>. HIDE DEF i
    <3>. QED
      BY <1>1, <1>11
  <2>. QED
    BY <1>4, <2>1
<1>15. \A k \in 1 .. Len(R) : t[(m - 1) + k] = R[k]
  <2>. SUFFICES ASSUME NEW k \in 1 .. Len(R) PROVE t[(m - 1) + k] = R[k]
    OBVIOUS
  <2>1. m + k \in n + 1 .. Len(l) /\ (m + k) - 1 = (m - 1) + k
    BY <1>1, <1>2, <1>4
  <2>. QED
    BY <1>1, <1>8, <2>1
<1>16. t \in Seq(Groups(A \ {o}))
  <2>. DEFINE G == Groups(A \ {o})
  <2>1. ASSUME NEW k \in 1 .. Len(t) PROVE t[k] \in G
    <3>1. t[k] \in Groups(A)
      BY <1>8, ElementOfSeq
    <3>2. t[k].obj # o
      <4>1. CASE k \in 1 .. m - 1
        BY <1>12, <4>1
      <4>2. CASE k \notin 1 .. m - 1
        <5>1. k - (m - 1) \in 1 .. Len(R) /\ (m - 1) + (k - (m - 1)) = k
          BY <1>2, <1>10, <4>2
        <5>. QED
          BY <1>2, <1>15, <5>1
      <4>. QED
        BY <4>1, <4>2
    <3>. QED
      BY <3>1, <3>2 DEF Groups
  <2>. HIDE DEF G
  <2>2. t = [k \in 1 .. Len(t) |-> t[k]] /\ Len(t) \in Nat
    BY <1>8, LenProperties
  <2>3. t \in [1 .. Len(t) -> G]
    BY <2>1, <2>2
  <2>4. t \in Seq(G)
    BY <2>2, <2>3, SeqDef
  <2>. QED
    BY <2>4 DEF G
<1>. QED
  BY <1>10, <1>12, <1>13, <1>14, <1>15, <1>16 DEF Holds, R, t
-----------------------------------------------------------------------------
\* The state the functions of the port map work on.
IsState(r) ==
  r = [list |-> r.list, ptr |-> r.ptr, alive |-> r.alive, count |-> r.count,
       drives |-> r.drives, global |-> r.global]

\* Every port has the groups of its objects, and points to the first one.
Good(r, A) ==
  /\ IsState(r)
  /\ \A p \in Map!Port : Holds(r.list[p], A[p], p)
  /\ r.ptr = [p \in Map!Port |-> Head(r.list[p]).obj]

With(A, opens, o) == [p \in Map!Port |-> IF p \in opens THEN A[p] \cup {o} ELSE A[p]]
Minus(A, opens, o) == [p \in Map!Port |-> IF p \in opens THEN A[p] \ {o} ELSE A[p]]

LEMMA RegisterGood ==
  ASSUME NEW r, NEW A, Good(r, A), NEW opens, NEW o, \A p \in opens : o \notin A[p]
  PROVE  /\ Good(Map!Register(r, opens, o, 0), With(A, opens, o))
         /\ Map!Register(r, opens, o, 0).alive = r.alive
<1>. DEFINE t == Map!Register(r, opens, o, 0)
            l == [p \in Map!Port |-> IF p \in opens THEN Map!Inserted(r.list[p], Map!Group(o, 0))
                                                    ELSE r.list[p]]
<1>1. r = [list |-> r.list, ptr |-> r.ptr, alive |-> r.alive, count |-> r.count,
           drives |-> r.drives, global |-> r.global]
  BY DEF Good, IsState
<1>2. t = [list |-> l, ptr |-> [p \in Map!Port |-> Head(l[p]).obj], alive |-> r.alive,
           count |-> r.count, drives |-> r.drives, global |-> r.global]
  <2>. DEFINE s == [r EXCEPT !.list = l]
  <2>1. s = [list |-> l, ptr |-> r.ptr, alive |-> r.alive, count |-> r.count,
             drives |-> r.drives, global |-> r.global]
    <3>. HIDE DEF l
    <3>. QED
      BY <1>1
  <2>2. t = [s EXCEPT !.ptr = [p \in Map!Port |-> Head(s.list[p]).obj]]
    BY DEF Map!Register, Map!Reloaded
  <2>. HIDE DEF s, t, l
  <2>3. s.list = l
    BY <2>1
  <2>. QED
    BY <2>1, <2>2, <2>3
<1>3. ASSUME NEW p \in Map!Port
      PROVE  Holds(l[p], With(A, opens, o)[p], p)
  <2>1. Holds(r.list[p], A[p], p)
    BY DEF Good
  <2>2. CASE p \in opens
    <3>1. Holds(Map!Inserted(r.list[p], Map!Group(o, 0)), A[p] \cup {o}, p)
      BY <2>1, <2>2, InsertedHolds
    <3>. QED
      BY <2>2, <3>1 DEF With
  <2>3. CASE p \notin opens
    BY <2>1, <2>3 DEF With
  <2>. QED
    BY <2>2, <2>3
<1>. HIDE DEF l, t
<1>4. IsState(t) /\ t.list = l /\ t.ptr = [p \in Map!Port |-> Head(l[p]).obj] /\ t.alive = r.alive
  BY <1>2 DEF IsState
<1>. QED
  BY <1>3, <1>4 DEF Good, t

LEMMA UnregisterGood ==
  ASSUME NEW r, NEW A, Good(r, A), NEW opens, NEW o, \A p \in opens : o \in A[p], o \notin Fixed
  PROVE  /\ Good(Map!Unregister(r, opens, o), Minus(A, opens, o))
         /\ Map!Unregister(r, opens, o).alive = r.alive
<1>. DEFINE t == Map!Unregister(r, opens, o)
            l == [p \in Map!Port |-> IF p \in opens THEN Map!Without(r.list[p], o) ELSE r.list[p]]
<1>1. r = [list |-> r.list, ptr |-> r.ptr, alive |-> r.alive, count |-> r.count,
           drives |-> r.drives, global |-> r.global]
  BY DEF Good, IsState
<1>2. t = [list |-> l, ptr |-> [p \in Map!Port |-> Head(l[p]).obj], alive |-> r.alive,
           count |-> r.count, drives |-> r.drives, global |-> r.global]
  <2>. DEFINE s == [r EXCEPT !.list = l]
  <2>1. s = [list |-> l, ptr |-> r.ptr, alive |-> r.alive, count |-> r.count,
             drives |-> r.drives, global |-> r.global]
    <3>. HIDE DEF l
    <3>. QED
      BY <1>1
  <2>2. t = [s EXCEPT !.ptr = [p \in Map!Port |-> Head(s.list[p]).obj]]
    BY DEF Map!Unregister, Map!Reloaded
  <2>. HIDE DEF s, t, l
  <2>3. s.list = l
    BY <2>1
  <2>. QED
    BY <2>1, <2>2, <2>3
<1>3. ASSUME NEW p \in Map!Port
      PROVE  Holds(l[p], Minus(A, opens, o)[p], p)
  <2>1. Holds(r.list[p], A[p], p)
    BY DEF Good
  <2>2. CASE p \in opens
    <3>1. Holds(Map!Without(r.list[p], o), A[p] \ {o}, p)
      BY <2>1, <2>2, WithoutHolds
    <3>. QED
      BY <2>2, <3>1 DEF Minus
  <2>3. CASE p \notin opens
    BY <2>1, <2>3 DEF Minus
  <2>. QED
    BY <2>2, <2>3
<1>. HIDE DEF l, t
<1>4. IsState(t) /\ t.list = l /\ t.ptr = [p \in Map!Port |-> Head(l[p]).obj] /\ t.alive = r.alive
  BY <1>2 DEF IsState
<1>. QED
  BY <1>3, <1>4 DEF Good, t

\* What registers and interfaces do not depend on.
LEMMA OthersGood ==
  ASSUME NEW r, NEW A, Good(r, A), NEW s, IsState(s), s.list = r.list, s.ptr = r.ptr
  PROVE  Good(s, A)
BY DEF Good

\* The modules there are when there is no display controller.
PortModules(n) == [kind : Kinds, n : 1 .. n, ports : SUBSET Map!Port, valid : BOOLEAN]
SlotsOK(sl, n) ==
  /\ sl \in [PortSlots -> PortModules(n) \cup {Map!Empty}]
  /\ \A s, t \in PortSlots : s # t /\ sl[s] # Map!Empty /\ sl[t] # Map!Empty => sl[s].n # sl[t].n

LEMMA KindsAre ==
  ASSUME NEW m, m.kind \in Kinds
  PROVE  /\ Map!Interface(m) \notin Fixed /\ m # Map!Empty
         /\ Map!Interface(m).n = m.n
<1>1. m.kind \notin {"null", "chip", "empty"}
  BY PortsAssumption DEF Map!PortMapAssumption, Map!Single, Map!Switched, Map!Other
<1>. QED
  BY <1>1 DEF Map!Interface, Map!Empty, Map!Null, Map!Chip, Fixed

LEMMA ConstructGood ==
  ASSUME NEW r, NEW A, Good(r, A), NEW m, \A p \in m.ports : Map!Interface(m) \notin A[p]
  PROVE  /\ Good(Map!Construct(r, m), With(A, m.ports, Map!Interface(m)))
         /\ r.alive \subseteq Map!Construct(r, m).alive
         /\ Map!Construct(r, m).alive \subseteq r.alive \cup {Map!Interface(m)}
         /\ ~(m.kind \in Map!Global /\ ~m.valid) => Map!Interface(m) \in Map!Construct(r, m).alive
<1>. DEFINE o == Map!Interface(m)
            t == Map!Construct(r, m)
            a == IF m.kind \in Map!Global /\ ~m.valid THEN r.alive ELSE r.alive \cup {o}
            c == IF m.kind \in Map!Single THEN [r.count EXCEPT ![m.kind] = 1] ELSE r.count
            d == IF m.kind = "ramf" THEN r.drives \ m.ports ELSE r.drives
            g == IF m.kind \in Map!Global /\ m.valid THEN [r.global EXCEPT ![m.kind] = o] ELSE r.global
            s == [r EXCEPT !.alive = a, !.count = c, !.drives = d, !.global = g]
<1>1. t = IF m.ports = {} THEN s ELSE Map!Register(s, m.ports, o, 0)
  BY DEF Map!Construct
<1>2. s = [list |-> r.list, ptr |-> r.ptr, alive |-> a, count |-> c, drives |-> d, global |-> g]
  <2>1. r = [list |-> r.list, ptr |-> r.ptr, alive |-> r.alive, count |-> r.count,
             drives |-> r.drives, global |-> r.global]
    BY DEF Good, IsState
  <2>2. PICK l, p, x, y, z, w :
          r = [list |-> l, ptr |-> p, alive |-> x, count |-> y, drives |-> z, global |-> w]
    BY <2>1
  <2>3. s = [r EXCEPT !.alive = a, !.count = c, !.drives = d, !.global = g]
    OBVIOUS
  <2>. HIDE DEF s, a, c, d, g
  <2>4. s = [list |-> l, ptr |-> p, alive |-> a, count |-> c, drives |-> d, global |-> g]
    BY <2>2, <2>3
  <2>5. r.list = l /\ r.ptr = p
    BY <2>2
  <2>. QED
    BY <2>4, <2>5
<1>3. r.alive \subseteq a /\ a \subseteq r.alive \cup {o} /\ (~(m.kind \in Map!Global /\ ~m.valid) => o \in a)
  OBVIOUS
<1>. HIDE DEF a, c, d, g, s, t, o
<1>4. Good(s, A) /\ s.alive = a
  <2>1. IsState(s) /\ s.list = r.list /\ s.ptr = r.ptr /\ s.alive = a
    BY <1>2 DEF IsState
  <2>. QED
    BY <2>1, OthersGood
<1>5. CASE m.ports = {}
  <2>1. \A p \in Map!Port : With(A, m.ports, o)[p] = A[p]
    BY <1>5 DEF With
  <2>2. Good(s, With(A, m.ports, o))
    BY <1>4, <2>1 DEF Good
  <2>. QED
    BY <1>1, <1>3, <1>4, <1>5, <2>2 DEF t, o
<1>6. CASE m.ports # {}
  <2>1. t = Map!Register(s, m.ports, o, 0)
    BY <1>1, <1>6
  <2>2. Good(t, With(A, m.ports, o)) /\ t.alive = s.alive
    BY <1>4, <2>1, RegisterGood DEF o
  <2>. QED
    BY <1>3, <1>4, <2>2 DEF t, o
<1>. QED
  BY <1>5, <1>6

LEMMA DestructGood ==
  ASSUME NEW r, NEW A, Good(r, A), NEW m, m.kind \in Kinds, "gdc" \notin Kinds,
         \A p \in m.ports : Map!Interface(m) \in A[p],
         m.kind \in Map!Switched => m.ports = {}
  PROVE  /\ Good(Map!Destruct(r, m), Minus(A, m.ports, Map!Interface(m)))
         /\ Map!Null \in Map!Destruct(r, m).alive
         /\ r.alive \ {Map!Interface(m)} \subseteq Map!Destruct(r, m).alive
<1>. DEFINE o == Map!Interface(m)
            t == Map!Destruct(r, m)
            s == IF m.kind \in Map!Switched THEN r ELSE Map!Released(r, m)
            gone == IF m.kind = "gdc" THEN r.global["gdc"]
                    ELSE IF m.kind = "fdc" /\ ~m.valid THEN Map!Null
                    ELSE o
            a == (s.alive \ {gone}) \cup {Map!Null}
            g == [k \in DOMAIN s.global |-> IF s.global[k] = gone THEN Map!Null ELSE s.global[k]]
            u == [s EXCEPT !.alive = a, !.global = g]
            c == IF m.kind \in Map!Single /\ m.valid THEN [u.count EXCEPT ![m.kind] = 0] ELSE u.count
            d == IF m.kind = "ramf" THEN u.drives \cup m.ports ELSE u.drives
            B == Minus(A, m.ports, o)
<1>1. t = [u EXCEPT !.count = c, !.drives = d]
  BY DEF Map!Destruct, Map!Freed
<1>2. gone \in {o, Map!Null}
  OBVIOUS
<1>. HIDE DEF o, c, d, g, t
<1>3. Good(s, B) /\ s.alive = r.alive
  <2>1. CASE m.ports = {}
    <3>1. s = r
      BY <2>1 DEF Map!Released
    <3>2. \A p \in Map!Port : B[p] = A[p]
      BY <2>1 DEF Minus
    <3>. HIDE DEF s, B
    <3>. QED
      BY <3>1, <3>2 DEF Good
  <2>2. CASE m.ports # {}
    <3>1. s = Map!Unregister(r, m.ports, o)
      BY <2>2 DEF Map!Released, o
    <3>2. o \notin Fixed
      BY KindsAre DEF o
    <3>3. \A p \in m.ports : o \in A[p]
      BY DEF o
    <3>. HIDE DEF s
    <3>. QED
      BY <3>1, <3>2, <3>3, UnregisterGood
  <2>. QED
    BY <2>1, <2>2
<1>. HIDE DEF s, gone, B
<1>4. u = [list |-> s.list, ptr |-> s.ptr, alive |-> a, count |-> s.count,
           drives |-> s.drives, global |-> g]
  <2>1. s = [list |-> s.list, ptr |-> s.ptr, alive |-> s.alive, count |-> s.count,
             drives |-> s.drives, global |-> s.global]
    BY <1>3 DEF Good, IsState
  <2>2. PICK l, p, x, y, z, w :
          s = [list |-> l, ptr |-> p, alive |-> x, count |-> y, drives |-> z, global |-> w]
    BY <2>1
  <2>3. u = [s EXCEPT !.alive = a, !.global = g]
    OBVIOUS
  <2>. HIDE DEF u, a
  <2>4. u = [list |-> l, ptr |-> p, alive |-> a, count |-> y, drives |-> z, global |-> g]
    BY <2>2, <2>3
  <2>5. s.list = l /\ s.ptr = p /\ s.count = y /\ s.drives = z
    BY <2>2
  <2>. QED
    BY <2>4, <2>5
<1>. HIDE DEF u, a
<1>5. t = [list |-> s.list, ptr |-> s.ptr, alive |-> a, count |-> c, drives |-> d, global |-> g]
  BY <1>1, <1>4
<1>6. IsState(t) /\ t.list = s.list /\ t.ptr = s.ptr /\ t.alive = a
  BY <1>5 DEF IsState
<1>7. Good(t, B)
  BY <1>3, <1>6, OthersGood
<1>8. Map!Null \in a /\ r.alive \ {o} \subseteq a
  BY <1>2, <1>3 DEF a
<1>. QED
  BY <1>6, <1>7, <1>8 DEF t, o, B
-----------------------------------------------------------------------------
\* The objects of the modules in the slots sl that answer to every port.
Objects(sl) ==
  [p \in Map!Port |-> {Map!Interface(sl[s]) : s \in {t \in PortSlots : p \in sl[t].ports}}]

PortInv ==
  /\ made \in Nat
  /\ SlotsOK(slots, made)
  /\ Good(Map!state, Objects(slots))
  /\ Fixed \subseteq alive
  /\ \A s \in PortSlots : slots[s] # Map!Empty => Map!Interface(slots[s]) \in alive

\* The modules in the slots are all different objects.
LEMMA SlotIs ==
  ASSUME NEW sl, NEW n, SlotsOK(sl, n), NEW s \in PortSlots
  PROVE  /\ sl[s] = Map!Empty \/ sl[s] \in PortModules(n)
         /\ sl[s] # Map!Empty => sl[s].kind \in Kinds /\ Map!Interface(sl[s]) \notin Fixed
         /\ sl[s] = Map!Empty => sl[s].ports = {} /\ sl[s].kind \notin Map!Switched
         /\ \A t \in PortSlots : sl[t].ports # {} /\ s # t =>
              Map!Interface(sl[t]) # Map!Interface(sl[s])
<1>1. sl[s] = Map!Empty \/ sl[s] \in PortModules(n)
  BY DEF SlotsOK
<1>2. sl[s] = Map!Empty => sl[s].ports = {} /\ sl[s].kind \notin Map!Switched /\ sl[s].kind = "empty"
  BY DEF Map!Empty, Map!Switched
<1>3. sl[s] # Map!Empty => sl[s].kind \in Kinds
  BY <1>1 DEF PortModules
<1>4. ASSUME NEW t \in PortSlots, sl[t].ports # {}, s # t
      PROVE  Map!Interface(sl[t]) # Map!Interface(sl[s])
  <2>1. sl[t] \in PortModules(n)
    BY <1>4 DEF SlotsOK, Map!Empty
  <2>2. sl[t] # Map!Empty /\ sl[t].kind \in Kinds
    BY <1>4, <2>1 DEF Map!Empty, PortModules
  <2>3. sl[t].kind # "empty"
    BY <2>2, PortsAssumption DEF Map!PortMapAssumption, Map!Single, Map!Switched, Map!Other
  <2>4. CASE sl[s] = Map!Empty
    BY <1>2, <2>3, <2>4 DEF Map!Interface
  <2>5. CASE sl[s] # Map!Empty
    <3>1. sl[s].n # sl[t].n
      BY <1>4, <2>2, <2>5 DEF SlotsOK
    <3>. QED
      BY <3>1 DEF Map!Interface
  <2>. QED
    BY <2>4, <2>5
<1>. QED
  BY <1>1, <1>2, <1>3, <1>4, KindsAre

\* What a module in a slot is replaced by answers to its ports.
Replaces(sl, s, m, p) ==
  Objects([sl EXCEPT ![s] = m])[p]
    = (Objects(sl)[p] \ (IF p \in sl[s].ports THEN {Map!Interface(sl[s])} ELSE {}))
      \cup (IF p \in m.ports THEN {Map!Interface(m)} ELSE {})

LEMMA Replaced ==
  ASSUME NEW sl, NEW n, SlotsOK(sl, n), NEW s \in PortSlots, NEW m,
         \A t \in PortSlots \ {s} : sl[t].ports # {} => Map!Interface(sl[t]) # Map!Interface(m),
         NEW p \in Map!Port
  PROVE  Replaces(sl, s, m, p)
<1>. DEFINE new == [sl EXCEPT ![s] = m]
            O == Objects(sl)[p]
            N == Objects(new)[p]
<1>1. new[s] = m /\ \A t \in PortSlots \ {s} : new[t] = sl[t]
  BY DEF SlotsOK
<1>2. /\ O = {Map!Interface(sl[t]) : t \in {u \in PortSlots : p \in sl[u].ports}}
      /\ N = {Map!Interface(new[t]) : t \in {u \in PortSlots : p \in new[u].ports}}
  BY DEF Objects
<1>. HIDE DEF new, O, N
<1>3. \A t \in PortSlots \ {s} : p \in sl[t].ports => Map!Interface(sl[t]) # Map!Interface(sl[s])
  BY SlotIs
<1>4. N \subseteq (O \ (IF p \in sl[s].ports THEN {Map!Interface(sl[s])} ELSE {}))
                  \cup (IF p \in m.ports THEN {Map!Interface(m)} ELSE {})
  BY <1>1, <1>2, <1>3
<1>5. ASSUME NEW o \in O, p \in sl[s].ports => o # Map!Interface(sl[s])
      PROVE  o \in N
  <2>1. PICK t \in PortSlots : p \in sl[t].ports /\ o = Map!Interface(sl[t])
    BY <1>2, <1>5
  <2>2. t # s
    BY <1>5, <2>1
  <2>. QED
    BY <1>1, <1>2, <2>1, <2>2
<1>6. p \in m.ports => Map!Interface(m) \in N
  BY <1>1, <1>2
<1>. QED
  BY <1>4, <1>5, <1>6 DEF Replaces, new, O, N

LEMMA SameGood ==
  ASSUME NEW r, NEW A, NEW B, Good(r, A), \A p \in Map!Port : A[p] = B[p]
  PROVE  Good(r, B)
BY DEF Good

LEMMA PortInit ==
  ASSUME Map!Init
  PROVE  PortInv
<1>. DEFINE bare == [p \in Map!Port |-> <<Map!Group(Map!Null, 256)>>]
            own  == [p \in Map!Port |-> IF p \in Machine THEN <<Map!Group(Map!Chip, 10)>> \o bare[p]
                                                          ELSE bare[p]]
<1>1. /\ port_list = own /\ ptr = [p \in Map!Port |-> Head(own[p]).obj]
      /\ alive = Fixed
      /\ slots = [s \in PortSlots |-> Map!Empty] /\ made = 0
  BY DEF Map!Init, Fixed
<1>2. ASSUME NEW p \in Map!Port
      PROVE  port_list[p] = Rest(p)
  <2>1. own[p] = IF p \in Machine THEN <<Map!Group(Map!Chip, 10)>> \o <<Map!Group(Map!Null, 256)>>
                                  ELSE <<Map!Group(Map!Null, 256)>>
    OBVIOUS
  <2>2. <<Map!Group(Map!Chip, 10)>> \o <<Map!Group(Map!Null, 256)>>
          = <<Map!Group(Map!Chip, 10), Map!Group(Map!Null, 256)>>
    <3>. DEFINE a == Map!Group(Map!Chip, 10)
                b == Map!Group(Map!Null, 256)
    <3>. HIDE DEF a, b
    <3>. QED
      BY Pair DEF a, b
  <2>. HIDE DEF own
  <2>. QED
    BY <1>1, <2>1, <2>2 DEF Rest
<1>. HIDE DEF own, bare
<1>3. \A p \in Map!Port : Objects(slots)[p] = {}
  BY <1>1 DEF Objects, Map!Empty
<1>4. ASSUME NEW p \in Map!Port
      PROVE  Holds(port_list[p], {}, p)
  <2>1. Rest(p) \in Seq(Groups({})) /\ Len(Rest(p)) \in {1, 2}
    BY RestIs
  <2>2. Len(Rest(p)) = 0 + Len(Rest(p)) /\ \A k \in 1 .. Len(Rest(p)) : 0 + k = k
    BY <2>1
  <2>3. 0 \in Nat /\ 1 .. 0 = {}
    OBVIOUS
  <2>. QED
    BY <1>2, <2>1, <2>2, <2>3 DEF Holds
<1>5. Good(Map!state, Objects(slots))
  <2>1. /\ IsState(Map!state) /\ Map!state.list = port_list /\ Map!state.ptr = ptr
    BY DEF IsState, Map!state
  <2>2. ptr = [p \in Map!Port |-> Head(port_list[p]).obj]
    BY <1>1
  <2>. QED
    BY <1>3, <1>4, <2>1, <2>2 DEF Good
<1>6. SlotsOK(slots, made)
  BY <1>1 DEF SlotsOK
<1>. QED
  BY <1>1, <1>5, <1>6 DEF PortInv

\* A state of the port map and slots that are the next ones.
LEMMA Applied ==
  ASSUME NEW r, NEW A, Good(r, A), Map!Apply(r),
         \A p \in Map!Port : A[p] = Objects(slots')[p],
         made' \in Nat, SlotsOK(slots', made'), Fixed \subseteq r.alive,
         \A s \in PortSlots : slots'[s] # Map!Empty => Map!Interface(slots'[s]) \in r.alive
  PROVE  PortInv'
<1>1. /\ port_list' = r.list /\ ptr' = r.ptr /\ alive' = r.alive
      /\ count' = r.count /\ drives' = r.drives /\ global' = r.global
  BY DEF Map!Apply
<1>2. Map!state' = r
  BY <1>1 DEF Good, IsState, Map!state
<1>3. Good(r, Objects(slots'))
  BY SameGood
<1>. QED
  BY <1>1, <1>2, <1>3 DEF PortInv
-----------------------------------------------------------------------------
LEMMA NewIs ==
  ASSUME NEW r, NEW k \in Kinds, NEW n \in Nat
  PROVE  /\ Map!New(r, k, n + 1) \in PortModules(n + 1)
         /\ Map!New(r, k, n + 1).kind = k /\ Map!New(r, k, n + 1).n = n + 1
         /\ ~Map!New(r, k, n + 1).valid \/ k \in Map!Switched => Map!New(r, k, n + 1).ports = {}
<1>. DEFINE m == Map!New(r, k, n + 1)
            room == CASE k \in Map!Single -> r.count[k] = 0 /\ (k = "fdc" => r.global["fdc"] = Map!Null)
                      [] k = "ramf" -> r.drives # {}
                      [] OTHER -> TRUE
            opens == CASE ~room \/ k \in Map!Switched -> {}
                       [] room /\ k = "ramf" -> {IF "98" \in r.drives THEN "98" ELSE "58"}
                       [] OTHER -> Map!PortsOf(k)
<1>1. m = [kind |-> k, n |-> n + 1, ports |-> opens, valid |-> room]
  BY DEF Map!New
<1>2. room \in BOOLEAN
  BY DEF Map!Single
<1>3. k \notin Map!Switched \/ k # "ramf"
  BY DEF Map!Switched
<1>. HIDE DEF m, room
<1>4. Map!PortsOf(k) \subseteq Map!Port
  BY DEF Map!Port
<1>5. CASE ~room \/ k \in Map!Switched
  <2>1. opens = {}
    BY <1>3, <1>5
  <2>. HIDE DEF opens
  <2>. QED
    BY <1>1, <1>2, <2>1 DEF m, PortModules
<1>6. CASE ~(~room \/ k \in Map!Switched) /\ k = "ramf"
  <2>1. opens \in {{"98"}, {"58"}}
    BY <1>6
  <2>2. Map!PortsOf(k) = {"98", "58"}
    BY <1>6 DEF Map!PortsOf
  <2>. HIDE DEF opens
  <2>3. opens \subseteq Map!Port
    BY <1>4, <2>1, <2>2
  <2>4. m \in PortModules(n + 1) /\ m.kind = k /\ m.n = n + 1 /\ m.valid = room
    BY <1>1, <1>2, <2>3 DEF PortModules
  <2>. QED
    BY <1>6, <2>4 DEF m
<1>7. CASE ~(~room \/ k \in Map!Switched) /\ k # "ramf"
  <2>1. opens = Map!PortsOf(k)
    BY <1>7
  <2>. HIDE DEF opens
  <2>2. m \in PortModules(n + 1) /\ m.kind = k /\ m.n = n + 1 /\ m.valid = room
    BY <1>1, <1>2, <1>4, <2>1 DEF PortModules
  <2>. QED
    BY <1>7, <2>2 DEF m
<1>. QED
  BY <1>5, <1>6, <1>7

\* Slots with another module in one of them.
LEMMA SlotsKept ==
  ASSUME NEW sl, NEW n \in Nat, SlotsOK(sl, n), NEW s \in PortSlots, NEW m,
         NEW i \in Nat, n <= i, m \in PortModules(i) \cup {Map!Empty},
         m # Map!Empty => \A t \in PortSlots \ {s} : sl[t] # Map!Empty => sl[t].n # m.n
  PROVE  SlotsOK([sl EXCEPT ![s] = m], i)
<1>1. PortModules(n) \subseteq PortModules(i)
  BY DEF PortModules
<1>2. [sl EXCEPT ![s] = m] \in [PortSlots -> PortModules(i) \cup {Map!Empty}]
  BY <1>1 DEF SlotsOK
<1>. DEFINE new == [sl EXCEPT ![s] = m]
<1>3. new[s] = m /\ \A t \in PortSlots \ {s} : new[t] = sl[t]
  BY DEF SlotsOK
<1>. HIDE DEF new
<1>4. ASSUME NEW t \in PortSlots, NEW u \in PortSlots, t # u,
             new[t] # Map!Empty, new[u] # Map!Empty
      PROVE  new[t].n # new[u].n
  BY <1>3, <1>4 DEF SlotsOK
<1>. QED
  BY <1>2, <1>4 DEF SlotsOK, new

\* The module with the next number is like no other.
LEMMA Fresh ==
  ASSUME PortInv, NEW m, m.n = made + 1
  PROVE  /\ \A t \in PortSlots : slots[t] # Map!Empty =>
              slots[t].n # m.n /\ Map!Interface(slots[t]) # Map!Interface(m)
         /\ \A p \in Map!Port : Map!Interface(m) \notin Objects(slots)[p]
<1>1. ASSUME NEW t \in PortSlots, slots[t] # Map!Empty
      PROVE  slots[t].n # m.n /\ Map!Interface(slots[t]) # Map!Interface(m)
  <2>1. slots[t] \in PortModules(made)
    BY <1>1 DEF PortInv, SlotsOK
  <2>2. slots[t].n \in 1 .. made /\ made \in Nat
    BY <2>1 DEF PortInv, PortModules
  <2>3. slots[t].n # m.n
    BY <2>2
  <2>. QED
    BY <2>3 DEF Map!Interface
<1>2. \A t \in PortSlots : slots[t].ports # {} => slots[t] # Map!Empty
  BY DEF Map!Empty
<1>3. \A p \in Map!Port : Map!Interface(m) \notin Objects(slots)[p]
  BY <1>1, <1>2 DEF Objects
<1>. QED
  BY <1>1, <1>3

LEMMA RemoveStep ==
  ASSUME PortInv, "gdc" \notin Kinds, NEW s \in PortSlots, Map!Careful(s), Map!Remove(s)
  PROVE  PortInv'
<1>. DEFINE m == slots[s]
            r == Map!Destruct(Map!state, m)
            o == Map!Interface(m)
            A == Objects(slots)
            new == [slots EXCEPT ![s] = Map!Empty]
<1>1. /\ m # Map!Empty /\ Map!Apply(r) /\ slots' = new /\ made' = made
      /\ m.kind \in Map!Switched => m.ports = {}
  BY DEF Map!Remove, Map!Careful
<1>2. /\ made \in Nat /\ SlotsOK(slots, made) /\ Good(Map!state, A)
      /\ Fixed \subseteq alive /\ Map!state.alive = alive
  BY DEF PortInv, Map!state
<1>3. m.kind \in Kinds /\ o \notin Fixed
  BY <1>1, <1>2, SlotIs
<1>4. \A p \in m.ports : o \in A[p]
  <2>1. m.ports \subseteq Map!Port
    BY <1>1, <1>2 DEF SlotsOK, PortModules
  <2>. QED
    BY <2>1 DEF Objects
<1>. HIDE DEF m, r, A, new
<1>5. /\ Good(r, Minus(A, m.ports, o))
      /\ Map!Null \in r.alive
      /\ alive \ {o} \subseteq r.alive
  BY <1>1, <1>2, <1>3, <1>4, DestructGood DEF r, A
<1>6. SlotsOK(new, made)
  BY <1>2, SlotsKept DEF new
<1>7. \A p \in Map!Port : Minus(A, m.ports, o)[p] = Objects(new)[p]
  <2>. SUFFICES ASSUME NEW p \in Map!Port PROVE Minus(A, m.ports, o)[p] = Objects(new)[p]
    OBVIOUS
  <2>1. /\ Map!Empty.ports = {}
        /\ \A t \in PortSlots \ {s} : slots[t].ports # {} =>
             Map!Interface(slots[t]) # Map!Interface(Map!Empty)
    <3>1. Map!Interface(Map!Empty).kind = "empty"
      BY DEF Map!Empty, Map!Interface
    <3>2. ASSUME NEW t \in PortSlots, slots[t].ports # {}
          PROVE  Map!Interface(slots[t]).kind # "empty"
      <4>1. slots[t] # Map!Empty
        BY <3>2 DEF Map!Empty
      <4>2. slots[t].kind \in Kinds
        BY <1>2, <4>1, SlotIs
      <4>3. "empty" \notin Kinds
        BY PortsAssumption DEF Map!PortMapAssumption, Map!Single, Map!Switched, Map!Other
      <4>. QED
        BY <4>2, <4>3 DEF Map!Interface
    <3>. QED
      BY <3>1, <3>2 DEF Map!Empty
  <2>2. Replaces(slots, s, Map!Empty, p)
    <3>1. SlotsOK(slots, made)
      BY <1>2
    <3>. QED
      BY <2>1, <3>1, Replaced, Zenon
  <2>. QED
    BY <2>1, <2>2 DEF Replaces, Minus, new, A, m
<1>8. \A t \in PortSlots : new[t] # Map!Empty => Map!Interface(new[t]) \in r.alive
  <2>. SUFFICES ASSUME NEW t \in PortSlots, new[t] # Map!Empty
                PROVE  Map!Interface(new[t]) \in r.alive
    OBVIOUS
  <2>1. t # s /\ new[t] = slots[t]
    BY <1>2 DEF new, SlotsOK
  <2>2. slots[t].n # m.n
    BY <1>1, <1>2, <2>1 DEF SlotsOK, m
  <2>3. Map!Interface(slots[t]) # o
    BY <2>2 DEF Map!Interface
  <2>4. Map!Interface(slots[t]) \in alive
    BY <2>1 DEF PortInv
  <2>. QED
    BY <1>5, <2>1, <2>3, <2>4
<1>9. Fixed \subseteq r.alive
  BY <1>2, <1>3, <1>5 DEF Fixed
<1>. QED
  BY <1>1, <1>2, <1>5, <1>6, <1>7, <1>8, <1>9, Applied

\* The guest switches a module on or off.
LEMMA SwitchStep ==
  ASSUME PortInv, NEW s \in PortSlots, Map!SwitchOn(s) \/ Map!SwitchOff(s)
  PROVE  PortInv'
<1>. DEFINE m == slots[s]
            o == Map!Interface(m)
            A == Objects(slots)
            opens ==  IF m.ports = {} THEN Map!PortsOf(m.kind) ELSE {}
            r == IF m.ports = {} THEN Map!Register(Map!state, opens, o, 0)
                                 ELSE Map!Unregister(Map!state, m.ports, o)
            B == IF m.ports = {} THEN With(A, opens, o) ELSE Minus(A, m.ports, o)
            new == [slots EXCEPT ![s].ports = opens]
            turned == [m EXCEPT !.ports = opens]
<1>1. /\ m.kind \in Map!Switched /\ Map!Apply(r) /\ slots' = new /\ made' = made
  BY DEF Map!SwitchOn, Map!SwitchOff, Map!Released
<1>2. /\ made \in Nat /\ SlotsOK(slots, made) /\ Good(Map!state, A)
      /\ Fixed \subseteq alive /\ Map!state.alive = alive
  BY DEF PortInv, Map!state
<1>3. m # Map!Empty /\ m \in PortModules(made) /\ m.kind \in Kinds /\ o \notin Fixed
  <2>1. m # Map!Empty
    BY <1>1, <1>2, SlotIs
  <2>. QED
    BY <1>2, <2>1, SlotIs
<1>4. opens \in SUBSET Map!Port
  BY <1>3 DEF Map!Port
<1>5. /\ turned \in PortModules(made) /\ turned.kind = m.kind /\ turned.n = m.n /\ turned.ports = opens
      /\ turned # Map!Empty /\ new = [slots EXCEPT ![s] = turned]
  <2>1. turned \in PortModules(made) /\ turned.kind = m.kind /\ turned.n = m.n /\ turned.ports = opens
    <3>. HIDE DEF opens, m
    <3>. QED
      BY <1>3, <1>4 DEF PortModules
  <2>2. new = [slots EXCEPT ![s] = turned]
    <3>. HIDE DEF opens
    <3>. QED
      BY <1>2 DEF SlotsOK
  <2>. HIDE DEF turned
  <2>3. turned # Map!Empty
    BY <1>3, <2>1, KindsAre
  <2>. QED
    BY <2>1, <2>2, <2>3
<1>6. \A t \in PortSlots \ {s} : slots[t].ports # {} => Map!Interface(slots[t]) # o
  BY <1>2, SlotIs
<1>. HIDE DEF m, r, A, B, new, turned, opens
<1>7. Map!Interface(turned) = o
  BY <1>5 DEF Map!Interface
<1>8. Good(r, B) /\ r.alive = alive
  <2>1. CASE m.ports = {}
    <3>1. \A p \in opens : o \notin A[p]
      <4>1. \A p \in opens : A[p] = {Map!Interface(slots[t]) : t \in {u \in PortSlots : p \in slots[u].ports}}
        BY <1>4 DEF A, Objects
      <4>. QED
        BY <1>6, <2>1, <4>1 DEF m
    <3>2. r = Map!Register(Map!state, opens, o, 0) /\ B = With(A, opens, o)
      BY <2>1 DEF r, B
    <3>. QED
      BY <1>2, <3>1, <3>2, RegisterGood
  <2>2. CASE m.ports # {}
    <3>1. \A p \in m.ports : o \in A[p]
      <4>1. m.ports \subseteq Map!Port
        BY <1>3 DEF PortModules
      <4>. QED
        BY <4>1 DEF A, m, Objects
    <3>2. r = Map!Unregister(Map!state, m.ports, o) /\ B = Minus(A, m.ports, o)
      BY <2>2 DEF r, B
    <3>. QED
      BY <1>2, <1>3, <3>1, <3>2, UnregisterGood
  <2>. QED
    BY <2>1, <2>2
<1>9. SlotsOK(new, made)
  <2>1. \A t \in PortSlots \ {s} : slots[t] # Map!Empty => slots[t].n # turned.n
    BY <1>2, <1>3, <1>5 DEF SlotsOK, m
  <2>2. made <= made /\ made \in Nat /\ SlotsOK(slots, made)
    BY <1>2
  <2>3. turned \in PortModules(made) \cup {Map!Empty}
    BY <1>5
  <2>4. SlotsOK([slots EXCEPT ![s] = turned], made)
    BY <2>1, <2>2, <2>3, SlotsKept
  <2>. QED
    BY <1>5, <2>4
<1>10. \A p \in Map!Port : B[p] = Objects(new)[p]
  <2>. SUFFICES ASSUME NEW p \in Map!Port PROVE B[p] = Objects(new)[p]
    OBVIOUS
  <2>1. Replaces(slots, s, turned, p)
    <3>1. SlotsOK(slots, made)
      BY <1>2
    <3>2. \A t \in PortSlots \ {s} : slots[t].ports # {} =>
            Map!Interface(slots[t]) # Map!Interface(turned)
      BY <1>6, <1>7
    <3>. QED
      BY <3>1, <3>2, Replaced, Zenon
  <2>2. Objects(new)[p] = (A[p] \ (IF p \in m.ports THEN {o} ELSE {}))
                            \cup (IF p \in opens THEN {o} ELSE {})
    BY <1>5, <1>7, <2>1 DEF Replaces, A, m
  <2>3. CASE m.ports = {}
    BY <2>2, <2>3 DEF B, With
  <2>4. CASE m.ports # {}
    BY <2>2, <2>4 DEF B, Minus, opens
  <2>. QED
    BY <2>3, <2>4
<1>11. \A t \in PortSlots : new[t] # Map!Empty => Map!Interface(new[t]) \in r.alive
  <2>. SUFFICES ASSUME NEW t \in PortSlots, new[t] # Map!Empty
                PROVE  Map!Interface(new[t]) \in alive
    BY <1>8
  <2>1. Map!Interface(slots[s]) \in alive
    BY <1>3 DEF PortInv, m
  <2>2. CASE t = s
    <3>1. new[t] = turned
      BY <1>2, <1>5, <2>2 DEF SlotsOK
    <3>. QED
      BY <1>7, <2>1, <3>1 DEF m
  <2>3. CASE t # s
    <3>1. new[t] = slots[t]
      BY <1>2, <1>5, <2>3 DEF SlotsOK
    <3>. QED
      BY <3>1 DEF PortInv
  <2>. QED
    BY <2>2, <2>3
<1>12. Fixed \subseteq r.alive
  BY <1>2, <1>8
<1>. QED
  BY <1>1, <1>2, <1>8, <1>9, <1>10, <1>11, <1>12, Applied

\* A module is put in, or is refused; the one that was there goes.
LEMMA InsertStep ==
  ASSUME PortInv, "gdc" \notin Kinds, NEW s \in PortSlots, NEW k \in Kinds,
         Map!Careful(s), Map!Insert(s, k)
  PROVE  PortInv'
<1>. DEFINE m == Map!New(Map!state, k, made + 1)
            old == slots[s]
            o == Map!Interface(m)
            A == Objects(slots)
            r == Map!Construct(Map!state, m)
            B == With(A, m.ports, o)
            new == [slots EXCEPT ![s] = m]
<1>1. /\ made' = made + 1
      /\ IF m.valid
         THEN /\ Map!Apply(IF old = Map!Empty THEN r ELSE Map!Destruct(r, old))
              /\ slots' = new
         ELSE /\ Map!Apply(Map!Destruct(r, m)) /\ slots' = slots
      /\ old.kind \in Map!Switched => old.ports = {}
  BY DEF Map!Insert, Map!Careful
<1>2. /\ made \in Nat /\ SlotsOK(slots, made) /\ Good(Map!state, A)
      /\ Fixed \subseteq alive /\ Map!state.alive = alive
      /\ made + 1 \in Nat /\ made <= made + 1
  BY DEF PortInv, Map!state
<1>3. /\ m \in PortModules(made + 1) /\ m.kind = k /\ m.n = made + 1
      /\ ~m.valid \/ k \in Map!Switched => m.ports = {}
  BY <1>2, NewIs
<1>. HIDE DEF m, old, A, r, B, new
<1>4. m.ports \subseteq Map!Port /\ m # Map!Empty /\ o \notin Fixed
  BY <1>3, KindsAre DEF PortModules
<1>5. /\ \A t \in PortSlots : slots[t] # Map!Empty =>
           slots[t].n # m.n /\ Map!Interface(slots[t]) # o
      /\ \A p \in Map!Port : o \notin A[p]
  BY <1>3, Fresh DEF A
<1>6. /\ Good(r, B)
      /\ alive \subseteq r.alive
      /\ ~(k \in Map!Global /\ ~m.valid) => o \in r.alive
  <2>1. \A p \in m.ports : Map!Interface(m) \notin A[p]
    BY <1>4, <1>5
  <2>. QED
    BY <1>2, <1>3, <2>1, ConstructGood DEF B, r
<1>7. CASE ~m.valid
  <2>. DEFINE d == Map!Destruct(r, m)
  <2>1. m.ports = {} /\ slots' = slots /\ Map!Apply(d)
    BY <1>1, <1>3, <1>7
  <2>. HIDE DEF d
  <2>2. /\ Good(d, Minus(B, m.ports, o)) /\ Map!Null \in d.alive
        /\ r.alive \ {o} \subseteq d.alive
    <3>1. \A p \in m.ports : Map!Interface(m) \in B[p]
      BY <2>1
    <3>. QED
      BY <1>3, <1>6, <2>1, <3>1, DestructGood DEF d
  <2>3. \A p \in Map!Port : Minus(B, m.ports, o)[p] = Objects(slots')[p]
    BY <2>1 DEF Minus, With, B, A
  <2>4. SlotsOK(slots', made')
    <3>1. PortModules(made) \subseteq PortModules(made + 1)
      BY <1>2 DEF PortModules
    <3>. QED
      BY <1>1, <1>2, <2>1, <3>1 DEF SlotsOK
  <2>5. \A t \in PortSlots : slots[t] # Map!Empty => Map!Interface(slots[t]) \in d.alive
    BY <1>5, <1>6, <2>2 DEF PortInv
  <2>6. Fixed \subseteq d.alive
    BY <1>2, <1>4, <1>6, <2>2
  <2>. QED
    BY <1>1, <1>2, <2>1, <2>2, <2>3, <2>4, <2>5, <2>6, Applied
<1>8. CASE m.valid
  <2>. DEFINE d == IF old = Map!Empty THEN r ELSE Map!Destruct(r, old)
              x == Map!Interface(old)
              C == IF old = Map!Empty THEN B ELSE Minus(B, old.ports, x)
  <2>1. slots' = new /\ Map!Apply(d)
    BY <1>1, <1>8
  <2>2. o \in r.alive
    BY <1>6, <1>8
  <2>3. old # Map!Empty => old.kind \in Kinds /\ x \notin Fixed /\ old.ports \subseteq Map!Port
    BY <1>2, SlotIs DEF old, PortModules
  <2>. HIDE DEF d, C
  <2>4. /\ Good(d, C) /\ r.alive \ (IF old = Map!Empty THEN {} ELSE {x}) \subseteq d.alive
    <3>1. CASE old = Map!Empty
      BY <1>6, <3>1 DEF d, C
    <3>2. CASE old # Map!Empty
      <4>1. \A p \in old.ports : x \in B[p]
        BY <2>3, <3>2 DEF B, With, A, Objects, old
      <4>. QED
        BY <1>1, <1>6, <2>3, <3>2, <4>1, DestructGood DEF d, C
    <3>. QED
      BY <3>1, <3>2
  <2>5. SlotsOK(new, made + 1)
    BY <1>2, <1>3, <1>5, SlotsKept DEF new
  <2>6. \A p \in Map!Port : C[p] = Objects(new)[p]
    <3>. SUFFICES ASSUME NEW p \in Map!Port PROVE C[p] = Objects(new)[p]
      OBVIOUS
    <3>1. Replaces(slots, s, m, p)
      <4>1. SlotsOK(slots, made)
        BY <1>2
      <4>2. \A t \in PortSlots \ {s} : slots[t].ports # {} =>
              Map!Interface(slots[t]) # Map!Interface(m)
        <5>1. \A t \in PortSlots : slots[t].ports # {} => slots[t] # Map!Empty
          BY DEF Map!Empty
        <5>. QED
          BY <1>5, <5>1
      <4>. QED
        BY <4>1, <4>2, Replaced, Zenon
    <3>2. Objects(new)[p] = (A[p] \ (IF p \in old.ports THEN {x} ELSE {}))
                              \cup (IF p \in m.ports THEN {o} ELSE {})
      BY <3>1 DEF Replaces, new, A, old
    <3>3. CASE old = Map!Empty
      BY <3>2, <3>3 DEF C, B, With, Map!Empty
    <3>4. CASE old # Map!Empty
      <4>1. x # o
        BY <1>5, <3>4 DEF old
      <4>. QED
        BY <3>2, <3>4, <4>1 DEF C, B, With, Minus
    <3>. QED
      BY <3>3, <3>4
  <2>7. \A t \in PortSlots : new[t] # Map!Empty => Map!Interface(new[t]) \in d.alive
    <3>. SUFFICES ASSUME NEW t \in PortSlots, new[t] # Map!Empty
                  PROVE  Map!Interface(new[t]) \in d.alive
      OBVIOUS
    <3>1. CASE t = s
      <4>1. new[t] = m
        BY <1>2, <3>1 DEF new, SlotsOK
      <4>2. old # Map!Empty => x # o
        BY <1>5 DEF old
      <4>. QED
        BY <2>2, <2>4, <4>1, <4>2
    <3>2. CASE t # s
      <4>1. new[t] = slots[t]
        BY <1>2, <3>2 DEF new, SlotsOK
      <4>2. Map!Interface(slots[t]) \in r.alive
        BY <1>6, <4>1 DEF PortInv
      <4>3. old # Map!Empty => Map!Interface(slots[t]) # x
        <5>1. old # Map!Empty => slots[t].n # old.n
          BY <1>2, <3>2, <4>1 DEF SlotsOK, old
        <5>. QED
          BY <5>1 DEF Map!Interface
      <4>. QED
        BY <2>4, <4>1, <4>2, <4>3
    <3>. QED
      BY <3>1, <3>2
  <2>8. Fixed \subseteq d.alive
    BY <1>2, <1>6, <2>3, <2>4
  <2>. QED
    BY <1>1, <1>2, <2>1, <2>4, <2>5, <2>6, <2>7, <2>8, Applied
<1>. QED
  BY <1>7, <1>8

LEMMA PortStep ==
  ASSUME PortInv, "gdc" \notin Kinds, Map!Next
  PROVE  PortInv'
BY InsertStep, RemoveStep, SwitchStep DEF Map!Next

LEMMA PortStutter ==
  ASSUME PortInv, UNCHANGED ports
  PROVE  PortInv'
<1>1. /\ port_list' = port_list /\ ptr' = ptr /\ alive' = alive /\ count' = count
      /\ drives' = drives /\ global' = global /\ slots' = slots /\ made' = made
  BY DEF ports
<1>2. Map!state' = Map!state
  BY <1>1 DEF Map!state
<1>. QED
  BY <1>1, <1>2 DEF PortInv

\* What the invariant says of every port.
LEMMA PortSafe ==
  ASSUME PortInv
  PROVE  Map!NoDeadPort /\ Map!PortsAreModules
<1>. SUFFICES ASSUME NEW p \in Map!Port
              PROVE  /\ ptr[p] \in alive
                     /\ port_list[p][Len(port_list[p])].obj = Map!Null
                     /\ {port_list[p][k].obj : k \in DOMAIN port_list[p]}
                          = {Map!Null} \cup (IF p \in Machine THEN {Map!Chip} ELSE {})
                              \cup {Map!Interface(slots[s]) : s \in {t \in PortSlots : p \in slots[t].ports}}
                     /\ (\E s \in PortSlots : p \in slots[s].ports) => ptr[p] \notin {Map!Null, Map!Chip}
  BY DEF Map!NoDeadPort, Map!PortsAreModules
<1>. DEFINE l == port_list[p]
            A == Objects(slots)[p]
            R == Rest(p)
<1>1. Holds(l, A, p) /\ ptr[p] = Head(l).obj
  BY DEF PortInv, Good, Map!state
<1>2. A = {Map!Interface(slots[s]) : s \in {t \in PortSlots : p \in slots[t].ports}}
  BY DEF Objects
<1>3. \A o \in A : o \in alive /\ o \notin Fixed
  <2>1. \A s \in PortSlots : p \in slots[s].ports => slots[s] # Map!Empty
    BY DEF Map!Empty
  <2>2. SlotsOK(slots, made)
    BY DEF PortInv
  <2>3. \A s \in PortSlots : slots[s] # Map!Empty =>
          Map!Interface(slots[s]) \in alive /\ Map!Interface(slots[s]) \notin Fixed
    BY <2>2, SlotIs DEF PortInv
  <2>. QED
    BY <1>2, <2>1, <2>3
<1>4. /\ Len(R) \in {1, 2} /\ R[Len(R)].obj = Map!Null
      /\ \A k \in 1 .. Len(R) : R[k].obj \in Fixed
      /\ p \in Machine => \E k \in 1 .. Len(R) : R[k].obj = Map!Chip
      /\ p \notin Machine => \A k \in 1 .. Len(R) : R[k].obj = Map!Null
  BY RestIs
<1>. HIDE DEF l, A, R
<1>5. PICK m \in Nat :
       /\ Len(l) = m + Len(R)
       /\ \A k \in 1 .. m : l[k].prio = 0 /\ l[k].obj \in A
       /\ \A o \in A : \E k \in 1 .. m : l[k].obj = o
       /\ \A j, k \in 1 .. m : l[j].obj = l[k].obj => j = k
       /\ \A k \in 1 .. Len(R) : l[m + k] = R[k]
  BY <1>1 DEF Holds, R
<1>6. l \in Seq(Groups(A)) /\ DOMAIN l = 1 .. Len(l) /\ Head(l) = l[1]
  <2>1. l \in Seq(Groups(A))
    BY <1>1 DEF Holds
  <2>2. Len(l) > 0
    BY <1>4, <1>5
  <2>. QED
    BY <2>1, <2>2, LenProperties
<1>7. \A k \in 1 .. Len(R) : m + k \in 1 .. Len(l) /\ l[m + k].obj = R[k].obj
  BY <1>4, <1>5
<1>8. \A k \in 1 .. Len(l) : k \in 1 .. m \/ \E j \in 1 .. Len(R) : k = m + j
  <2>. SUFFICES ASSUME NEW k \in 1 .. Len(l), k \notin 1 .. m PROVE \E j \in 1 .. Len(R) : k = m + j
    OBVIOUS
  <2>1. k - m \in 1 .. Len(R) /\ k = m + (k - m)
    BY <1>4, <1>5
  <2>. QED
    BY <2>1
<1>9. l[Len(l)].obj = Map!Null
  <2>1. Len(R) \in 1 .. Len(R)
    BY <1>4
  <2>. QED
    BY <1>4, <1>5, <1>7, <2>1
<1>10. ptr[p] \in alive /\ (A # {} => ptr[p] \notin Fixed)
  <2>1. CASE m > 0
    <3>1. l[1].obj \in A
      BY <1>5, <2>1
    <3>. QED
      BY <1>1, <1>3, <1>6, <3>1
  <2>2. CASE m = 0
    <3>1. A = {}
      BY <1>5, <2>2
    <3>2. 1 \in 1 .. Len(R) /\ m + 1 = 1
      BY <1>4, <2>2
    <3>3. l[1].obj \in Fixed
      BY <1>4, <1>7, <3>2
    <3>4. Fixed \subseteq alive
      BY DEF PortInv
    <3>. QED
      BY <1>1, <1>6, <3>1, <3>3, <3>4
  <2>. QED
    BY <1>5, <2>1, <2>2
<1>11. {l[k].obj : k \in DOMAIN l} = {Map!Null} \cup (IF p \in Machine THEN {Map!Chip} ELSE {}) \cup A
  <2>. DEFINE F == {Map!Null} \cup (IF p \in Machine THEN {Map!Chip} ELSE {})
  <2>1. ASSUME NEW k \in 1 .. Len(l) PROVE l[k].obj \in F \cup A
    <3>1. CASE k \in 1 .. m
      BY <1>5, <3>1
    <3>2. CASE \E j \in 1 .. Len(R) : k = m + j
      <4>1. PICK j \in 1 .. Len(R) : k = m + j
        BY <3>2
      <4>2. l[k].obj = R[j].obj
        BY <1>7, <4>1
      <4>. QED
        BY <1>4, <4>2 DEF Fixed
    <3>. QED
      BY <1>8, <3>1, <3>2
  <2>2. \A o \in A : \E k \in 1 .. Len(l) : l[k].obj = o
    <3>1. 1 .. m \subseteq 1 .. Len(l)
      BY <1>4, <1>5
    <3>. QED
      BY <1>5, <3>1
  <2>3. \A o \in F : \E k \in 1 .. Len(l) : l[k].obj = o
    <3>1. Len(R) \in 1 .. Len(R)
      BY <1>4
    <3>2. \E k \in 1 .. Len(l) : l[k].obj = Map!Null
      BY <1>4, <1>7, <3>1
    <3>3. p \in Machine => \E k \in 1 .. Len(l) : l[k].obj = Map!Chip
      BY <1>4, <1>7
    <3>. QED
      BY <3>2, <3>3
  <2>. HIDE DEF F
  <2>4. {l[k].obj : k \in DOMAIN l} = F \cup A
    BY <1>6, <2>1, <2>2, <2>3
  <2>. QED
    BY <2>4 DEF F
<1>12. (\E s \in PortSlots : p \in slots[s].ports) => A # {}
  BY <1>2
<1>. QED
  BY <1>2, <1>9, <1>10, <1>11, <1>12 DEF l, Fixed

-----------------------------------------------------------------------------
(***************************************************************************)
(* The theorems.                                                           *)
(***************************************************************************)

LEMMA MapThroughout ==
  /\ SlotsInit => (part = "memory" => MapInv)
  /\ (part = "memory" => MapInv) /\ [SlotsNext]_machine => (part = "memory" => MapInv)'
<1>1. SlotsInit => (part = "memory" => MapInv)
  BY MapInit DEF SlotsInit
<1>2. (part = "memory" => MapInv) /\ [SlotsNext]_machine => (part = "memory" => MapInv)'
  <2>. SUFFICES ASSUME part = "memory" => MapInv, [SlotsNext]_machine, part' = "memory"
                PROVE  MapInv'
    OBVIOUS
  <2>1. CASE UNCHANGED machine
    BY <2>1, MapStutter DEF machine
  <2>2. CASE SlotsNext
    <3>1. part = "memory" /\ (Next \/ UNCHANGED vars)
      BY <2>2 DEF SlotsNext
    <3>. QED
      BY <3>1, MapStep, MapStutter
  <2>. QED
    BY <2>1, <2>2
<1>. QED
  BY <1>1, <1>2

\* However modules are put in, replaced, switched and pulled out between the writes
\* to the switches and resets, no list and no pointer has the memory of a module
\* that is not in its slot or that the module has given back (mod_ram.cc,
\* mod_segm.cc, Memory::unregister_memory).
THEOREM MemoryStays == SlotsSpec => []MemoryIsThere
<1>. DEFINE Inv == part = "memory" => MapInv
<1>1. SlotsInit => Inv
  BY MapThroughout
<1>2. Inv /\ [SlotsNext]_machine => Inv'
  BY MapThroughout
<1>3. Inv => MemoryIsThere
  BY MemoryThere DEF MemoryIsThere
<1>. QED
  BY <1>1, <1>2, <1>3, PTL DEF SlotsSpec

\* What the processor reads and writes at an address follows from what every switch
\* was last set to and from the last control byte of every module, in whatever order
\* the guest got there, and the pointers it goes through are never stale (memory.cc,
\* memory4.cc).  Two modules of one priority are left out: which of them is in front
\* depends on which was switched on first, as MemAreaPtr::add has it.
THEOREM MapIsSet ==
  ASSUME \A s, t \in DOMAIN Slots : s # t => Prio(<<s, 0>>) # Prio(<<t, 0>>)
  PROVE  SlotsSpec => []MapFollows
<1>. DEFINE Inv == part = "memory" => MapInv
<1>1. SlotsInit => Inv
  BY MapThroughout
<1>2. Inv /\ [SlotsNext]_machine => Inv'
  BY MapThroughout
<1>3. Inv => MapFollows
  <2>1. ModulesDiffer
    BY DEF ModulesDiffer
  <2>. QED
    BY <2>1, MapTypes, MapFresh, MapSafe, Zenon DEF MapFollows
<1>. QED
  BY <1>1, <1>2, <1>3, PTL DEF SlotsSpec

\* In every order in which modules are put in, refused, replaced, switched and
\* pulled out, no port leads to an object that has been deleted, and every port
\* answers with what is in the slots and switched on (ports.cc, mod_list.cc).  The
\* module GDC is left out: its destructor deletes the display controller whether
\* or not the module was accepted (mod_gdc.cc).
THEOREM PortsAnswer ==
  ASSUME "gdc" \notin Kinds
  PROVE  SlotsSpec => []PortsFollow
<1>. DEFINE Inv == part = "ports" => PortInv
<1>1. SlotsInit => Inv
  BY PortInit DEF SlotsInit
<1>2. Inv /\ [SlotsNext]_machine => Inv'
  <2>. SUFFICES ASSUME Inv, [SlotsNext]_machine, part' = "ports"
                PROVE  PortInv'
    OBVIOUS
  <2>1. CASE UNCHANGED machine
    BY <2>1, PortStutter DEF machine
  <2>2. CASE SlotsNext
    <3>1. part = "ports" /\ (Map!Next \/ UNCHANGED ports)
      BY <2>2 DEF SlotsNext
    <3>. QED
      BY <3>1, PortStep, PortStutter
  <2>. QED
    BY <2>1, <2>2
<1>3. Inv => PortsFollow
  BY PortSafe DEF PortsFollow
<1>. QED
  BY <1>1, <1>2, <1>3, PTL DEF SlotsSpec
=============================================================================
