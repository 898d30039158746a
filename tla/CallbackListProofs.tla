------------------------- MODULE CallbackListProofs -------------------------
(***************************************************************************)
(* Theorems about CallbackList: the linked list with its recycled entries  *)
(* is sorted and leaks nothing, and every step of it is a step of the      *)
(* event queue; for any callbacks, offsets, lengths of instructions, any   *)
(* size of the blocks of entries and of the heap.                          *)
(***************************************************************************)
EXTENDS CallbackList, FiniteSetTheorems, SequenceTheorems, WellFoundedInduction, TLAPS

-----------------------------------------------------------------------------
(***************************************************************************)
(* What the links of a list say is the sequence of its entries.            *)
(***************************************************************************)

\* A set of numbers below a bound has a least element.
LEMMA Least ==
  ASSUME NEW n \in Nat, NEW T, T \subseteq 0 .. n, T # {}
  PROVE  \E x \in T : \A y \in T : x <= y
<1> DEFINE S == 0 .. n
           R == StrictSubsetOrdering(S)
           Q == {0 .. x : x \in T}
<1>1. IsWellFoundedOn(R, FiniteSubsetsOf(S))
  BY FS_StrictSubsetOrderingWellFounded
<1>2. Q \subseteq FiniteSubsetsOf(S) /\ Q # {}
  <2>1. \A x \in T : 0 .. x \in SUBSET S
    OBVIOUS
  <2>2. \A x \in T : IsFiniteSet(0 .. x)
    <3>1. \A x \in T : x \in Int
      OBVIOUS
    <3>2. QED
      BY <3>1, FS_Interval
  <2>3. QED
    BY <2>1, <2>2 DEF FiniteSubsetsOf
<1> HIDE DEF R, Q
<1>3. \E a \in Q : \A b \in Q : <<b, a>> \notin R
  BY <1>1, <1>2, WFMin
<1>4. PICK x \in T : \A b \in Q : <<b, 0 .. x>> \notin R
  BY <1>3 DEF Q
<1>5. ASSUME NEW y \in T, y < x PROVE FALSE
  <2>1. 0 .. y \in Q
    BY DEF Q
  <2>2. x \in 0 .. x /\ x \notin 0 .. y /\ 0 .. y \subseteq 0 .. x
    BY <1>5
  <2>3. <<0 .. y, 0 .. x>> \in R
    BY <2>2 DEF R, StrictSubsetOrdering
  <2>4. QED
    BY <2>1, <2>3, <1>4
<1>6. QED
  BY <1>5

\* The entries s are chained from h on.
Linked(links, s, h) ==
  /\ s \in Seq(Entry) /\ Len(s) <= MaxEntries
  /\ h = IF s = <<>> THEN 0 ELSE s[1]
  /\ \A k \in 1 .. Len(s) : links[s[k]] = IF k < Len(s) THEN s[k + 1] ELSE 0

\* The links determine the sequence.
LEMMA PathIs ==
  ASSUME NEW links, NEW h, NEW s, Linked(links, s, h)
  PROVE  Path(links, h) = s
<1>. DEFINE Pre(k) == SubSeq(s, 1, IF k <= Len(s) THEN k ELSE Len(s))
            Turn(f) == [k \in 0 .. MaxEntries |->
                          IF k = 0 THEN <<>> ELSE Extended(links, h, f[k - 1])]
            all  == [k \in 0 .. MaxEntries |-> Pre(k)]
            walk == CHOOSE f : f = Turn(f)
<1>0. MaxEntries \in Nat /\ s \in Seq(Entry) /\ Len(s) \in Nat /\ Len(s) <= MaxEntries
  BY AllocAssumption DEF Linked
<1>1. Pre(0) = <<>>
  BY <1>0
<1>2. ASSUME NEW k \in 1 .. MaxEntries
      PROVE  Extended(links, h, Pre(k - 1)) = Pre(k)
  <2>1. CASE k <= Len(s)
    <3>1. Pre(k) = Append(Pre(k - 1), s[k]) /\ s[k] # 0
      BY <1>0, <2>1 DEF Entry
    <3>2. CASE k = 1
      BY <1>0, <1>1, <2>1, <3>1, <3>2 DEF Extended, Linked
    <3>3. CASE k # 1
      <4>1. Pre(k - 1) # <<>> /\ Last(Pre(k - 1)) = s[k - 1]
        BY <1>0, <2>1, <3>3 DEF Last
      <4>2. links[s[k - 1]] = s[k]
        BY <1>0, <2>1, <3>3 DEF Linked
      <4>. QED
        BY <3>1, <4>1, <4>2 DEF Extended
    <3>. QED
      BY <3>2, <3>3
  <2>2. CASE ~(k <= Len(s))
    <3>1. Pre(k) = s /\ Pre(k - 1) = s
      BY <1>0, <2>2
    <3>2. (IF s = <<>> THEN h ELSE links[Last(s)]) = 0
      BY <1>0 DEF Linked, Last
    <3>. QED
      BY <3>1, <3>2 DEF Extended
  <2>. QED
    BY <2>1, <2>2
<1>3. all = Turn(all)
  <2>. HIDE DEF Pre
  <2>1. \A k \in 0 .. MaxEntries :
           Pre(k) = IF k = 0 THEN <<>> ELSE Extended(links, h, all[k - 1])
    BY <1>0, <1>1, <1>2
  <2>. QED
    BY <2>1
<1>4. walk = Turn(walk)
  BY <1>3
<1>5. \A k \in 0 .. MaxEntries : walk[k] = Pre(k)
  <2>. DEFINE Bad == {k \in 0 .. MaxEntries : walk[k] # Pre(k)}
  <2>. HIDE DEF walk, Pre
  <2>. SUFFICES ASSUME Bad # {}
                PROVE  FALSE
    OBVIOUS
  <2>1. PICK k \in Bad : \A j \in Bad : k <= j
    BY <1>0, Least
  <2>2. k # 0
    BY <1>1, <1>4
  <2>3. k - 1 \in 0 .. MaxEntries /\ k \in 1 .. MaxEntries /\ k - 1 \notin Bad
    BY <1>0, <2>1, <2>2
  <2>4. walk[k] = Extended(links, h, Pre(k - 1))
    BY <1>4, <2>2, <2>3
  <2>. QED
    BY <1>2, <2>1, <2>3, <2>4
<1>6. Path(links, h) = walk[MaxEntries]
  BY DEF Path
<1>. QED
  BY <1>0, <1>5, <1>6

-----------------------------------------------------------------------------
(***************************************************************************)
(* The list and the free list share the entries that were allocated.       *)
(***************************************************************************)

Distinct(s) == \A i, j \in 1 .. Len(s) : s[i] = s[j] => i = j
In(e, s)    == \E i \in 1 .. Len(s) : s[i] = e

\* With the links nx, the list L from l on and the free list F from f on hold
\* each of the entries 1 .. h once, but for the entry x (0: none).
Shared(nx, l, f, h, L, F, x) ==
  /\ nx \in [Entry -> 0 .. MaxEntries]
  /\ Linked(nx, L, l) /\ Linked(nx, F, f)
  /\ h \in 0 .. MaxEntries /\ x \in 0 .. h
  /\ Len(L) + Len(F) + (IF x = 0 THEN 0 ELSE 1) = h
  /\ Distinct(L) /\ Distinct(F)
  /\ \A e \in Entry : e <= h <=> (In(e, L) \/ In(e, F) \/ e = x)
  /\ \A e \in Entry : ~(In(e, L) /\ In(e, F)) /\ ~(In(x, L) \/ In(x, F))
  /\ \A e \in Entry : e > h => nx[e] = 0

\* The types of both lists; no entry is on both.
LEMMA SharedFacts ==
  ASSUME NEW nx, NEW l, NEW f, NEW h, NEW L, NEW F, NEW x, Shared(nx, l, f, h, L, F, x)
  PROVE  /\ L \in Seq(Entry) /\ F \in Seq(Entry)
         /\ Len(L) \in Nat /\ Len(F) \in Nat /\ MaxEntries \in Nat
         /\ \A i \in 1 .. Len(L) : L[i] \in Entry /\ L[i] # 0 /\ L[i] # x /\ L[i] <= h
         /\ \A i \in 1 .. Len(F) : F[i] \in Entry /\ F[i] # 0 /\ F[i] # x /\ F[i] <= h
         /\ \A i \in 1 .. Len(L) : \A j \in 1 .. Len(F) : L[i] # F[j]
<1>1. /\ L \in Seq(Entry) /\ F \in Seq(Entry)
      /\ Len(L) \in Nat /\ Len(F) \in Nat /\ MaxEntries \in Nat
  BY AllocAssumption DEF Shared, Linked
<1>2. ASSUME NEW i \in 1 .. Len(L)
      PROVE  /\ L[i] \in Entry /\ L[i] # 0 /\ L[i] # x /\ L[i] <= h
             /\ \A j \in 1 .. Len(F) : L[i] # F[j]
  <2>1. L[i] \in Entry /\ In(L[i], L) /\ L[i] # 0
    BY <1>1 DEF In, Entry
  <2>. QED
    BY <2>1 DEF Shared, In
<1>3. ASSUME NEW i \in 1 .. Len(F)
      PROVE  F[i] \in Entry /\ F[i] # 0 /\ F[i] # x /\ F[i] <= h
  <2>1. F[i] \in Entry /\ In(F[i], F) /\ F[i] # 0
    BY <1>1 DEF In, Entry
  <2>. QED
    BY <2>1 DEF Shared, In
<1>. QED
  BY <1>1, <1>2, <1>3

\* CallbackListEntry::operator new: one entry more is neither on the list nor
\* on the free list.
LEMMA Allocated ==
  ASSUME NEW L, NEW F, Shared(next, list, free, heap, L, F, 0), New
  PROVE  /\ \E G : Shared(LinksWithFresh, list, free', heap', L, G, Fresh)
         /\ Fresh \in Entry /\ Fresh # 0
         /\ \A i \in 1 .. Len(L) : LinksWithFresh[L[i]] = next[L[i]] /\ L[i] # Fresh
<1>0. /\ L \in Seq(Entry) /\ F \in Seq(Entry)
      /\ Len(L) \in Nat /\ Len(F) \in Nat /\ MaxEntries \in Nat
      /\ \A i \in 1 .. Len(L) : L[i] \in Entry /\ L[i] # 0 /\ L[i] <= heap
      /\ \A i \in 1 .. Len(F) : F[i] \in Entry /\ F[i] # 0 /\ F[i] <= heap
      /\ \A i \in 1 .. Len(L) : \A j \in 1 .. Len(F) : L[i] # F[j]
  BY SharedFacts
<1>1. /\ next \in [Entry -> 0 .. MaxEntries] /\ heap \in 0 .. MaxEntries
      /\ Linked(next, L, list) /\ Linked(next, F, free)
      /\ Len(L) + Len(F) = heap /\ Distinct(L) /\ Distinct(F)
      /\ \A e \in Entry : e <= heap <=> (In(e, L) \/ In(e, F))
      /\ \A e \in Entry : e > heap => next[e] = 0
  BY DEF Shared, Entry
<1>2. Fresh \in Entry
  BY DEF New
<1>3. CASE free # 0
  <2>. DEFINE G == [i \in 1 .. (Len(F) - 1) |-> F[i + 1]]
  <2>1. F # <<>> /\ Len(F) >= 1 /\ Fresh = F[1] /\ free' = next[F[1]] /\ heap' = heap
    BY <1>0, <1>1, <1>3 DEF Linked, Fresh, New
  <2>2. LinksWithFresh = next
    BY <1>1, <1>3 DEF LinksWithFresh
  <2>3. G \in Seq(Entry) /\ Len(G) = Len(F) - 1
    <3>1. Len(F) - 1 \in Nat /\ \A i \in 1 .. (Len(F) - 1) : F[i + 1] \in Entry
      BY <1>0, <2>1
    <3>. QED
      BY <3>1
  <2>4. \A i \in 1 .. Len(G) : G[i] = F[i + 1]
    BY <2>3
  <2>. HIDE DEF G
  <2>5. Linked(next, G, free')
    <3>1. Len(G) <= MaxEntries
      BY <1>0, <1>1, <2>1, <2>3
    <3>2. free' = IF G = <<>> THEN 0 ELSE G[1]
      <4>1. next[F[1]] = IF 1 < Len(F) THEN F[1 + 1] ELSE 0
        BY <1>0, <1>1, <2>1 DEF Linked
      <4>2. G = <<>> <=> ~(1 < Len(F))
        BY <1>0, <2>1, <2>3
      <4>3. 1 < Len(F) => G[1] = F[1 + 1]
        BY <1>0, <2>3, <2>4
      <4>. QED
        BY <2>1, <4>1, <4>2, <4>3
    <3>3. ASSUME NEW k \in 1 .. Len(G)
          PROVE  next[G[k]] = IF k < Len(G) THEN G[k + 1] ELSE 0
      <4>0. k + 1 \in 1 .. Len(F)
        BY <1>0, <2>3
      <4>1. next[F[k + 1]] = IF k + 1 < Len(F) THEN F[k + 1 + 1] ELSE 0
        BY <1>1, <4>0 DEF Linked
      <4>2. k < Len(G) => G[k + 1] = F[k + 1 + 1]
        BY <1>0, <2>3, <2>4
      <4>. QED
        BY <1>0, <2>3, <2>4, <4>1, <4>2
    <3>. QED
      BY <2>3, <3>1, <3>2, <3>3 DEF Linked
  <2>6. Distinct(G) /\ ~In(Fresh, G) /\ ~In(Fresh, L)
    <3>1. ASSUME NEW i \in 1 .. Len(G), NEW j \in 1 .. Len(G), G[i] = G[j]
          PROVE  i = j
      <4>1. i + 1 \in 1 .. Len(F) /\ j + 1 \in 1 .. Len(F) /\ F[i + 1] = F[j + 1]
        BY <1>0, <2>3, <2>4, <3>1
      <4>2. i + 1 = j + 1
        BY <1>1, <4>1 DEF Distinct
      <4>. QED
        BY <4>2
    <3>2. ASSUME NEW i \in 1 .. Len(G)
          PROVE  G[i] # Fresh
      <4>1. i + 1 \in 1 .. Len(F) /\ 1 \in 1 .. Len(F) /\ i + 1 # 1 /\ G[i] = F[i + 1]
        BY <1>0, <2>1, <2>3, <2>4
      <4>. QED
        BY <1>1, <2>1, <4>1 DEF Distinct
    <3>3. \A i \in 1 .. Len(L) : L[i] # Fresh
      BY <1>0, <2>1
    <3>. QED
      BY <3>1, <3>2, <3>3 DEF Distinct, In
  <2>7. \A e : In(e, F) <=> e = Fresh \/ In(e, G)
    <3>1. ASSUME NEW e, In(e, F) PROVE e = Fresh \/ In(e, G)
      <4>1. PICK i \in 1 .. Len(F) : F[i] = e
        BY <3>1 DEF In
      <4>2. CASE i = 1
        BY <2>1, <4>1, <4>2
      <4>3. CASE i # 1
        <5>1. i - 1 \in 1 .. Len(G) /\ G[i - 1] = F[i]
          BY <1>0, <2>3, <2>4, <4>3
        <5>. QED
          BY <4>1, <5>1 DEF In
      <4>. QED
        BY <4>2, <4>3
    <3>2. ASSUME NEW e, e = Fresh \/ In(e, G) PROVE In(e, F)
      <4>1. CASE e = Fresh
        BY <1>0, <2>1, <4>1 DEF In
      <4>2. CASE In(e, G)
        <5>1. PICK i \in 1 .. Len(G) : G[i] = e
          BY <4>2 DEF In
        <5>2. i + 1 \in 1 .. Len(F) /\ F[i + 1] = e
          BY <1>0, <2>3, <2>4, <5>1
        <5>. QED
          BY <5>2 DEF In
      <4>. QED
        BY <3>2, <4>1, <4>2
    <3>. QED
      BY <3>1, <3>2
  <2>8. Fresh # 0 /\ Fresh <= heap /\ Fresh \in 0 .. heap
    BY <1>0, <1>2, <2>1 DEF Entry
  <2>9. \A i \in 1 .. Len(L) : L[i] # Fresh
    BY <1>0, <2>1
  <2>10. Len(L) + Len(G) + 1 = heap
    BY <1>0, <1>1, <2>1, <2>3
  <2>11. \A e \in Entry : ~(In(e, L) /\ In(e, G))
    BY <2>7 DEF Shared
  <2>12. Shared(next, list, free', heap', L, G, Fresh)
    BY <1>1, <2>1, <2>5, <2>6, <2>7, <2>8, <2>10, <2>11 DEF Shared
  <2>. QED
    BY <1>2, <2>2, <2>8, <2>9, <2>12
<1>4. CASE free = 0
  <2>. DEFINE G == [i \in 1 .. AllocSize |-> heap + AllocSize + 1 - i]
              n == heap + AllocSize + 1
              lk == LinksWithFresh
  <2>0. AllocSize \in Nat /\ AllocSize > 0
    BY AllocAssumption
  <2>1. F = <<>> /\ Fresh = n /\ free' = heap + AllocSize /\ heap' = n
    BY <1>0, <1>1, <1>4 DEF Linked, Fresh, New
  <2>2. n \in Entry /\ n <= MaxEntries /\ heap \in Nat
    BY <1>0, <1>1, <1>2, <2>1 DEF Entry
  <2>3. \A e \in Entry : lk[e] = IF e \in (heap + 2) .. (heap + AllocSize) THEN e - 1 ELSE next[e]
    BY <1>4 DEF LinksWithFresh
  <2>4. lk \in [Entry -> 0 .. MaxEntries]
    <3>1. \A e \in Entry : e - 1 \in 0 .. MaxEntries
      BY <1>0 DEF Entry
    <3>. QED
      BY <1>1, <3>1 DEF LinksWithFresh
  <2>. HIDE DEF lk
  <2>5. G \in Seq(Entry) /\ Len(G) = AllocSize
    <3>1. \A i \in 1 .. AllocSize : heap + AllocSize + 1 - i \in Entry
      BY <1>0, <2>0, <2>2 DEF Entry
    <3>. QED
      BY <2>0, <3>1
  <2>6. \A i \in 1 .. AllocSize : G[i] = heap + AllocSize + 1 - i
    OBVIOUS
  <2>. HIDE DEF G
  <2>7. Linked(lk, G, heap + AllocSize)
    <3>1. G # <<>> /\ G[1] = heap + AllocSize
      BY <2>0, <2>2, <2>5, <2>6
    <3>2. ASSUME NEW k \in 1 .. Len(G)
          PROVE  lk[G[k]] = IF k < Len(G) THEN G[k + 1] ELSE 0
      <4>1. G[k] = heap + AllocSize + 1 - k /\ G[k] \in Entry
        BY <2>5, <2>6
      <4>2. CASE k < Len(G)
        <5>1. G[k] \in (heap + 2) .. (heap + AllocSize)
          BY <2>0, <2>2, <2>5, <4>1, <4>2
        <5>2. G[k + 1] = heap + AllocSize + 1 - (k + 1)
          BY <2>0, <2>5, <2>6, <4>2
        <5>. QED
          BY <2>0, <2>2, <2>3, <4>1, <4>2, <5>1, <5>2
      <4>3. CASE ~(k < Len(G))
        <5>1. G[k] = heap + 1
          BY <2>0, <2>2, <2>5, <4>1, <4>3
        <5>2. next[G[k]] = 0
          BY <1>1, <2>2, <4>1, <5>1
        <5>. QED
          BY <2>2, <2>3, <4>1, <4>3, <5>1, <5>2
      <4>. QED
        BY <4>2, <4>3
    <3>3. AllocSize <= MaxEntries
      BY <1>0, <2>0, <2>2
    <3>. QED
      BY <2>5, <3>1, <3>2, <3>3 DEF Linked
  <2>8. \A i \in 1 .. Len(L) : lk[L[i]] = next[L[i]] /\ L[i] # n
    BY <1>0, <2>0, <2>2, <2>3
  <2>9. Linked(lk, L, list)
    BY <1>0, <1>1, <2>8 DEF Linked
  <2>10. \A e \in Entry : In(e, G) <=> e \in (heap + 1) .. (heap + AllocSize)
    <3>1. ASSUME NEW e \in Entry, In(e, G)
          PROVE  e \in (heap + 1) .. (heap + AllocSize)
      BY <2>0, <2>2, <2>5, <2>6, <3>1 DEF In
    <3>2. ASSUME NEW e \in (heap + 1) .. (heap + AllocSize)
          PROVE  In(e, G)
      <4>1. heap + AllocSize + 1 - e \in 1 .. Len(G)
        BY <2>0, <2>2, <2>5
      <4>2. G[heap + AllocSize + 1 - e] = e
        BY <2>0, <2>2, <2>5, <2>6, <4>1
      <4>. QED
        BY <4>1, <4>2 DEF In
    <3>. QED
      BY <3>1, <3>2
  <2>11. Distinct(G)
    BY <2>0, <2>2, <2>5, <2>6 DEF Distinct
  <2>12. Len(L) + Len(G) + 1 = n
    <3>1. Len(F) = 0 /\ Len(L) + Len(F) = heap
      BY <1>1, <2>1
    <3>. QED
      BY ONLY <1>0, <2>0, <2>2, <2>5, <3>1 DEF n
  <2>13. \A e : ~In(e, F)
    BY <2>1 DEF In
  <2>14. \A e \in Entry : In(e, L) <=> e <= heap
    BY <1>1, <2>13
  <2>15. ~In(n, L) /\ ~In(n, G) /\ n # 0
    BY <2>0, <2>2, <2>10, <2>14
  <2>16. \A e \in Entry : e <= n <=> (In(e, L) \/ In(e, G) \/ e = n)
    BY <2>0, <2>2, <2>10, <2>14 DEF Entry
  <2>17. \A e \in Entry : ~(In(e, L) /\ In(e, G))
    BY <2>0, <2>2, <2>10, <2>14
  <2>18. \A e \in Entry : e > n => lk[e] = 0
    BY <1>1, <2>0, <2>2, <2>3 DEF Entry
  <2>19. n \in 0 .. MaxEntries /\ n \in 0 .. n
    BY <1>0, <2>0, <2>2
  <2>. HIDE DEF n
  <2>20. Shared(lk, list, heap + AllocSize, n, L, G, n)
    BY <1>1, <2>4, <2>7, <2>9, <2>11, <2>12, <2>15, <2>16, <2>17, <2>18, <2>19 DEF Shared
  <2>. QED
    BY <1>2, <2>1, <2>8, <2>15, <2>20 DEF lk
<1>. QED
  BY <1>3, <1>4

\* The sequence s with e behind its first k elements.
Inserted(s, k, e) ==
  [i \in 1 .. (Len(s) + 1) |-> IF i <= k THEN s[i] ELSE IF i = k + 1 THEN e ELSE s[i - 1]]

\* The elements of a sequence with one inserted, by their places,
LEMMA InsertedIs ==
  ASSUME NEW s \in Seq(Entry), NEW k \in 0 .. Len(s), NEW e \in Entry
  PROVE  /\ Inserted(s, k, e) \in Seq(Entry) /\ Len(Inserted(s, k, e)) = Len(s) + 1
         /\ \A i \in 1 .. k : Inserted(s, k, e)[i] = s[i]
         /\ Inserted(s, k, e)[k + 1] = e
         /\ \A i \in (k + 1) .. Len(s) : Inserted(s, k, e)[i + 1] = s[i]
         /\ \A i \in 1 .. (Len(s) + 1) :
              Inserted(s, k, e)[i] = IF i <= k THEN s[i] ELSE IF i = k + 1 THEN e ELSE s[i - 1]
<1>1. Len(s) \in Nat /\ k \in Nat
  OBVIOUS
<1>2. \A i \in 1 .. (Len(s) + 1) :
        (IF i <= k THEN s[i] ELSE IF i = k + 1 THEN e ELSE s[i - 1]) \in Entry
  BY <1>1
<1>3. Inserted(s, k, e) \in Seq(Entry) /\ Len(Inserted(s, k, e)) = Len(s) + 1
  BY <1>1, <1>2 DEF Inserted
<1>4. \A i \in 1 .. (Len(s) + 1) :
        Inserted(s, k, e)[i] = IF i <= k THEN s[i] ELSE IF i = k + 1 THEN e ELSE s[i - 1]
  BY <1>1 DEF Inserted
<1>5. \A i \in 1 .. k : i \in 1 .. (Len(s) + 1) /\ i <= k
  BY <1>1
<1>6. \A i \in (k + 1) .. Len(s) : /\ i + 1 \in 1 .. (Len(s) + 1) /\ (i + 1) - 1 = i
                                   /\ ~(i + 1 <= k) /\ i + 1 # k + 1
  BY <1>1
<1>7. k + 1 \in 1 .. (Len(s) + 1) /\ ~(k + 1 <= k)
  BY <1>1
<1>. HIDE DEF Inserted
<1>8. ASSUME NEW i \in (k + 1) .. Len(s)
      PROVE  Inserted(s, k, e)[i + 1] = s[i]
  <2>1. Inserted(s, k, e)[i + 1] = s[(i + 1) - 1]
    BY <1>4, <1>6
  <2>. QED
    BY <1>6, <2>1
<1>. QED
  BY <1>3, <1>4, <1>5, <1>7, <1>8

\* and as a set.
LEMMA InsertedElements ==
  ASSUME NEW s \in Seq(Entry), NEW k \in 0 .. Len(s), NEW e \in Entry
  PROVE  /\ \A x : In(x, Inserted(s, k, e)) <=> In(x, s) \/ x = e
         /\ Distinct(s) /\ ~In(e, s) => Distinct(Inserted(s, k, e))
<1>. DEFINE t == Inserted(s, k, e)
<1>1. /\ t \in Seq(Entry) /\ Len(t) = Len(s) + 1
      /\ \A i \in 1 .. k : t[i] = s[i]
      /\ t[k + 1] = e
      /\ \A i \in (k + 1) .. Len(s) : t[i + 1] = s[i]
      /\ \A i \in 1 .. (Len(s) + 1) : t[i] = IF i <= k THEN s[i] ELSE IF i = k + 1 THEN e ELSE s[i - 1]
  BY InsertedIs
<1>2. Len(s) \in Nat /\ k \in Nat /\ k <= Len(s)
  OBVIOUS
<1>. HIDE DEF t
<1>3. ASSUME NEW x, In(x, t)
      PROVE  In(x, s) \/ x = e
  <2>1. PICK i \in 1 .. (Len(s) + 1) : t[i] = x
    BY <1>1, <1>3 DEF In
  <2>2. CASE i <= k
    <3>1. i \in 1 .. Len(s) /\ s[i] = x
      BY <1>1, <1>2, <2>1, <2>2
    <3>. QED
      BY <3>1 DEF In
  <2>3. CASE i = k + 1
    BY <1>1, <2>1, <2>3
  <2>4. CASE ~(i <= k) /\ i # k + 1
    <3>1. i - 1 \in 1 .. Len(s) /\ s[i - 1] = x
      BY <1>1, <1>2, <2>1, <2>4
    <3>. QED
      BY <3>1 DEF In
  <2>. QED
    BY <2>2, <2>3, <2>4
<1>4. ASSUME NEW x, In(x, s) \/ x = e
      PROVE  In(x, t)
  <2>1. CASE x = e
    <3>1. k + 1 \in 1 .. Len(t) /\ t[k + 1] = x
      BY <1>1, <1>2, <2>1
    <3>. QED
      BY <3>1 DEF In
  <2>2. CASE In(x, s)
    <3>1. PICK i \in 1 .. Len(s) : s[i] = x
      BY <2>2 DEF In
    <3>2. CASE i <= k
      <4>1. i \in 1 .. Len(t) /\ t[i] = x
        BY <1>1, <1>2, <3>1, <3>2
      <4>. QED
        BY <4>1 DEF In
    <3>3. CASE ~(i <= k)
      <4>1. i + 1 \in 1 .. Len(t) /\ t[i + 1] = x
        BY <1>1, <1>2, <3>1, <3>3
      <4>. QED
        BY <4>1 DEF In
    <3>. QED
      BY <3>2, <3>3
  <2>. QED
    BY <1>4, <2>1, <2>2
<1>5. ASSUME Distinct(s), ~In(e, s)
      PROVE  Distinct(t)
  <2>. DEFINE Old(i) == IF i <= k THEN i ELSE i - 1
  <2>1. ASSUME NEW i \in 1 .. Len(t)
        PROVE  \/ i = k + 1 /\ t[i] = e
               \/ i # k + 1 /\ Old(i) \in 1 .. Len(s) /\ t[i] = s[Old(i)] /\ t[i] # e
    <3>1. CASE i = k + 1
      BY <1>1, <3>1
    <3>2. CASE i # k + 1
      <4>1. Old(i) \in 1 .. Len(s) /\ t[i] = s[Old(i)]
        BY <1>1, <1>2, <3>2
      <4>. QED
        BY <1>5, <3>2, <4>1 DEF In
    <3>. QED
      BY <3>1, <3>2
  <2>2. ASSUME NEW i \in 1 .. Len(t), NEW j \in 1 .. Len(t), t[i] = t[j]
        PROVE  i = j
    <3>1. CASE i = k + 1
      BY <2>1, <2>2, <3>1
    <3>2. CASE i # k + 1
      <4>1. j # k + 1
        BY <2>1, <2>2, <3>2
      <4>2. Old(i) \in 1 .. Len(s) /\ Old(j) \in 1 .. Len(s) /\ s[Old(i)] = s[Old(j)]
        BY <2>1, <2>2, <3>2, <4>1
      <4>3. Old(i) = Old(j)
        BY <1>5, <4>2 DEF Distinct
      <4>. QED
        BY <1>1, <1>2, <3>2, <4>1, <4>3
    <3>. QED
      BY <3>1, <3>2
  <2>. QED
    BY <2>2 DEF Distinct
<1>. QED
  BY <1>3, <1>4, <1>5 DEF t

\* CallbackList::add_callback, once the entry n is allocated: it is chained
\* behind the first k entries.
LEMMA Chained ==
  ASSUME NEW nx, NEW l, NEW f, NEW h, NEW L, NEW F, NEW n \in Entry,
         Shared(nx, l, f, h, L, F, n),
         NEW k \in 0 .. Len(L), NEW nx2 \in [Entry -> 0 .. MaxEntries],
         nx2[n] = IF k < Len(L) THEN L[k + 1] ELSE 0,
         k > 0 => nx2[L[k]] = n,
         \A e \in Entry : e # n /\ ~(k > 0 /\ e = L[k]) => nx2[e] = nx[e]
  PROVE  Shared(nx2, IF k = 0 THEN n ELSE l, f, h, Inserted(L, k, n), F, 0)
<1>. DEFINE M == Inserted(L, k, n)
            m == IF k = 0 THEN n ELSE l
<1>0. /\ L \in Seq(Entry) /\ F \in Seq(Entry)
      /\ Len(L) \in Nat /\ Len(F) \in Nat /\ MaxEntries \in Nat
      /\ \A i \in 1 .. Len(L) : L[i] \in Entry /\ L[i] # n
      /\ \A i \in 1 .. Len(F) : F[i] \in Entry /\ F[i] # n
      /\ \A i \in 1 .. Len(L) : \A j \in 1 .. Len(F) : L[i] # F[j]
  BY SharedFacts
<1>1. /\ Linked(nx, L, l) /\ Linked(nx, F, f)
      /\ h \in 0 .. MaxEntries /\ n \in 0 .. h /\ n # 0
      /\ Len(L) + Len(F) + 1 = h
      /\ Distinct(L) /\ Distinct(F)
      /\ ~In(n, L) /\ ~In(n, F)
  <2>1. n # 0
    BY DEF Entry
  <2>. QED
    BY <2>1 DEF Shared
<1>2. k \in Nat /\ k <= Len(L)
  BY <1>0
<1>3. /\ M \in Seq(Entry) /\ Len(M) = Len(L) + 1
      /\ \A i \in 1 .. k : M[i] = L[i]
      /\ M[k + 1] = n
      /\ \A i \in (k + 1) .. Len(L) : M[i + 1] = L[i]
      /\ \A i \in 1 .. (Len(L) + 1) : M[i] = IF i <= k THEN L[i] ELSE IF i = k + 1 THEN n ELSE L[i - 1]
  <2>1. L \in Seq(Entry) /\ k \in 0 .. Len(L) /\ n \in Entry
    BY <1>0
  <2>. QED
    BY ONLY <2>1, InsertedIs DEF M
<1>a. Len(M) = Len(L) + 1 /\ Len(L) \in Nat
  BY <1>0, <1>3
<1>4. (\A x : In(x, M) <=> In(x, L) \/ x = n) /\ Distinct(M)
  BY <1>0, <1>1, InsertedElements
<1>. HIDE DEF M
<1>5. Linked(nx2, M, m)
  <2>1. Len(M) <= MaxEntries
    BY <1>0, <1>1, <1>3
  <2>2. M # <<>> /\ m = M[1]
    <3>1. CASE k = 0
      BY <1>0, <1>3, <3>1
    <3>2. CASE k # 0
      <4>1. L # <<>> /\ 1 \in 1 .. k
        BY <1>0, <1>2, <3>2
      <4>. QED
        BY <1>0, <1>1, <1>3, <3>2, <4>1 DEF Linked
    <3>. QED
      BY <3>1, <3>2
  <2>3. ASSUME NEW i \in 1 .. Len(M)
        PROVE  nx2[M[i]] = IF i < Len(M) THEN M[i + 1] ELSE 0
    <3>1. CASE i < k
      <4>1. i \in 1 .. Len(L) /\ i + 1 \in 1 .. k /\ k \in 1 .. Len(L) /\ M[i] = L[i]
            /\ M[i + 1] = L[i + 1] /\ i < Len(L) /\ i < Len(M) /\ i # k
        <5>1. /\ i \in 1 .. Len(L) /\ i \in 1 .. k /\ i + 1 \in 1 .. k /\ k \in 1 .. Len(L)
              /\ i < Len(L) /\ i < Len(M) /\ i # k
          BY <1>2, <1>a, <3>1
        <5>. QED
          BY <1>3, <5>1
      <4>2. L[i] # L[k]
        BY <1>1, <4>1 DEF Distinct
      <4>3. nx2[L[i]] = nx[L[i]]
        BY <1>0, <4>1, <4>2
      <4>4. nx[L[i]] = L[i + 1]
        BY <1>1, <4>1 DEF Linked
      <4>. QED
        BY <4>1, <4>3, <4>4
    <3>2. CASE i = k
      BY <1>0, <1>2, <1>3, <3>2
    <3>3. CASE i = k + 1
      <4>1. M[i] = n
        BY <1>3, <3>3
      <4>2. CASE k < Len(L)
        <5>1. k + 1 \in (k + 1) .. Len(L)
          BY <1>0, <1>2, <4>2
        <5>2. M[k + 1 + 1] = L[k + 1]
          BY <1>3, <5>1
        <5>3. i < Len(M) /\ i + 1 = k + 1 + 1
          BY <1>0, <1>2, <1>3, <3>3, <4>2
        <5>. QED
          BY <3>3, <4>1, <4>2, <5>2, <5>3
      <4>3. CASE ~(k < Len(L))
        <5>1. ~(i < Len(M))
          BY <1>0, <1>2, <1>3, <3>3, <4>3
        <5>. QED
          BY <4>1, <4>3, <5>1
      <4>. QED
        BY <4>2, <4>3
    <3>4. CASE i > k + 1
      <4>1. PICK j \in 1 .. Len(L) : i = j + 1 /\ j \in (k + 1) .. Len(L) /\ j # k
        <5>1. i - 1 \in 1 .. Len(L) /\ i = (i - 1) + 1 /\ i - 1 \in (k + 1) .. Len(L) /\ i - 1 # k
          BY <1>0, <1>2, <1>3, <3>4
        <5>. QED
          BY <5>1
      <4>2. M[i] = L[j]
        BY <1>3, <4>1
      <4>3. nx2[L[j]] = nx[L[j]]
        <5>1. k > 0 => L[j] # L[k]
          BY <1>1, <1>2, <4>1 DEF Distinct
        <5>. QED
          BY <1>0, <4>1, <5>1
      <4>4. nx[L[j]] = IF j < Len(L) THEN L[j + 1] ELSE 0
        BY <1>1, <4>1 DEF Linked
      <4>5. CASE j < Len(L)
        <5>1. j + 1 \in (k + 1) .. Len(L) /\ i < Len(M)
          BY <1>2, <1>a, <4>1, <4>5
        <5>2. M[j + 1 + 1] = L[j + 1]
          BY <1>3, <5>1
        <5>. QED
          BY <4>1, <4>2, <4>3, <4>4, <4>5, <5>1, <5>2
      <4>6. CASE ~(j < Len(L))
        <5>1. ~(i < Len(M))
          BY <1>0, <1>3, <4>1, <4>6
        <5>. QED
          BY <4>2, <4>3, <4>4, <4>6, <5>1
      <4>. QED
        BY <4>5, <4>6
    <3>5. i < k \/ i = k \/ i = k + 1 \/ i > k + 1
      BY <1>0, <1>2, <1>3
    <3>. QED
      BY <3>1, <3>2, <3>3, <3>4, <3>5
  <2>. HIDE DEF m
  <2>. QED
    BY <1>3, <2>1, <2>2, <2>3 DEF Linked
<1>6. Linked(nx2, F, f)
  <2>1. \A i \in 1 .. Len(F) : nx2[F[i]] = nx[F[i]]
    <3>. SUFFICES ASSUME NEW i \in 1 .. Len(F) PROVE nx2[F[i]] = nx[F[i]]
      OBVIOUS
    <3>1. F[i] \in Entry /\ F[i] # n
      BY <1>0
    <3>2. ~(k > 0 /\ F[i] = L[k])
      BY <1>0, <1>2
    <3>. QED
      BY <3>1, <3>2
  <2>. QED
    BY <1>1, <2>1 DEF Linked
<1>7. Len(M) + Len(F) + (IF 0 = 0 THEN 0 ELSE 1) = h /\ 0 \in 0 .. h
  BY <1>0, <1>1, <1>3
<1>8. \A e \in Entry : e <= h <=> (In(e, M) \/ In(e, F) \/ e = 0)
  <2>1. \A e \in Entry : e # 0
    BY DEF Entry
  <2>2. \A e \in Entry : e <= h <=> (In(e, L) \/ In(e, F) \/ e = n)
    BY DEF Shared
  <2>. QED
    BY <1>4, <2>1, <2>2
<1>9. \A e \in Entry : ~(In(e, M) /\ In(e, F)) /\ ~(In(0, M) \/ In(0, F))
  <2>1. ~In(0, L) /\ ~In(0, F)
    BY <1>0 DEF In, Entry
  <2>2. \A e \in Entry : ~(In(e, L) /\ In(e, F))
    BY DEF Shared
  <2>. QED
    BY <1>1, <1>4, <2>1, <2>2
<1>10. \A e \in Entry : e > h => nx2[e] = 0
  <2>. SUFFICES ASSUME NEW e \in Entry, e > h PROVE nx2[e] = 0
    OBVIOUS
  <2>0. e \in Int /\ h \in Int /\ n \in Int /\ n <= h
    <3>1. MaxEntries \in Nat /\ h \in 0 .. MaxEntries /\ n \in 0 .. h /\ e \in 1 .. MaxEntries
      BY ONLY <1>1, AllocAssumption, e \in Entry DEF Entry
    <3>. QED
      BY ONLY <3>1
  <2>1. nx[e] = 0 /\ e # n
    <3>1. \A x \in Entry : x > h => nx[x] = 0
      BY DEF Shared
    <3>2. nx[e] = 0
      BY ONLY <3>1, e \in Entry, e > h
    <3>. QED
      BY ONLY <2>0, <3>2, e > h
  <2>2. ~(k > 0 /\ e = L[k])
    <3>. SUFFICES ASSUME k > 0, e = L[k] PROVE FALSE
      OBVIOUS
    <3>1. k \in 1 .. Len(L)
      BY <1>2, <1>a
    <3>2. e <= h
      BY <3>1, SharedFacts
    <3>. QED
      BY ONLY <2>0, <3>2, e > h
  <2>. QED
    BY <2>1, <2>2
<1>. HIDE DEF m
<1>11. Shared(nx2, m, f, h, M, F, 0)
  BY <1>1, <1>4, <1>5, <1>6, <1>7, <1>8, <1>9, <1>10 DEF Shared
<1>. QED
  BY <1>11 DEF m, M

\* What is left of L without its first m elements, and the free list F with
\* the entries s in front of it, the last one first.
Rest(L, m) == [i \in 1 .. (Len(L) - m) |-> L[i + m]]
Back(s, F) == [i \in 1 .. (Len(s) + Len(F)) |->
                 IF i <= Len(s) THEN s[Len(s) + 1 - i] ELSE F[i - Len(s)]]

\* The elements of what is left of a list.
LEMMA RestIs ==
  ASSUME NEW L \in Seq(Entry), NEW m \in 0 .. Len(L)
  PROVE  /\ Rest(L, m) \in Seq(Entry) /\ Len(Rest(L, m)) = Len(L) - m
         /\ \A i \in 1 .. (Len(L) - m) : Rest(L, m)[i] = L[i + m] /\ i + m \in 1 .. Len(L)
         /\ \A e : In(e, Rest(L, m)) <=> \E i \in (m + 1) .. Len(L) : L[i] = e
<1>. DEFINE R == Rest(L, m)
<1>1. Len(L) \in Nat /\ m \in Nat /\ Len(L) - m \in Nat
  OBVIOUS
<1>2. \A i \in 1 .. (Len(L) - m) : i + m \in 1 .. Len(L) /\ L[i + m] \in Entry
  BY <1>1
<1>3. R \in Seq(Entry) /\ Len(R) = Len(L) - m
  BY <1>1, <1>2 DEF Rest
<1>4. \A i \in 1 .. (Len(L) - m) : R[i] = L[i + m]
  BY <1>1 DEF Rest
<1>. HIDE DEF R
<1>5. ASSUME NEW e, In(e, R)
      PROVE  \E i \in (m + 1) .. Len(L) : L[i] = e
  <2>1. PICK i \in 1 .. (Len(L) - m) : R[i] = e
    BY <1>3, <1>5 DEF In
  <2>2. i + m \in (m + 1) .. Len(L) /\ L[i + m] = e
    BY <1>1, <1>4, <2>1
  <2>. QED
    BY <2>2
<1>6. ASSUME NEW i \in (m + 1) .. Len(L)
      PROVE  In(L[i], R)
  <2>1. i - m \in 1 .. (Len(L) - m) /\ (i - m) + m = i
    BY <1>1
  <2>2. R[i - m] = L[(i - m) + m]
    BY <1>4, <2>1
  <2>. QED
    BY <1>3, <2>1, <2>2 DEF In
<1>. QED
  BY <1>2, <1>3, <1>4, <1>5, <1>6 DEF R

\* The elements of the free list after the deletes.
LEMMA BackIs ==
  ASSUME NEW s \in Seq(Entry), NEW F \in Seq(Entry)
  PROVE  /\ Back(s, F) \in Seq(Entry) /\ Len(Back(s, F)) = Len(s) + Len(F)
         /\ \A i \in 1 .. Len(s) : Back(s, F)[Len(s) + 1 - i] = s[i]
         /\ \A i \in 1 .. Len(F) : Back(s, F)[Len(s) + i] = F[i]
         /\ \A i \in 1 .. (Len(s) + Len(F)) :
               \/ \E j \in 1 .. Len(s) : i = Len(s) + 1 - j /\ Back(s, F)[i] = s[j]
               \/ \E j \in 1 .. Len(F) : i = Len(s) + j /\ Back(s, F)[i] = F[j]
         /\ \A e : In(e, Back(s, F)) <=> In(e, s) \/ In(e, F)
<1>. DEFINE B == Back(s, F)
<1>1. Len(s) \in Nat /\ Len(F) \in Nat
  OBVIOUS
<1>2. \A i \in 1 .. (Len(s) + Len(F)) :
        (IF i <= Len(s) THEN s[Len(s) + 1 - i] ELSE F[i - Len(s)]) \in Entry
  BY <1>1
<1>3. B \in Seq(Entry) /\ Len(B) = Len(s) + Len(F)
  BY <1>1, <1>2 DEF Back
<1>4. \A i \in 1 .. (Len(s) + Len(F)) :
        B[i] = IF i <= Len(s) THEN s[Len(s) + 1 - i] ELSE F[i - Len(s)]
  BY <1>1 DEF Back
<1>. HIDE DEF B
<1>5. ASSUME NEW i \in 1 .. Len(s)
      PROVE  B[Len(s) + 1 - i] = s[i] /\ Len(s) + 1 - i \in 1 .. (Len(s) + Len(F))
  <2>1. Len(s) + 1 - i \in 1 .. (Len(s) + Len(F)) /\ Len(s) + 1 - i <= Len(s)
        /\ Len(s) + 1 - (Len(s) + 1 - i) = i
    BY <1>1
  <2>2. B[Len(s) + 1 - i] = s[Len(s) + 1 - (Len(s) + 1 - i)]
    BY <1>4, <2>1
  <2>. QED
    BY <2>1, <2>2
<1>6. ASSUME NEW i \in 1 .. Len(F)
      PROVE  B[Len(s) + i] = F[i] /\ Len(s) + i \in 1 .. (Len(s) + Len(F))
  <2>1. Len(s) + i \in 1 .. (Len(s) + Len(F)) /\ ~(Len(s) + i <= Len(s))
        /\ (Len(s) + i) - Len(s) = i
    BY <1>1
  <2>2. B[Len(s) + i] = F[(Len(s) + i) - Len(s)]
    BY <1>4, <2>1
  <2>. QED
    BY <2>1, <2>2
<1>7. ASSUME NEW i \in 1 .. (Len(s) + Len(F))
      PROVE  \/ \E j \in 1 .. Len(s) : i = Len(s) + 1 - j /\ B[i] = s[j]
             \/ \E j \in 1 .. Len(F) : i = Len(s) + j /\ B[i] = F[j]
  <2>1. CASE i <= Len(s)
    <3>1. Len(s) + 1 - i \in 1 .. Len(s) /\ i = Len(s) + 1 - (Len(s) + 1 - i)
      BY <1>1, <2>1
    <3>. QED
      BY <1>4, <2>1, <3>1
  <2>2. CASE ~(i <= Len(s))
    <3>1. i - Len(s) \in 1 .. Len(F) /\ i = Len(s) + (i - Len(s))
      BY <1>1, <2>2
    <3>. QED
      BY <1>4, <2>2, <3>1
  <2>. QED
    BY <2>1, <2>2
<1>8. ASSUME NEW e, In(e, B)
      PROVE  In(e, s) \/ In(e, F)
  <2>1. PICK i \in 1 .. (Len(s) + Len(F)) : B[i] = e
    BY <1>3, <1>8 DEF In
  <2>. QED
    BY <1>7, <2>1 DEF In
<1>9. ASSUME NEW e, In(e, s) \/ In(e, F)
      PROVE  In(e, B)
  <2>1. CASE In(e, s)
    <3>1. PICK i \in 1 .. Len(s) : s[i] = e
      BY <2>1 DEF In
    <3>. QED
      BY <1>3, <1>5, <3>1 DEF In
  <2>2. CASE In(e, F)
    <3>1. PICK i \in 1 .. Len(F) : F[i] = e
      BY <2>2 DEF In
    <3>. QED
      BY <1>3, <1>6, <3>1 DEF In
  <2>. QED
    BY <1>9, <2>1, <2>2
<1>. QED
  BY <1>3, <1>5, <1>6, <1>7, <1>8, <1>9 DEF B

\* The links after the deletes.
LEMMA LinksWithoutIs ==
  ASSUME NEW s \in Seq(Entry), Distinct(s), next \in [Entry -> 0 .. MaxEntries],
         free \in 0 .. MaxEntries
  PROVE  /\ LinksWithout(s) \in [Entry -> 0 .. MaxEntries]
         /\ \A i \in 1 .. Len(s) : LinksWithout(s)[s[i]] = IF i = 1 THEN free ELSE s[i - 1]
         /\ \A e \in Entry : ~In(e, s) => LinksWithout(s)[e] = next[e]
<1>. DEFINE at(e) == CHOOSE k \in DOMAIN s : s[k] = e
            Before(e) == IF at(e) = 1 THEN free ELSE s[at(e) - 1]
            nx2 == LinksWithout(s)
<1>1. DOMAIN s = 1 .. Len(s) /\ Len(s) \in Nat /\ \A i \in 1 .. Len(s) : s[i] \in Entry
      /\ Entry \subseteq 0 .. MaxEntries
  BY AllocAssumption DEF Entry
<1>2. ASSUME NEW i \in 1 .. Len(s)
      PROVE  Before(s[i]) = IF i = 1 THEN free ELSE s[i - 1]
  <2>1. at(s[i]) = i
    <3>1. \A k \in DOMAIN s : s[k] = s[i] <=> k = i
      BY <1>1 DEF Distinct
    <3>2. \E k \in DOMAIN s : s[k] = s[i]
      BY <1>1
    <3>. QED
      BY ONLY <3>1, <3>2
  <2>. HIDE DEF at
  <2>. QED
    BY <2>1
<1>3. nx2 = [e \in Entry |-> IF Deleted(s, e) THEN Before(e) ELSE next[e]]
  BY DEF LinksWithout
<1>4. \A e : Deleted(s, e) <=> In(e, s)
  BY <1>1 DEF Deleted, In
<1>5. ASSUME NEW e \in Entry, In(e, s)
      PROVE  Before(e) \in 0 .. MaxEntries
  <2>1. PICK i \in 1 .. Len(s) : s[i] = e
    BY <1>5 DEF In
  <2>2. i # 1 => i - 1 \in 1 .. Len(s)
    BY <1>1
  <2>. HIDE DEF Before
  <2>. QED
    BY <1>1, <1>2, <2>1, <2>2
<1>. HIDE DEF Before, nx2
<1>6. nx2 \in [Entry -> 0 .. MaxEntries]
  BY <1>3, <1>4, <1>5
<1>7. \A i \in 1 .. Len(s) : nx2[s[i]] = IF i = 1 THEN free ELSE s[i - 1]
  BY <1>1, <1>2, <1>3, <1>4 DEF In
<1>8. \A e \in Entry : ~In(e, s) => nx2[e] = next[e]
  BY <1>3, <1>4
<1>. QED
  BY <1>6, <1>7, <1>8 DEF nx2

\* CallbackListEntry::operator delete of the first entries of the list: they
\* are on the free list.
LEMMA Recycled ==
  ASSUME NEW L, NEW F, Shared(next, list, free, heap, L, F, 0),
         NEW s \in Seq(Entry), Len(s) <= Len(L), \A i \in 1 .. Len(s) : s[i] = L[i]
  PROVE  Shared(LinksWithout(s), IF Len(s) < Len(L) THEN L[Len(s) + 1] ELSE 0,
                IF s = <<>> THEN free ELSE Last(s), heap, Rest(L, Len(s)), Back(s, F), 0)
<1>. DEFINE m   == Len(s)
            nx2 == LinksWithout(s)
            l2  == IF m < Len(L) THEN L[m + 1] ELSE 0
            f2  == IF s = <<>> THEN free ELSE Last(s)
            R   == Rest(L, m)
            B   == Back(s, F)
<1>0. /\ L \in Seq(Entry) /\ F \in Seq(Entry)
      /\ Len(L) \in Nat /\ Len(F) \in Nat /\ MaxEntries \in Nat
      /\ \A i \in 1 .. Len(L) : L[i] \in Entry /\ L[i] # 0 /\ L[i] <= heap
      /\ \A i \in 1 .. Len(F) : F[i] \in Entry /\ F[i] # 0 /\ F[i] <= heap
      /\ \A i \in 1 .. Len(L) : \A j \in 1 .. Len(F) : L[i] # F[j]
  BY SharedFacts
<1>1. /\ next \in [Entry -> 0 .. MaxEntries] /\ heap \in 0 .. MaxEntries
      /\ Linked(next, L, list) /\ Linked(next, F, free)
      /\ Len(L) + Len(F) = heap /\ Distinct(L) /\ Distinct(F)
      /\ \A e \in Entry : e <= heap <=> (In(e, L) \/ In(e, F))
      /\ \A e \in Entry : ~(In(e, L) /\ In(e, F))
      /\ \A e \in Entry : e > heap => next[e] = 0
  BY DEF Shared, Entry
<1>2. /\ m \in Nat /\ m <= Len(L) /\ m \in 0 .. Len(L)
      /\ \A i \in 1 .. m : s[i] = L[i] /\ i \in 1 .. Len(L)
      /\ \A e : In(e, s) <=> \E i \in 1 .. m : s[i] = e
  BY <1>0 DEF In
<1>3. free \in 0 .. MaxEntries
  <2>1. F = <<>> => free = 0
    BY <1>1 DEF Linked
  <2>2. F # <<>> => 1 \in 1 .. Len(F) /\ free = F[1]
    BY <1>0, <1>1 DEF Linked
  <2>. QED
    BY <1>0, <2>1, <2>2 DEF Entry
<1>4. Distinct(s)
  BY <1>1, <1>2 DEF Distinct
<1>5. /\ nx2 \in [Entry -> 0 .. MaxEntries]
      /\ \A i \in 1 .. m : nx2[s[i]] = IF i = 1 THEN free ELSE s[i - 1]
      /\ \A e \in Entry : ~In(e, s) => nx2[e] = next[e]
  BY <1>1, <1>3, <1>4, LinksWithoutIs
<1>6. /\ R \in Seq(Entry) /\ Len(R) = Len(L) - m
      /\ \A i \in 1 .. (Len(L) - m) : R[i] = L[i + m] /\ i + m \in 1 .. Len(L)
      /\ \A e : In(e, R) <=> \E i \in (m + 1) .. Len(L) : L[i] = e
  BY <1>0, <1>2, RestIs
<1>7. /\ B \in Seq(Entry) /\ Len(B) = m + Len(F)
      /\ \A i \in 1 .. m : B[m + 1 - i] = s[i]
      /\ \A i \in 1 .. Len(F) : B[m + i] = F[i]
      /\ \A i \in 1 .. (m + Len(F)) :
            \/ \E j \in 1 .. m : i = m + 1 - j /\ B[i] = s[j]
            \/ \E j \in 1 .. Len(F) : i = m + j /\ B[i] = F[j]
      /\ \A e : In(e, B) <=> In(e, s) \/ In(e, F)
  BY <1>0, BackIs
<1>a. Len(s) = m /\ (s = <<>> <=> m = 0) /\ f2 = IF m = 0 THEN free ELSE s[m]
  BY <1>2 DEF Last
<1>b. Len(R) = Len(L) - m /\ Len(B) = m + Len(F) /\ Len(L) \in Nat /\ Len(F) \in Nat
      /\ m \in Nat /\ m <= Len(L)
  BY <1>0, <1>2, <1>6, <1>7
<1>. HIDE DEF nx2, R, B, m, f2
<1>8. \A i \in (m + 1) .. Len(L) : L[i] \in Entry /\ ~In(L[i], s)
  <2>. SUFFICES ASSUME NEW i \in (m + 1) .. Len(L), NEW j \in 1 .. m, s[j] = L[i]
                PROVE  FALSE
    BY <1>0, <1>2, <1>b
  <2>1. j \in 1 .. Len(L) /\ i \in 1 .. Len(L) /\ i # j /\ L[j] = L[i]
    BY <1>0, <1>2
  <2>. QED
    BY <1>1, <2>1 DEF Distinct
<1>9. \A i \in 1 .. Len(F) : ~In(F[i], s)
  BY <1>0, <1>2 DEF In
<1>10. Linked(nx2, R, l2)
  <2>1. Len(R) <= MaxEntries
    BY <1>0, <1>1, <1>2, <1>6 DEF Linked
  <2>2. l2 = IF R = <<>> THEN 0 ELSE R[1]
    <3>1. CASE m < Len(L)
      <4>1. 1 \in 1 .. (Len(L) - m) /\ 1 + m = m + 1
        BY <1>0, <1>2, <3>1
      <4>2. R # <<>> /\ R[1] = L[m + 1]
        BY <1>6, <4>1
      <4>. QED
        BY <3>1, <4>2
    <3>2. CASE ~(m < Len(L))
      <4>1. R = <<>>
        BY <1>0, <1>2, <1>6, <3>2
      <4>. QED
        BY <3>2, <4>1
    <3>. QED
      BY <3>1, <3>2
  <2>3. ASSUME NEW i \in 1 .. Len(R)
        PROVE  nx2[R[i]] = IF i < Len(R) THEN R[i + 1] ELSE 0
    <3>1. PICK j \in (m + 1) .. Len(L) : j = i + m /\ j \in 1 .. Len(L) /\ R[i] = L[j]
      <4>1. i \in 1 .. (Len(L) - m) /\ i + m \in (m + 1) .. Len(L) /\ i + m \in 1 .. Len(L)
        BY <1>b
      <4>. QED
        BY <1>6, <4>1
    <3>2. nx2[L[j]] = next[L[j]]
      BY <1>5, <1>8
    <3>3. next[L[j]] = IF j < Len(L) THEN L[j + 1] ELSE 0
      BY <1>1, <3>1 DEF Linked
    <3>4. i < Len(R) <=> j < Len(L)
      BY <1>0, <1>2, <1>6, <3>1
    <3>5. ASSUME i < Len(R)
          PROVE  R[i + 1] = L[j + 1]
      <4>1. i + 1 \in 1 .. (Len(L) - m) /\ (i + 1) + m = j + 1
        BY <1>0, <1>2, <1>6, <3>1, <3>5
      <4>. QED
        BY <1>6, <4>1
    <3>. QED
      BY <3>1, <3>2, <3>3, <3>4, <3>5
  <2>. HIDE DEF l2
  <2>. QED
    BY <1>6, <2>1, <2>2, <2>3 DEF Linked
<1>11. Linked(nx2, B, f2)
  <2>1. Len(B) <= MaxEntries
    BY <1>0, <1>1, <1>2, <1>7
  <2>2. f2 = IF B = <<>> THEN 0 ELSE B[1]
    <3>1. CASE m = 0
      <4>1. f2 = free
        BY <1>a, <3>1
      <4>2. CASE F = <<>>
        BY <1>0, <1>1, <1>7, <3>1, <4>1, <4>2 DEF Linked
      <4>3. CASE F # <<>>
        <5>1. 1 \in 1 .. Len(F) /\ m + 1 = 1 /\ free = F[1]
          BY <1>0, <1>1, <3>1, <4>3 DEF Linked
        <5>2. B[1] = F[1] /\ B # <<>>
          BY <1>0, <1>7, <3>1, <5>1
        <5>. QED
          BY <4>1, <5>1, <5>2
      <4>. QED
        BY <4>2, <4>3
    <3>2. CASE m # 0
      <4>1. f2 = s[m] /\ m \in 1 .. m /\ m + 1 - m = 1
        BY <1>a, <1>b, <3>2
      <4>2. B[m + 1 - m] = s[m]
        BY <1>7, <4>1
      <4>3. B # <<>>
        BY <1>b, <3>2
      <4>. QED
        BY <4>1, <4>2, <4>3
    <3>. QED
      BY <3>1, <3>2
  <2>3. ASSUME NEW j \in 1 .. m, j # 1
        PROVE  nx2[s[j]] = B[m + 1 - j + 1]
    <3>1. j - 1 \in 1 .. m /\ m + 1 - (j - 1) = m + 1 - j + 1
      BY <1>b, <2>3
    <3>2. nx2[s[j]] = s[j - 1]
      BY <1>5, <2>3
    <3>3. B[m + 1 - (j - 1)] = s[j - 1]
      BY <1>7, <3>1
    <3>. QED
      BY <3>1, <3>2, <3>3
  <2>4. m # 0 => nx2[s[1]] = IF Len(F) > 0 THEN B[m + 1] ELSE 0
    <3>. SUFFICES ASSUME m # 0 PROVE nx2[s[1]] = IF Len(F) > 0 THEN B[m + 1] ELSE 0
      OBVIOUS
    <3>1. 1 \in 1 .. m /\ nx2[s[1]] = free
      BY <1>2, <1>5
    <3>2. Len(F) > 0 => 1 \in 1 .. Len(F) /\ free = F[1]
      BY <1>0, <1>1 DEF Linked
    <3>3. ~(Len(F) > 0) => free = 0
      BY <1>0, <1>1 DEF Linked
    <3>. QED
      BY <1>7, <3>1, <3>2, <3>3
  <2>5. ASSUME NEW i \in 1 .. Len(B)
        PROVE  nx2[B[i]] = IF i < Len(B) THEN B[i + 1] ELSE 0
    <3>1. CASE \E j \in 1 .. m : i = m + 1 - j /\ B[i] = s[j]
      <4>1. PICK j \in 1 .. m : i = m + 1 - j /\ B[i] = s[j]
        BY <3>1
      <4>2. CASE j = 1
        <5>1. i = m /\ m # 0 /\ (i < Len(B) <=> Len(F) > 0)
          BY <1>b, <4>1, <4>2
        <5>. QED
          BY <2>4, <4>1, <4>2, <5>1
      <4>3. CASE j # 1
        <5>1. i < Len(B) /\ i + 1 = m + 1 - j + 1
          BY <1>b, <4>1, <4>3
        <5>. QED
          BY <2>3, <4>1, <4>3, <5>1
      <4>. QED
        BY <4>2, <4>3
    <3>2. CASE \E j \in 1 .. Len(F) : i = m + j /\ B[i] = F[j]
      <4>1. PICK j \in 1 .. Len(F) : i = m + j /\ B[i] = F[j]
        BY <3>2
      <4>2. nx2[F[j]] = next[F[j]]
        BY <1>0, <1>5, <1>9
      <4>3. next[F[j]] = IF j < Len(F) THEN F[j + 1] ELSE 0
        BY <1>1 DEF Linked
      <4>4. i < Len(B) <=> j < Len(F)
        BY <1>0, <1>2, <1>7, <4>1
      <4>5. j < Len(F) => B[i + 1] = F[j + 1]
        <5>1. j < Len(F) => j + 1 \in 1 .. Len(F) /\ m + (j + 1) = i + 1
          BY <1>b, <4>1
        <5>. QED
          BY <1>7, <4>1, <5>1
      <4>. QED
        BY <4>1, <4>2, <4>3, <4>4, <4>5
    <3>. QED
      BY <1>7, <3>1, <3>2
  <2>. HIDE DEF f2
  <2>. QED
    BY <1>7, <2>1, <2>2, <2>5 DEF Linked
<1>12. Distinct(R)
  <2>. SUFFICES ASSUME NEW i \in 1 .. Len(R), NEW j \in 1 .. Len(R), R[i] = R[j]
                PROVE  i = j
    BY DEF Distinct
  <2>1. i + m \in 1 .. Len(L) /\ j + m \in 1 .. Len(L) /\ L[i + m] = L[j + m]
    BY <1>6
  <2>2. i + m = j + m
    BY <1>1, <2>1 DEF Distinct
  <2>. QED
    BY <1>2, <2>2
<1>13. Distinct(B)
  <2>. SUFFICES ASSUME NEW i \in 1 .. Len(B), NEW j \in 1 .. Len(B), B[i] = B[j]
                PROVE  i = j
    BY DEF Distinct
  <2>1. \/ \E a \in 1 .. m : i = m + 1 - a /\ B[i] = s[a]
        \/ \E a \in 1 .. Len(F) : i = m + a /\ B[i] = F[a]
    BY <1>7
  <2>2. \/ \E b \in 1 .. m : j = m + 1 - b /\ B[j] = s[b]
        \/ \E b \in 1 .. Len(F) : j = m + b /\ B[j] = F[b]
    BY <1>7
  <2>3. \A a \in 1 .. m, b \in 1 .. Len(F) : s[a] # F[b]
    BY <1>0, <1>2
  <2>4. \A a, b \in 1 .. m : s[a] = s[b] => a = b
    BY <1>4, <1>a DEF Distinct
  <2>5. \A a, b \in 1 .. Len(F) : F[a] = F[b] => a = b
    BY <1>1 DEF Distinct
  <2>6. CASE \E a \in 1 .. m : i = m + 1 - a /\ B[i] = s[a]
    <3>1. PICK a \in 1 .. m : i = m + 1 - a /\ B[i] = s[a]
      BY <2>6
    <3>2. PICK b \in 1 .. m : j = m + 1 - b /\ B[j] = s[b]
      BY <2>2, <2>3, <3>1
    <3>. QED
      BY <2>4, <3>1, <3>2
  <2>7. CASE \E a \in 1 .. Len(F) : i = m + a /\ B[i] = F[a]
    <3>1. PICK a \in 1 .. Len(F) : i = m + a /\ B[i] = F[a]
      BY <2>7
    <3>2. PICK b \in 1 .. Len(F) : j = m + b /\ B[j] = F[b]
      BY <2>2, <2>3, <3>1
    <3>. QED
      BY <2>5, <3>1, <3>2
  <2>. QED
    BY <2>1, <2>6, <2>7
<1>14. \A e : In(e, L) <=> In(e, R) \/ In(e, s)
  <2>1. ASSUME NEW e, In(e, L)
        PROVE  In(e, R) \/ In(e, s)
    <3>1. PICK i \in 1 .. Len(L) : L[i] = e
      BY <2>1 DEF In
    <3>2. i \in 1 .. m \/ i \in (m + 1) .. Len(L)
      BY <1>0, <1>2
    <3>. QED
      BY <1>2, <1>6, <3>1, <3>2
  <2>2. ASSUME NEW e, In(e, R)
        PROVE  In(e, L)
    <3>1. PICK i \in (m + 1) .. Len(L) : L[i] = e
      BY <1>6, <2>2
    <3>2. i \in 1 .. Len(L)
      BY <1>0, <1>2
    <3>. QED
      BY <3>1, <3>2 DEF In
  <2>3. ASSUME NEW e, In(e, s)
        PROVE  In(e, L)
    <3>1. PICK i \in 1 .. m : s[i] = e
      BY <1>2, <2>3
    <3>2. i \in 1 .. Len(L) /\ L[i] = e
      BY <1>2, <3>1
    <3>. QED
      BY <3>2 DEF In
  <2>. QED
    BY <2>1, <2>2, <2>3
<1>15. Len(R) + Len(B) + (IF 0 = 0 THEN 0 ELSE 1) = heap /\ 0 \in 0 .. heap
  <2>1. Len(L) + Len(F) = heap
    BY <1>1
  <2>. QED
    BY ONLY <1>b, <2>1
<1>16. \A e \in Entry : e <= heap <=> (In(e, R) \/ In(e, B) \/ e = 0)
  <2>1. \A e \in Entry : e # 0
    BY DEF Entry
  <2>. QED
    BY <1>1, <1>7, <1>14, <2>1
<1>17. \A e \in Entry : ~(In(e, R) /\ In(e, B)) /\ ~(In(0, R) \/ In(0, B))
  <2>1. ~In(0, L) /\ ~In(0, F)
    BY <1>0 DEF In, Entry
  <2>2. ASSUME NEW e, In(e, R), In(e, s)
        PROVE  FALSE
    BY <1>6, <1>8, <2>2
  <2>. QED
    BY <1>1, <1>7, <1>14, <2>1, <2>2
<1>18. \A e \in Entry : e > heap => nx2[e] = 0
  <2>. SUFFICES ASSUME NEW e \in Entry, e > heap PROVE nx2[e] = 0
    OBVIOUS
  <2>1. ~(e <= heap) /\ next[e] = 0
    BY <1>0, <1>1 DEF Entry
  <2>2. ~In(e, s)
    BY <1>1, <1>14, <2>1
  <2>. QED
    BY <1>5, <2>1, <2>2
<1>. HIDE DEF l2, f2
<1>19. Shared(nx2, l2, f2, heap, R, B, 0)
  BY <1>1, <1>5, <1>10, <1>11, <1>12, <1>13, <1>15, <1>16, <1>17, <1>18 DEF Shared
<1>. QED
  BY <1>19 DEF nx2, l2, f2, R, B, m

-----------------------------------------------------------------------------
(***************************************************************************)
(* The list is what arrived, in the order of the times.                    *)
(***************************************************************************)

\* With the times val, the list L is the arrivals a sorted; equal times keep
\* their order.
Ordered(val, a, L) ==
  /\ a \in Seq(Entry) /\ Distinct(a) /\ Len(a) = Len(L)
  /\ \A e : In(e, a) <=> In(e, L)
  /\ \A i, j \in 1 .. Len(L), k, l \in 1 .. Len(a) :
       i < j /\ a[k] = L[i] /\ a[l] = L[j] =>
         val[L[i]] < val[L[j]] \/ (val[L[i]] = val[L[j]] /\ k < l)

\* The list and the arrivals have the same elements; the times never fall.
LEMMA OrderedFacts ==
  ASSUME NEW val \in [Entry -> Int], NEW a, NEW L \in Seq(Entry), Ordered(val, a, L)
  PROVE  /\ \A i \in 1 .. Len(L) : val[L[i]] \in Int /\ L[i] \in Entry
         /\ \A i \in 1 .. Len(L) : \E k \in 1 .. Len(a) : a[k] = L[i]
         /\ \A k \in 1 .. Len(a) : \E i \in 1 .. Len(L) : a[k] = L[i]
         /\ \A i, j \in 1 .. Len(L) : i <= j => val[L[i]] <= val[L[j]]
         /\ Len(L) \in Nat
<1>1. \A i \in 1 .. Len(L) : val[L[i]] \in Int /\ L[i] \in Entry
  OBVIOUS
<1>2. \A i \in 1 .. Len(L) : \E k \in 1 .. Len(a) : a[k] = L[i]
  <2>. SUFFICES ASSUME NEW i \in 1 .. Len(L)
                PROVE  \E k \in 1 .. Len(a) : a[k] = L[i]
    OBVIOUS
  <2>1. In(L[i], L)
    BY DEF In
  <2>2. In(L[i], a)
    BY <2>1 DEF Ordered
  <2>. QED
    BY <2>2 DEF In
<1>3. \A k \in 1 .. Len(a) : \E i \in 1 .. Len(L) : a[k] = L[i]
  <2>. SUFFICES ASSUME NEW k \in 1 .. Len(a)
                PROVE  \E i \in 1 .. Len(L) : a[k] = L[i]
    OBVIOUS
  <2>1. In(a[k], a)
    BY DEF In
  <2>2. In(a[k], L)
    BY <2>1 DEF Ordered
  <2>. QED
    BY <2>2 DEF In
<1>4. ASSUME NEW i \in 1 .. Len(L), NEW j \in 1 .. Len(L), i <= j
      PROVE  val[L[i]] <= val[L[j]]
  <2>1. CASE i = j
    BY <1>1, <2>1
  <2>2. CASE i # j
    <3>1. i < j
      BY <1>4, <2>2
    <3>2. PICK k \in 1 .. Len(a) : a[k] = L[i]
      BY <1>2
    <3>3. PICK l \in 1 .. Len(a) : a[l] = L[j]
      BY <1>2
    <3>4. \A i2, j2 \in 1 .. Len(L), k2, l2 \in 1 .. Len(a) :
             i2 < j2 /\ a[k2] = L[i2] /\ a[l2] = L[j2] =>
               val[L[i2]] < val[L[j2]] \/ (val[L[i2]] = val[L[j2]] /\ k2 < l2)
      BY DEF Ordered
    <3>5. i \in 1 .. Len(L) /\ j \in 1 .. Len(L) /\ k \in 1 .. Len(a) /\ l \in 1 .. Len(a)
      BY <3>2, <3>3
    <3>6. val[L[i]] < val[L[j]] \/ val[L[i]] = val[L[j]]
      <4>1. val[L[i]] < val[L[j]] \/ (val[L[i]] = val[L[j]] /\ k < l)
        BY ONLY <3>1, <3>2, <3>3, <3>4, <3>5, ZenonT(60)
      <4>. QED
        BY ONLY <4>1
    <3>7. val[L[i]] \in Int /\ val[L[j]] \in Int
      BY <1>1
    <3>. QED
      BY ONLY <3>6, <3>7
  <2>. QED
    BY <2>1, <2>2
<1>5. \A i, j \in 1 .. Len(L) : i <= j => val[L[i]] <= val[L[j]]
  BY ONLY <1>4
<1>6. Len(L) \in Nat /\ DOMAIN L = 1 .. Len(L)
  OBVIOUS
<1>. QED
  BY <1>1, <1>2, <1>3, <1>5, <1>6

\* An event arrives: its entry stands behind those that are not later.
LEMMA OrderedAdd ==
  ASSUME NEW val \in [Entry -> Int], NEW a, NEW L \in Seq(Entry), Ordered(val, a, L),
         NEW n \in Entry, ~In(n, L), NEW v \in Int, NEW k \in 0 .. Len(L),
         \A i \in 1 .. k : val[L[i]] <= v,
         \A i \in (k + 1) .. Len(L) : val[L[i]] > v,
         NEW val2, val2 = [val EXCEPT ![n] = v]
  PROVE  Ordered(val2, Append(a, n), Inserted(L, k, n))
<1>. DEFINE b == Append(a, n)
            M == Inserted(L, k, n)
<1>0. a \in Seq(Entry) /\ Distinct(a) /\ Len(a) = Len(L) /\ Len(L) \in Nat /\ k \in Nat
      /\ k <= Len(L) /\ \A e : In(e, a) <=> In(e, L)
  BY DEF Ordered
<1>1. /\ b \in Seq(Entry) /\ Len(b) = Len(a) + 1
      /\ \A i \in 1 .. Len(a) : b[i] = a[i]
      /\ b[Len(a) + 1] = n
  BY <1>0
<1>2. /\ M \in Seq(Entry) /\ Len(M) = Len(L) + 1
      /\ \A i \in 1 .. (Len(L) + 1) : M[i] = IF i <= k THEN L[i] ELSE IF i = k + 1 THEN n ELSE L[i - 1]
      /\ \A e : In(e, M) <=> In(e, L) \/ e = n
  <2>1. /\ Inserted(L, k, n) \in Seq(Entry) /\ Len(Inserted(L, k, n)) = Len(L) + 1
        /\ \A i \in 1 .. (Len(L) + 1) : Inserted(L, k, n)[i] =
              IF i <= k THEN L[i] ELSE IF i = k + 1 THEN n ELSE L[i - 1]
    BY InsertedIs
  <2>2. \A e : In(e, Inserted(L, k, n)) <=> In(e, L) \/ e = n
    BY InsertedElements
  <2>. QED
    BY ONLY <2>1, <2>2
<1>. HIDE DEF b, M
<1>3. \A e : In(e, b) <=> In(e, a) \/ e = n
  <2>1. ASSUME NEW e, In(e, b)
        PROVE  In(e, a) \/ e = n
    <3>1. PICK i \in 1 .. (Len(a) + 1) : b[i] = e
      BY <1>1, <2>1 DEF In
    <3>2. CASE i = Len(a) + 1
      BY <1>1, <3>1, <3>2
    <3>3. CASE i # Len(a) + 1
      <4>1. i \in 1 .. Len(a) /\ a[i] = e
        BY <1>0, <1>1, <3>1, <3>3
      <4>. QED
        BY <4>1 DEF In
    <3>. QED
      BY <3>2, <3>3
  <2>2. ASSUME NEW e, In(e, a)
        PROVE  In(e, b)
    <3>1. PICK i \in 1 .. Len(a) : a[i] = e
      BY <2>2 DEF In
    <3>2. i \in 1 .. Len(b) /\ b[i] = e
      BY <1>0, <1>1, <3>1
    <3>. QED
      BY <3>2 DEF In
  <2>3. In(n, b)
    <3>1. Len(a) + 1 \in 1 .. Len(b)
      BY <1>0, <1>1
    <3>. QED
      BY <1>1, <3>1 DEF In
  <2>. QED
    BY <2>1, <2>2, <2>3
<1>4. \A i \in 1 .. Len(a) : a[i] # n
  BY <1>0 DEF In
<1>5. ASSUME NEW i \in 1 .. Len(b), b[i] # n
      PROVE  i \in 1 .. Len(a) /\ b[i] = a[i]
  BY <1>0, <1>1, <1>5
<1>6. ASSUME NEW i \in 1 .. Len(b), b[i] = n
      PROVE  i = Len(a) + 1
  <2>. SUFFICES ASSUME i # Len(a) + 1 PROVE FALSE
    OBVIOUS
  <2>1. i \in 1 .. Len(a)
    BY ONLY <1>0, <1>1, <1>6, i # Len(a) + 1
  <2>. QED
    BY <1>1, <1>4, <1>6, <2>1
<1>7. Distinct(b)
  <2>. SUFFICES ASSUME NEW i \in 1 .. Len(b), NEW j \in 1 .. Len(b), b[i] = b[j]
                PROVE  i = j
    BY DEF Distinct
  <2>1. CASE b[i] = n
    BY <1>6, <2>1
  <2>2. CASE b[i] # n
    BY <1>0, <1>5, <2>2 DEF Distinct
  <2>. QED
    BY <2>1, <2>2
<1>. DEFINE Old(i) == IF i <= k THEN i ELSE i - 1
<1>8. ASSUME NEW i \in 1 .. Len(M), i # k + 1
      PROVE  /\ Old(i) \in 1 .. Len(L) /\ M[i] = L[Old(i)] /\ M[i] # n
             /\ val2[M[i]] = val[L[Old(i)]] /\ val[L[Old(i)]] \in Int
  <2>1. Old(i) \in 1 .. Len(L) /\ M[i] = L[Old(i)]
    BY <1>0, <1>2, <1>8
  <2>. HIDE DEF Old
  <2>2. L[Old(i)] \in Entry /\ L[Old(i)] # n
    BY <2>1 DEF In
  <2>. QED
    BY <2>1, <2>2
<1>9. M[k + 1] = n /\ val2[n] = v
  <2>1. k + 1 \in 1 .. (Len(L) + 1) /\ ~(k + 1 <= k)
    BY <1>0
  <2>. QED
    BY <1>2, <2>1
<1>10. ASSUME NEW i \in 1 .. Len(M), NEW j \in 1 .. Len(M), NEW x \in 1 .. Len(b), NEW y \in 1 .. Len(b),
              i < j, b[x] = M[i], b[y] = M[j]
       PROVE  val2[M[i]] < val2[M[j]] \/ (val2[M[i]] = val2[M[j]] /\ x < y)
  <2>1. CASE i = k + 1
    <3>1. j # k + 1 /\ Old(j) \in (k + 1) .. Len(L)
      BY <1>0, <1>2, <1>10, <2>1
    <3>2. val2[M[j]] = val[L[Old(j)]] /\ val2[M[j]] \in Int
      BY <1>8, <3>1
    <3>3. val2[M[j]] > v
      BY <3>1, <3>2
    <3>. QED
      BY <1>9, <2>1, <3>2, <3>3
  <2>2. CASE j = k + 1
    <3>1. i # k + 1 /\ Old(i) \in 1 .. k
      BY <1>0, <1>2, <1>10, <2>2
    <3>2. val2[M[i]] = val[L[Old(i)]] /\ val2[M[i]] \in Int /\ M[i] # n
      BY <1>8, <3>1
    <3>3. val2[M[i]] <= v
      BY <3>1, <3>2
    <3>4. x \in 1 .. Len(a) /\ y = Len(a) + 1
      BY <1>5, <1>6, <1>9, <1>10, <2>2, <3>2
    <3>5. x < y
      BY <1>0, <3>4
    <3>6. val2[M[j]] = v
      BY ONLY <1>9, <2>2
    <3>. QED
      BY ONLY <3>2, <3>3, <3>5, <3>6, v \in Int
  <2>3. CASE i # k + 1 /\ j # k + 1
    <3>1. /\ Old(i) \in 1 .. Len(L) /\ M[i] = L[Old(i)] /\ M[i] # n /\ val2[M[i]] = val[L[Old(i)]]
          /\ Old(j) \in 1 .. Len(L) /\ M[j] = L[Old(j)] /\ M[j] # n /\ val2[M[j]] = val[L[Old(j)]]
      BY <1>8, <2>3
    <3>2. Old(i) < Old(j)
      <4>1. i \in Int /\ j \in Int /\ k \in Int
        BY <1>0
      <4>. QED
        BY ONLY <1>10, <2>3, <4>1 DEF Old
    <3>. HIDE DEF Old
    <3>3. x \in 1 .. Len(a) /\ y \in 1 .. Len(a) /\ a[x] = L[Old(i)] /\ a[y] = L[Old(j)]
      BY <1>5, <1>10, <3>1
    <3>4. \A i2, j2 \in 1 .. Len(L), k2, l2 \in 1 .. Len(a) :
             i2 < j2 /\ a[k2] = L[i2] /\ a[l2] = L[j2] =>
               val[L[i2]] < val[L[j2]] \/ (val[L[i2]] = val[L[j2]] /\ k2 < l2)
      BY DEF Ordered
    <3>5. val[L[Old(i)]] < val[L[Old(j)]] \/ (val[L[Old(i)]] = val[L[Old(j)]] /\ x < y)
      BY ONLY <3>1, <3>2, <3>3, <3>4
    <3>. QED
      BY ONLY <3>1, <3>5
  <2>. QED
    BY <2>1, <2>2, <2>3
<1>11. Ordered(val2, b, M)
  <2>1. Len(b) = Len(M)
    BY <1>0, <1>1, <1>2
  <2>2. \A e : In(e, b) <=> In(e, M)
    BY <1>0, <1>2, <1>3
  <2>. QED
    BY <1>1, <1>7, <1>10, <2>1, <2>2 DEF Ordered
<1>. QED
  BY <1>11 DEF b, M

\* A sequence without its element at p.
LEMMA CutIs ==
  ASSUME NEW S, NEW a \in Seq(S), NEW p \in 1 .. Len(a)
  PROVE  /\ SubSeq(a, 1, p - 1) \o SubSeq(a, p + 1, Len(a)) \in Seq(S)
         /\ Len(SubSeq(a, 1, p - 1) \o SubSeq(a, p + 1, Len(a))) = Len(a) - 1
         /\ \A i \in 1 .. (Len(a) - 1) :
              (SubSeq(a, 1, p - 1) \o SubSeq(a, p + 1, Len(a)))[i] = a[IF i < p THEN i ELSE i + 1]
<1>. DEFINE u == SubSeq(a, 1, p - 1)
            w == SubSeq(a, p + 1, Len(a))
<1>1. Len(a) \in Nat /\ p \in Nat /\ p >= 1 /\ p <= Len(a) /\ p - 1 \in Int /\ p + 1 \in Int
      /\ \A i \in 1 .. Len(a) : a[i] \in S
  OBVIOUS
<1>2. /\ u \in Seq(S) /\ Len(u) = IF 1 <= p - 1 THEN (p - 1) - 1 + 1 ELSE 0
      /\ \A i \in 1 .. (p - 1) - 1 + 1 : u[i] = a[1 + i - 1]
  <2>1. \A i \in 1 .. p - 1 : a[i] \in S
    BY <1>1
  <2>. HIDE DEF u
  <2>. QED
    BY <1>1, <2>1, SubSeqProperties DEF u
<1>3. /\ w \in Seq(S) /\ Len(w) = IF p + 1 <= Len(a) THEN Len(a) - (p + 1) + 1 ELSE 0
      /\ \A i \in 1 .. Len(a) - (p + 1) + 1 : w[i] = a[(p + 1) + i - 1]
  <2>1. \A i \in p + 1 .. Len(a) : a[i] \in S
    BY <1>1
  <2>. HIDE DEF w
  <2>. QED
    BY <1>1, <2>1, SubSeqProperties DEF w
<1>. HIDE DEF u, w
<1>4. /\ u \o w \in Seq(S) /\ Len(u \o w) = Len(u) + Len(w)
      /\ \A i \in 1 .. Len(u) + Len(w) : (u \o w)[i] = IF i <= Len(u) THEN u[i] ELSE w[i - Len(u)]
  BY <1>2, <1>3, ConcatProperties
<1>5. Len(u) = p - 1 /\ Len(w) = Len(a) - p
  BY <1>1, <1>2, <1>3
<1>6. \A i \in 1 .. (p - 1) : u[i] = a[i]
  <2>. SUFFICES ASSUME NEW i \in 1 .. (p - 1) PROVE u[i] = a[i]
    OBVIOUS
  <2>1. i \in 1 .. (p - 1) - 1 + 1 /\ 1 + i - 1 = i
    BY <1>1
  <2>. QED
    BY <1>2, <2>1
<1>7. \A i \in 1 .. (Len(a) - p) : w[i] = a[i + p]
  <2>. SUFFICES ASSUME NEW i \in 1 .. (Len(a) - p) PROVE w[i] = a[i + p]
    OBVIOUS
  <2>1. i \in 1 .. Len(a) - (p + 1) + 1 /\ (p + 1) + i - 1 = i + p
    BY <1>1
  <2>. QED
    BY <1>3, <2>1
<1>8. ASSUME NEW i \in 1 .. (Len(a) - 1)
      PROVE  (u \o w)[i] = a[IF i < p THEN i ELSE i + 1]
  <2>0. i \in 1 .. Len(u) + Len(w)
    BY <1>1, <1>5
  <2>1. CASE i < p
    <3>1. i <= Len(u) /\ i \in 1 .. (p - 1)
      BY <1>1, <1>5, <2>1
    <3>. QED
      BY <1>4, <1>6, <2>0, <2>1, <3>1
  <2>2. CASE ~(i < p)
    <3>1. i - Len(u) \in 1 .. (Len(a) - p) /\ (i - Len(u)) + p = i + 1 /\ ~(i <= Len(u))
      BY <1>1, <1>5, <2>2
    <3>2. (u \o w)[i] = w[i - Len(u)]
      BY <1>4, <2>0, <3>1
    <3>. QED
      BY <1>7, <2>2, <3>1, <3>2
  <2>. QED
    BY <2>1, <2>2
<1>9. Len(u \o w) = Len(a) - 1
  BY <1>1, <1>4, <1>5
<1>. QED
  BY <1>4, <1>8, <1>9 DEF u, w

\* The history without the entry at p.
LEMMA WithoutIs ==
  ASSUME NEW a \in Seq(Entry), Distinct(a), NEW p \in 1 .. Len(a)
  PROVE  /\ Without(a, a[p]) = SubSeq(a, 1, p - 1) \o SubSeq(a, p + 1, Len(a))
         /\ Without(a, a[p]) \in Seq(Entry) /\ Len(Without(a, a[p])) = Len(a) - 1
         /\ \A i \in 1 .. (Len(a) - 1) : Without(a, a[p])[i] = a[IF i < p THEN i ELSE i + 1]
<1>1. Len(a) \in Nat /\ DOMAIN a = 1 .. Len(a)
  OBVIOUS
<1>2. (CHOOSE i \in DOMAIN a : a[i] = a[p]) = p
  <2>1. \A i \in DOMAIN a : a[i] = a[p] <=> i = p
    BY <1>1 DEF Distinct
  <2>2. \E i \in DOMAIN a : a[i] = a[p]
    BY <1>1
  <2>. QED
    BY ONLY <2>1, <2>2
<1>3. Without(a, a[p]) = SubSeq(a, 1, p - 1) \o SubSeq(a, p + 1, Len(a))
  <2>. DEFINE k == CHOOSE i \in DOMAIN a : a[i] = a[p]
  <2>1. Without(a, a[p]) = SubSeq(a, 1, k - 1) \o SubSeq(a, k + 1, Len(a))
    BY DEF Without
  <2>2. k = p
    BY <1>2
  <2>. HIDE DEF k
  <2>. QED
    BY <2>1, <2>2
<1>. QED
  BY <1>3, CutIs

\* The first event of the list goes.
LEMMA OrderedFire ==
  ASSUME NEW val \in [Entry -> Int], NEW a, NEW L \in Seq(Entry), Ordered(val, a, L), Distinct(L),
         Len(L) > 0, NEW val2, \A e \in Entry : e # L[1] => val2[e] = val[e]
  PROVE  Ordered(val2, Without(a, L[1]), Rest(L, 1))
<1>. DEFINE b == Without(a, L[1])
            M == Rest(L, 1)
<1>0. a \in Seq(Entry) /\ Distinct(a) /\ Len(a) = Len(L) /\ Len(L) \in Nat
      /\ 1 \in 1 .. Len(L) /\ \A e : In(e, a) <=> In(e, L)
  BY DEF Ordered
<1>1. PICK p \in 1 .. Len(a) : a[p] = L[1]
  <2>1. In(L[1], L)
    BY <1>0 DEF In
  <2>. QED
    BY <1>0, <2>1 DEF In
<1>. DEFINE up(i) == IF i < p THEN i ELSE i + 1
<1>2. /\ b \in Seq(Entry) /\ Len(b) = Len(a) - 1
      /\ \A i \in 1 .. (Len(a) - 1) : b[i] = a[up(i)]
  <2>1. /\ Without(a, a[p]) \in Seq(Entry) /\ Len(Without(a, a[p])) = Len(a) - 1
        /\ \A i \in 1 .. (Len(a) - 1) : Without(a, a[p])[i] = a[IF i < p THEN i ELSE i + 1]
    BY <1>0, <1>1, WithoutIs
  <2>. QED
    BY <1>1, <2>1
<1>3. /\ M \in Seq(Entry) /\ Len(M) = Len(L) - 1
      /\ \A i \in 1 .. (Len(L) - 1) : M[i] = L[i + 1] /\ i + 1 \in 1 .. Len(L)
      /\ \A e : In(e, M) <=> \E i \in 2 .. Len(L) : L[i] = e
  <2>1. 1 \in 0 .. Len(L) /\ 1 + 1 = 2
    BY <1>0
  <2>. QED
    BY <2>1, RestIs
<1>. HIDE DEF b, M
<1>4. ASSUME NEW i \in 1 .. (Len(a) - 1)
      PROVE  up(i) \in 1 .. Len(a) /\ up(i) # p
  BY <1>0, <1>1
<1>5. ASSUME NEW i \in 1 .. Len(a), i # p
      PROVE  \E j \in 1 .. (Len(a) - 1) : up(j) = i
  <2>1. CASE i < p
    <3>1. i \in 1 .. (Len(a) - 1) /\ up(i) = i
      BY <1>0, <1>1, <2>1
    <3>. QED
      BY <3>1
  <2>2. CASE ~(i < p)
    <3>1. i - 1 \in 1 .. (Len(a) - 1) /\ up(i - 1) = i
      BY <1>0, <1>1, <1>5, <2>2
    <3>. QED
      BY <3>1
  <2>. QED
    BY <2>1, <2>2
<1>6. ASSUME NEW i \in 1 .. (Len(a) - 1), NEW j \in 1 .. (Len(a) - 1)
      PROVE  /\ up(i) = up(j) => i = j
             /\ up(i) < up(j) => i < j
  BY <1>0, <1>1
<1>. HIDE DEF up
<1>7. \A e : In(e, b) <=> In(e, M)
  <2>1. ASSUME NEW e, In(e, b)
        PROVE  In(e, M)
    <3>1. PICK i \in 1 .. (Len(a) - 1) : b[i] = e
      BY <1>2, <2>1 DEF In
    <3>2. a[up(i)] = e /\ up(i) \in 1 .. Len(a) /\ up(i) # p
      BY <1>2, <1>4, <3>1
    <3>3. In(e, a) /\ e # L[1]
      BY <1>0, <1>1, <3>2 DEF In, Distinct
    <3>4. PICK j \in 1 .. Len(L) : L[j] = e
      BY <1>0, <3>3 DEF In
    <3>5. j \in 2 .. Len(L)
      BY <1>0, <3>3, <3>4
    <3>. QED
      BY <1>3, <3>4, <3>5
  <2>2. ASSUME NEW e, In(e, M)
        PROVE  In(e, b)
    <3>1. PICK j \in 2 .. Len(L) : L[j] = e
      BY <1>3, <2>2
    <3>2. j \in 1 .. Len(L) /\ j # 1
      BY <1>0
    <3>3. In(e, L) /\ e # L[1]
      BY <1>0, <3>1, <3>2 DEF In, Distinct
    <3>4. PICK i \in 1 .. Len(a) : a[i] = e
      BY <1>0, <3>3 DEF In
    <3>5. i # p
      BY <1>1, <3>3, <3>4
    <3>6. PICK k \in 1 .. (Len(a) - 1) : up(k) = i
      BY <1>5, <3>5
    <3>7. k \in 1 .. Len(b) /\ b[k] = e
      BY <1>2, <3>4, <3>6
    <3>. QED
      BY <3>7 DEF In
  <2>. QED
    BY <2>1, <2>2
<1>8. Distinct(b)
  <2>. SUFFICES ASSUME NEW i \in 1 .. Len(b), NEW j \in 1 .. Len(b), b[i] = b[j]
                PROVE  i = j
    BY DEF Distinct
  <2>1. i \in 1 .. (Len(a) - 1) /\ j \in 1 .. (Len(a) - 1)
    BY <1>2
  <2>2. a[up(i)] = a[up(j)] /\ up(i) \in 1 .. Len(a) /\ up(j) \in 1 .. Len(a)
    BY <1>2, <1>4, <2>1
  <2>3. up(i) = up(j)
    BY <1>0, <2>2 DEF Distinct
  <2>. QED
    BY <1>6, <2>1, <2>3
<1>9. ASSUME NEW i \in 1 .. Len(M), NEW j \in 1 .. Len(M), NEW x \in 1 .. Len(b), NEW y \in 1 .. Len(b),
             i < j, b[x] = M[i], b[y] = M[j]
      PROVE  val2[M[i]] < val2[M[j]] \/ (val2[M[i]] = val2[M[j]] /\ x < y)
  <2>1. /\ i + 1 \in 1 .. Len(L) /\ M[i] = L[i + 1] /\ j + 1 \in 1 .. Len(L) /\ M[j] = L[j + 1]
        /\ x \in 1 .. (Len(a) - 1) /\ y \in 1 .. (Len(a) - 1)
    BY <1>2, <1>3
  <2>2. i + 1 < j + 1 /\ i + 1 # 1 /\ j + 1 # 1
    <3>1. i \in 1 .. (Len(L) - 1) /\ j \in 1 .. (Len(L) - 1)
      BY <1>3
    <3>2. i \in Int /\ j \in Int /\ i >= 1 /\ j >= 1
      BY <1>0, <3>1
    <3>. QED
      BY ONLY <1>9, <3>2
  <2>3. a[up(x)] = L[i + 1] /\ a[up(y)] = L[j + 1] /\ up(x) \in 1 .. Len(a) /\ up(y) \in 1 .. Len(a)
    BY <1>2, <1>4, <1>9, <2>1
  <2>4. \A i2, j2 \in 1 .. Len(L), k2, l2 \in 1 .. Len(a) :
           i2 < j2 /\ a[k2] = L[i2] /\ a[l2] = L[j2] =>
             val[L[i2]] < val[L[j2]] \/ (val[L[i2]] = val[L[j2]] /\ k2 < l2)
    BY DEF Ordered
  <2>5. val[L[i + 1]] < val[L[j + 1]] \/ (val[L[i + 1]] = val[L[j + 1]] /\ up(x) < up(y))
    <3>. DEFINE i1 == i + 1
                j1 == j + 1
    <3>1. i1 \in 1 .. Len(L) /\ j1 \in 1 .. Len(L) /\ i1 < j1
          /\ a[up(x)] = L[i1] /\ a[up(y)] = L[j1]
      BY <2>1, <2>2, <2>3
    <3>. HIDE DEF i1, j1
    <3>2. val[L[i1]] < val[L[j1]] \/ (val[L[i1]] = val[L[j1]] /\ up(x) < up(y))
      BY ONLY <2>3, <2>4, <3>1
    <3>. QED
      BY <3>2 DEF i1, j1
  <2>6. L[i + 1] # L[1] /\ L[j + 1] # L[1] /\ L[i + 1] \in Entry /\ L[j + 1] \in Entry
    BY <1>0, <2>1, <2>2 DEF Distinct
  <2>7. val2[M[i]] = val[L[i + 1]] /\ val2[M[j]] = val[L[j + 1]]
    BY <2>1, <2>6
  <2>8. up(x) < up(y) => x < y
    BY <1>6, <2>1
  <2>. QED
    BY ONLY <2>5, <2>7, <2>8
<1>10. Ordered(val2, b, M)
  <2>1. Len(b) = Len(M)
    BY <1>0, <1>2, <1>3
  <2>. QED
    BY <1>2, <1>7, <1>8, <1>9, <2>1 DEF Ordered
<1>. QED
  BY <1>10 DEF b, M

\* The counter advances.
LEMMA OrderedShift ==
  ASSUME NEW val \in [Entry -> Int], NEW a, NEW L \in Seq(Entry), Ordered(val, a, L),
         NEW t \in Int, NEW val2, \A i \in 1 .. Len(L) : val2[L[i]] = val[L[i]] - t
  PROVE  Ordered(val2, a, L)
<1>1. ASSUME NEW i \in 1 .. Len(L), NEW j \in 1 .. Len(L), NEW k \in 1 .. Len(a), NEW l \in 1 .. Len(a),
             i < j, a[k] = L[i], a[l] = L[j]
      PROVE  val2[L[i]] < val2[L[j]] \/ (val2[L[i]] = val2[L[j]] /\ k < l)
  <2>1. \A i2, j2 \in 1 .. Len(L), k2, l2 \in 1 .. Len(a) :
           i2 < j2 /\ a[k2] = L[i2] /\ a[l2] = L[j2] =>
             val[L[i2]] < val[L[j2]] \/ (val[L[i2]] = val[L[j2]] /\ k2 < l2)
    BY DEF Ordered
  <2>2. i \in 1 .. Len(L) /\ j \in 1 .. Len(L) /\ k \in 1 .. Len(a) /\ l \in 1 .. Len(a)
    OBVIOUS
  <2>3. val[L[i]] < val[L[j]] \/ (val[L[i]] = val[L[j]] /\ k < l)
    BY ONLY <1>1, <2>1, <2>2
  <2>4. val[L[i]] \in Int /\ val[L[j]] \in Int /\ t \in Int
    OBVIOUS
  <2>5. val2[L[i]] = val[L[i]] - t /\ val2[L[j]] = val[L[j]] - t
    OBVIOUS
  <2>. QED
    BY ONLY <2>3, <2>4, <2>5
<1>. QED
  BY <1>1 DEF Ordered

-----------------------------------------------------------------------------
(***************************************************************************)
(* The invariant, and that every operation keeps it.                       *)
(***************************************************************************)

ValueInv == /\ value \in [Entry -> Int]
            /\ cb \in [Entry -> Callbacks \cup {Null}]
            /\ phase \in {"cpu", "run"} \cup Callbacks

\* The entries L are on the list, and F on the free list.
Listed(L, F) == Shared(next, list, free, heap, L, F, 0) /\ Ordered(value, arrived, L)

ListInv == \E L, F : Listed(L, F)

IInv == ValueInv /\ ListInv

\* What the pointers of the code are when the entries L are on the list.
LEMMA ListedFacts ==
  ASSUME NEW L, NEW F, Listed(L, F)
  PROVE  /\ From(list) = L /\ From(free) = F
         /\ L \in Seq(Entry) /\ Len(L) \in Nat /\ Distinct(L) /\ F \in Seq(Entry)
         /\ list = IF L = <<>> THEN 0 ELSE L[1]
         /\ list # 0 <=> Len(L) > 0
         /\ \A k \in 1 .. Len(L) : next[L[k]] = IF k < Len(L) THEN L[k + 1] ELSE 0
         /\ next \in [Entry -> 0 .. MaxEntries] /\ MaxEntries \in Nat
         /\ \A e : Contains(From(list), e) <=> In(e, L)
<1>1. Shared(next, list, free, heap, L, F, 0)
  BY DEF Listed
<1>2. Linked(next, L, list) /\ Linked(next, F, free) /\ Distinct(L)
      /\ next \in [Entry -> 0 .. MaxEntries]
  BY <1>1 DEF Shared
<1>3. From(list) = L /\ From(free) = F
  BY <1>2, PathIs DEF From
<1>4. /\ L \in Seq(Entry) /\ Len(L) \in Nat /\ F \in Seq(Entry)
      /\ list = IF L = <<>> THEN 0 ELSE L[1]
      /\ \A k \in 1 .. Len(L) : next[L[k]] = IF k < Len(L) THEN L[k + 1] ELSE 0
  BY <1>2 DEF Linked
<1>5. list # 0 <=> Len(L) > 0
  <2>1. CASE L = <<>>
    BY <1>4, <2>1
  <2>2. CASE L # <<>>
    <3>1. Len(L) > 0 /\ L[1] \in Entry
      BY <1>4, <2>2
    <3>. QED
      BY <1>4, <2>2, <3>1 DEF Entry
  <2>. QED
    BY <2>1, <2>2
<1>6. \A e : Contains(From(list), e) <=> In(e, L)
  BY <1>3 DEF Contains, In
<1>. QED
  BY <1>2, <1>3, <1>4, <1>5, <1>6, AllocAssumption

\* A new entry, chained behind the first k entries of the list.
LEMMA AddedAt ==
  ASSUME NEW L, NEW F, Listed(L, F), ValueInv, New, NEW v \in Int, NEW k \in 0 .. Len(L),
         \A i \in 1 .. k : value[L[i]] <= v,
         \A i \in (k + 1) .. Len(L) : value[L[i]] > v,
         value' = [value EXCEPT ![Fresh] = v], arrived' = Append(arrived, Fresh),
         next' \in [Entry -> 0 .. MaxEntries],
         next'[Fresh] = IF k < Len(L) THEN L[k + 1] ELSE 0,
         k > 0 => next'[L[k]] = Fresh,
         \A e \in Entry : e # Fresh /\ ~(k > 0 /\ e = L[k]) => next'[e] = LinksWithFresh[e],
         list' = IF k = 0 THEN Fresh ELSE list
  PROVE  ListInv'
<1>1. L \in Seq(Entry) /\ Len(L) \in Nat
  BY ListedFacts
<1>2. /\ Fresh \in Entry
      /\ \E G : Shared(LinksWithFresh, list, free', heap', L, G, Fresh)
      /\ \A i \in 1 .. Len(L) : L[i] # Fresh
  BY Allocated DEF Listed
<1>3. PICK G : Shared(LinksWithFresh, list, free', heap', L, G, Fresh)
  BY <1>2
<1>4. Shared(next', list', free', heap', Inserted(L, k, Fresh), G, 0)
  BY <1>2, <1>3, Chained
<1>5. ~In(Fresh, L)
  BY <1>2 DEF In
<1>6. Ordered(value', arrived', Inserted(L, k, Fresh))
  BY <1>1, <1>2, <1>5, OrderedAdd DEF Listed, ValueInv
<1>. QED
  BY <1>4, <1>6 DEF ListInv, Listed

\* CallbackList::add_callback.
LEMMA AddKeeps ==
  ASSUME IInv, NEW v \in Int, NEW c \in Callbacks, Add(v, c)
  PROVE  IInv'
<1>1. PICK L, F : Listed(L, F)
  BY DEF IInv, ListInv
<1>2. /\ L \in Seq(Entry) /\ Len(L) \in Nat
      /\ list = IF L = <<>> THEN 0 ELSE L[1]
      /\ list # 0 <=> Len(L) > 0
      /\ \A j \in 1 .. Len(L) : next[L[j]] = IF j < Len(L) THEN L[j + 1] ELSE 0
      /\ next \in [Entry -> 0 .. MaxEntries] /\ From(list) = L
  BY <1>1, ListedFacts
<1>3. /\ New /\ arrived' = Append(arrived, Fresh) /\ ValueInv
      /\ value' = [value EXCEPT ![Fresh] = v] /\ cb' = [cb EXCEPT ![Fresh] = c]
      /\ phase' = phase
  BY DEF Add, IInv
<1>4. ValueInv'
  BY <1>3 DEF ValueInv
<1>5. /\ Fresh \in Entry /\ \A i \in 1 .. Len(L) : L[i] # Fresh
      /\ LinksWithFresh \in [Entry -> 0 .. MaxEntries]
  <2>1. /\ Fresh \in Entry /\ \A i \in 1 .. Len(L) : L[i] # Fresh
        /\ \E G : Shared(LinksWithFresh, list, free', heap', L, G, Fresh)
    BY <1>1, <1>3, Allocated DEF Listed
  <2>. QED
    BY <2>1 DEF Shared
<1>6. /\ \A i \in 1 .. Len(L) : value[L[i]] \in Int /\ L[i] \in Entry
      /\ \A i, j \in 1 .. Len(L) : i <= j => value[L[i]] <= value[L[j]]
  BY <1>1, <1>2, <1>3, OrderedFacts DEF Listed, ValueInv
<1>7. MaxEntries \in Nat /\ Fresh \in 0 .. MaxEntries
      /\ \A i \in 1 .. Len(L) : L[i] \in 0 .. MaxEntries
  BY <1>5, <1>6, AllocAssumption DEF Entry
<1>8. CASE list = 0 \/ value[list] > v
  <2>1. list' = Fresh /\ next' = [LinksWithFresh EXCEPT ![Fresh] = list]
    BY <1>8 DEF Add
  <2>2. list = IF 0 < Len(L) THEN L[0 + 1] ELSE 0
    BY <1>2
  <2>3. \A i \in 1 .. Len(L) : value[L[i]] > v
    <3>. SUFFICES ASSUME NEW i \in 1 .. Len(L) PROVE value[L[i]] > v
      OBVIOUS
    <3>1. 1 \in 1 .. Len(L) /\ 1 <= i /\ Len(L) > 0
      BY <1>2
    <3>2. list = L[1] /\ value[L[1]] > v
      BY <1>2, <1>8, <3>1
    <3>3. value[L[1]] <= value[L[i]] /\ value[L[1]] \in Int /\ value[L[i]] \in Int
      BY <1>6, <3>1
    <3>. QED
      BY ONLY <3>2, <3>3, v \in Int
  <2>4. list \in 0 .. MaxEntries
    BY <1>7, <2>2, <1>2
  <2>5. /\ next' \in [Entry -> 0 .. MaxEntries] /\ next'[Fresh] = list
        /\ \A e \in Entry : e # Fresh => next'[e] = LinksWithFresh[e]
    <3>1. Fresh \in Entry /\ LinksWithFresh \in [Entry -> 0 .. MaxEntries]
      BY <1>5
    <3>2. next' \in [Entry -> 0 .. MaxEntries]
      BY ONLY <2>1, <2>4, <3>1
    <3>3. next'[Fresh] = list
      BY ONLY <2>1, <3>1
    <3>4. \A e \in Entry : e # Fresh => next'[e] = LinksWithFresh[e]
      BY ONLY <2>1, <3>1
    <3>. QED
      BY <3>2, <3>3, <3>4
  <2>6. /\ 0 \in 0 .. Len(L) /\ \A i \in 1 .. 0 : value[L[i]] <= v
        /\ \A i \in (0 + 1) .. Len(L) : value[L[i]] > v
        /\ next'[Fresh] = IF 0 < Len(L) THEN L[0 + 1] ELSE 0
        /\ \A e \in Entry : e # Fresh /\ ~(0 > 0 /\ e = L[0]) => next'[e] = LinksWithFresh[e]
        /\ list' = IF 0 = 0 THEN Fresh ELSE list
        /\ 0 > 0 => next'[L[0]] = Fresh
    BY <1>2, <2>1, <2>2, <2>3, <2>5
  <2>7. ListInv'
    BY <1>1, <1>3, <2>5, <2>6, AddedAt
  <2>. QED
    BY <1>4, <2>7 DEF IInv
<1>9. CASE ~(list = 0 \/ value[list] > v)
  <2>1. PICK p \in Entry : /\ Behind(p, v)
                           /\ next' = [LinksWithFresh EXCEPT ![Fresh] = next[p], ![p] = Fresh]
                           /\ list' = list
    BY <1>9 DEF Add
  <2>2. PICK k \in 1 .. Len(L) : /\ p = L[k]
                                 /\ k < Len(L) => value[L[k + 1]] > v
                                 /\ \A j \in 1 .. (k - 1) : value[L[j + 1]] <= v
    BY <1>2, <2>1 DEF Behind
  <2>3. k \in 0 .. Len(L) /\ k > 0 /\ k \in Nat
    BY <1>2
  <2>4. value[L[k]] <= v
    <3>1. CASE k = 1
      <4>1. list = L[1] /\ list # 0
        BY <1>2, <1>9
      <4>2. value[L[1]] \in Int /\ ~(value[L[1]] > v)
        BY <1>6, <1>9, <3>1, <4>1
      <4>. QED
        BY ONLY <3>1, <4>2, v \in Int
    <3>2. CASE k # 1
      <4>1. k - 1 \in 1 .. (k - 1) /\ (k - 1) + 1 = k
        BY <2>3, <3>2
      <4>. QED
        BY <2>2, <4>1
    <3>. QED
      BY <3>1, <3>2
  <2>5. \A i \in 1 .. k : value[L[i]] <= v
    <3>. SUFFICES ASSUME NEW i \in 1 .. k PROVE value[L[i]] <= v
      OBVIOUS
    <3>1. i \in 1 .. Len(L) /\ i <= k
      BY <1>2, <2>3
    <3>2. value[L[i]] <= value[L[k]] /\ value[L[i]] \in Int /\ value[L[k]] \in Int
      BY <1>6, <3>1
    <3>. QED
      BY ONLY <2>4, <3>2, v \in Int
  <2>6. \A i \in (k + 1) .. Len(L) : value[L[i]] > v
    <3>. SUFFICES ASSUME NEW i \in (k + 1) .. Len(L) PROVE value[L[i]] > v
      OBVIOUS
    <3>1. i \in 1 .. Len(L) /\ k + 1 \in 1 .. Len(L) /\ k + 1 <= i /\ k < Len(L)
      BY <1>2, <2>3
    <3>2. value[L[k + 1]] <= value[L[i]] /\ value[L[i]] \in Int /\ value[L[k + 1]] \in Int
      BY <1>6, <3>1
    <3>3. value[L[k + 1]] > v
      BY <2>2, <3>1
    <3>. QED
      BY ONLY <3>2, <3>3, v \in Int
  <2>7. /\ p # Fresh /\ next[p] = (IF k < Len(L) THEN L[k + 1] ELSE 0)
        /\ next[p] \in 0 .. MaxEntries
    BY <1>2, <1>5, <2>2
  <2>8. /\ next' \in [Entry -> 0 .. MaxEntries] /\ next'[Fresh] = next[p] /\ next'[L[k]] = Fresh
        /\ \A e \in Entry : e # Fresh /\ e # L[k] => next'[e] = LinksWithFresh[e]
    BY <1>5, <1>7, <2>1, <2>2, <2>7
  <2>9. /\ next'[Fresh] = IF k < Len(L) THEN L[k + 1] ELSE 0
        /\ \A e \in Entry : e # Fresh /\ ~(k > 0 /\ e = L[k]) => next'[e] = LinksWithFresh[e]
        /\ list' = IF k = 0 THEN Fresh ELSE list
    BY <2>1, <2>3, <2>7, <2>8
  <2>10. ListInv'
    BY <1>1, <1>3, <2>3, <2>5, <2>6, <2>8, <2>9, AddedAt
  <2>. QED
    BY <1>4, <2>10 DEF IInv
<1>. QED
  BY <1>8, <1>9

\* CallbackList::run_callbacks, a turn of its loop.
LEMMA FireKeeps ==
  ASSUME IInv, Fire
  PROVE  IInv'
<1>1. PICK L, F : Listed(L, F)
  BY DEF IInv, ListInv
<1>. DEFINE s == <<list>>
<1>2. /\ L \in Seq(Entry) /\ Len(L) \in Nat /\ Len(L) > 0 /\ Distinct(L)
      /\ list = L[1] /\ list \in Entry
      /\ list' = IF 1 < Len(L) THEN L[1 + 1] ELSE 0
  <2>1. /\ L \in Seq(Entry) /\ Len(L) \in Nat /\ Distinct(L)
        /\ list = (IF L = <<>> THEN 0 ELSE L[1])
        /\ list # 0 <=> Len(L) > 0
        /\ \A k \in 1 .. Len(L) : next[L[k]] = IF k < Len(L) THEN L[k + 1] ELSE 0
    BY <1>1, ListedFacts
  <2>2. list # 0 /\ list' = next[list]
    BY DEF Fire
  <2>3. list = L[1] /\ 1 \in 1 .. Len(L) /\ list \in Entry
    BY <2>1, <2>2
  <2>. QED
    BY <2>1, <2>2, <2>3
<1>3. ValueInv'
  <2>1. /\ value' = [e \in Entry |-> IF Deleted(s, e) THEN 0 ELSE value[e]]
        /\ cb' = [e \in Entry |-> IF Deleted(s, e) THEN Null ELSE cb[e]]
        /\ phase' = IF cb[list] = Null THEN "run" ELSE cb[list]
        /\ ValueInv
    BY DEF Fire, Delete, IInv
  <2>2. cb[list] \in Callbacks \cup {Null}
    BY <1>2, <2>1 DEF ValueInv
  <2>. HIDE DEF s
  <2>. QED
    BY <2>1, <2>2 DEF ValueInv
<1>4. /\ s \in Seq(Entry) /\ Len(s) = 1 /\ s # <<>> /\ s[1] = list
      /\ \A i \in 1 .. Len(s) : s[i] = L[i]
  BY <1>2
<1>5. /\ next' = LinksWithout(s) /\ free' = (IF s = <<>> THEN free ELSE Last(s))
      /\ heap' = heap /\ arrived' = Without(arrived, list)
      /\ value' = [e \in Entry |-> IF Deleted(s, e) THEN 0 ELSE value[e]]
  BY DEF Fire, Delete
<1>6. \A e \in Entry : e # L[1] => value'[e] = value[e]
  <2>1. \A e : Deleted(s, e) => e = L[1]
    BY <1>2 DEF Deleted
  <2>. HIDE DEF s
  <2>. QED
    BY <1>5, <2>1
<1>. HIDE DEF s
<1>7. Shared(next', list', free', heap', Rest(L, 1), Back(s, F), 0)
  <2>1. Len(s) <= Len(L)
    BY <1>2, <1>4
  <2>2. Shared(LinksWithout(s), IF Len(s) < Len(L) THEN L[Len(s) + 1] ELSE 0,
               IF s = <<>> THEN free ELSE Last(s), heap, Rest(L, Len(s)), Back(s, F), 0)
    BY <1>1, <1>4, <2>1, Recycled DEF Listed
  <2>. QED
    BY <1>2, <1>4, <1>5, <2>2
<1>8. Ordered(value', arrived', Rest(L, 1))
  <2>1. Ordered(value', Without(arrived, L[1]), Rest(L, 1))
    BY <1>1, <1>2, <1>6, OrderedFire DEF Listed, IInv, ValueInv
  <2>. QED
    BY <1>2, <1>5, <2>1
<1>9. ListInv'
  BY <1>7, <1>8 DEF ListInv, Listed
<1>. QED
  BY <1>3, <1>9 DEF IInv

\* CallbackList::clear.
LEMMA ClearKeeps ==
  ASSUME IInv, Clear
  PROVE  IInv'
<1>1. PICK L, F : Listed(L, F)
  BY DEF IInv, ListInv
<1>2. From(list) = L /\ L \in Seq(Entry) /\ Len(L) \in Nat
  BY <1>1, ListedFacts
<1>3. /\ next' = LinksWithout(L) /\ free' = (IF L = <<>> THEN free ELSE Last(L))
      /\ heap' = heap /\ list' = 0 /\ arrived' = <<>> /\ phase' = phase
      /\ value' = [e \in Entry |-> IF Deleted(L, e) THEN 0 ELSE value[e]]
      /\ cb' = [e \in Entry |-> IF Deleted(L, e) THEN Null ELSE cb[e]]
  BY <1>2 DEF Clear, Delete
<1>4. ValueInv'
  BY <1>3 DEF IInv, ValueInv
<1>5. Shared(next', list', free', heap', Rest(L, Len(L)), Back(L, F), 0)
  <2>1. Shared(LinksWithout(L), IF Len(L) < Len(L) THEN L[Len(L) + 1] ELSE 0,
               IF L = <<>> THEN free ELSE Last(L), heap, Rest(L, Len(L)), Back(L, F), 0)
    BY <1>1, <1>2, Recycled DEF Listed
  <2>2. ~(Len(L) < Len(L))
    BY <1>2
  <2>. QED
    BY <1>3, <2>1, <2>2
<1>6. Ordered(value', arrived', Rest(L, Len(L)))
  <2>1. Rest(L, Len(L)) \in Seq(Entry) /\ Len(Rest(L, Len(L))) = 0
    <3>1. Len(L) \in 0 .. Len(L) /\ Len(L) - Len(L) = 0
      BY <1>2
    <3>. QED
      BY <1>2, <3>1, RestIs
  <2>2. arrived' \in Seq(Entry) /\ Len(arrived') = 0
    BY <1>3
  <2>. QED
    BY <2>1, <2>2 DEF Ordered, Distinct, In
<1>7. ListInv'
  BY <1>5, <1>6 DEF ListInv, Listed
<1>. QED
  BY <1>4, <1>7 DEF IInv

\* Z80::run, an instruction.
LEMMA InstructionKeeps ==
  ASSUME IInv, NEW t \in Ticks, Instruction(t)
  PROVE  IInv'
<1>1. PICK L, F : Listed(L, F)
  BY DEF IInv, ListInv
<1>2. /\ L \in Seq(Entry) /\ \A e : Contains(From(list), e) <=> In(e, L)
  BY <1>1, ListedFacts
<1>3. value' = [e \in Entry |-> IF Contains(From(list), e) THEN value[e] - t ELSE value[e]]
      /\ phase' = "run" /\ list' = list /\ next' = next /\ free' = free /\ heap' = heap
      /\ cb' = cb /\ arrived' = arrived
  BY DEF Instruction, memory
<1>4. t \in Int
  BY TimeAssumption
<1>5. ValueInv'
  BY <1>3, <1>4 DEF IInv, ValueInv
<1>6. \A i \in 1 .. Len(L) : value'[L[i]] = value[L[i]] - t
  <2>. SUFFICES ASSUME NEW i \in 1 .. Len(L) PROVE value'[L[i]] = value[L[i]] - t
    OBVIOUS
  <2>1. L[i] \in Entry /\ In(L[i], L)
    BY <1>2 DEF In
  <2>. QED
    BY <1>2, <1>3, <2>1
<1>7. Ordered(value', arrived, L)
  BY <1>1, <1>2, <1>4, <1>6, OrderedShift DEF Listed, IInv, ValueInv
<1>8. ListInv'
  BY <1>1, <1>3, <1>7 DEF ListInv, Listed
<1>. QED
  BY <1>5, <1>8 DEF IInv

\* The links, the free list, the times and the history fit together in every
\* state of the callback list.
THEOREM Invariant == Spec => []IInv
<1>1. Init => IInv
  <2>. SUFFICES ASSUME Init PROVE IInv
    OBVIOUS
  <2>1. ValueInv
    BY DEF Init, ValueInv
  <2>2. MaxEntries \in Nat /\ \A e \in Entry : e > 0
    BY AllocAssumption DEF Entry
  <2>3. Linked(next, <<>>, 0)
    BY <2>2 DEF Linked
  <2>4. Shared(next, 0, 0, 0, <<>>, <<>>, 0)
    BY <2>2, <2>3 DEF Init, Shared, Distinct, In
  <2>5. Ordered(value, <<>>, <<>>)
    BY DEF Ordered, Distinct, In
  <2>. QED
    BY <2>1, <2>4, <2>5 DEF Init, IInv, ListInv, Listed
<1>2. IInv /\ [Next]_vars => IInv'
  <2>. SUFFICES ASSUME IInv, [Next]_vars PROVE IInv'
    OBVIOUS
  <2>1. ASSUME NEW c \in Callbacks, NEW o \in Offsets, Add(o, c) PROVE IInv'
    BY <2>1, AddKeeps, TimeAssumption
  <2>2. CASE Fire
    BY <2>2, FireKeeps
  <2>3. CASE Clear
    BY <2>3, ClearKeeps
  <2>4. ASSUME NEW t \in Ticks, Instruction(t) PROVE IInv'
    BY <2>4, InstructionKeeps
  <2>5. CASE Return
    BY <2>5 DEF Return, memory, IInv, ValueInv, ListInv, Listed
  <2>6. CASE Done
    BY <2>6 DEF Done, memory, IInv, ValueInv, ListInv, Listed
  <2>7. ASSUME NEW c \in Callbacks, RemoveListener(c) PROVE IInv'
    BY <2>7 DEF RemoveListener, memory, IInv, ValueInv, ListInv, Listed
  <2>8. CASE UNCHANGED vars
    BY <2>8 DEF vars, memory, IInv, ValueInv, ListInv, Listed
  <2>. QED
    BY <2>1, <2>2, <2>3, <2>4, <2>5, <2>6, <2>7, <2>8 DEF Next, Loop, Devices
<1>. QED
  BY <1>1, <1>2, PTL DEF Spec

\* The invariant has what ListSound says of the pointers.
LEMMA InvariantSound ==
  ASSUME IInv
  PROVE  ListSound
<1>1. PICK L, F : Listed(L, F)
  BY DEF IInv, ListInv
<1>2. /\ From(list) = L /\ From(free) = F /\ L \in Seq(Entry) /\ F \in Seq(Entry)
      /\ Len(L) \in Nat /\ Len(F) \in Nat /\ MaxEntries \in Nat
      /\ next \in [Entry -> 0 .. MaxEntries]
  BY <1>1, ListedFacts
<1>3. /\ Linked(next, L, list) /\ Linked(next, F, free) /\ heap \in 0 .. MaxEntries
      /\ Len(L) + Len(F) = heap
      /\ \A e \in Entry : e <= heap <=> (In(e, L) \/ In(e, F))
      /\ \A i \in 1 .. Len(L) : L[i] \in Entry /\ L[i] <= heap
      /\ \A i \in 1 .. Len(F) : F[i] \in Entry /\ F[i] <= heap
  <2>1. /\ Linked(next, L, list) /\ Linked(next, F, free) /\ heap \in 0 .. MaxEntries
        /\ Len(L) + Len(F) + (IF 0 = 0 THEN 0 ELSE 1) = heap
        /\ \A e \in Entry : e <= heap <=> (In(e, L) \/ In(e, F) \/ e = 0)
    BY <1>1 DEF Listed, Shared
  <2>2. \A e \in Entry : e # 0
    BY DEF Entry
  <2>3. /\ \A i \in 1 .. Len(L) : L[i] \in Entry /\ L[i] <= heap
        /\ \A i \in 1 .. Len(F) : F[i] \in Entry /\ F[i] <= heap
    BY <1>1, SharedFacts DEF Listed
  <2>. QED
    BY <1>2, <2>1, <2>2, <2>3
<1>4. TypeOK
  <2>1. list \in 0 .. MaxEntries /\ free \in 0 .. MaxEntries
    <3>1. /\ list = IF L = <<>> THEN 0 ELSE L[1]
          /\ free = IF F = <<>> THEN 0 ELSE F[1]
      BY <1>3 DEF Linked
    <3>2. /\ L # <<>> => 1 \in 1 .. Len(L)
          /\ F # <<>> => 1 \in 1 .. Len(F)
      BY <1>2
    <3>3. \A e \in Entry : e \in 0 .. MaxEntries
      BY <1>2 DEF Entry
    <3>4. 0 \in 0 .. MaxEntries
      BY <1>2
    <3>. QED
      BY <1>3, <3>1, <3>2, <3>3, <3>4
  <2>2. arrived \in Seq(Entry)
    BY <1>1 DEF Listed, Ordered
  <2>. QED
    BY <1>2, <1>3, <2>1, <2>2 DEF IInv, ValueInv, TypeOK
<1>5. EntriesPartitioned
  <2>. DEFINE s == L \o F
  <2>1. /\ s \in Seq(Entry) /\ Len(s) = heap
        /\ \A i \in 1 .. heap : s[i] = IF i <= Len(L) THEN L[i] ELSE F[i - Len(L)]
    BY <1>2, <1>3, ConcatProperties
  <2>. HIDE DEF s
  <2>2. ASSUME NEW i \in 1 .. heap
        PROVE  s[i] \in 1 .. heap
    <3>1. CASE i <= Len(L)
      <4>1. i \in 1 .. Len(L) /\ s[i] = L[i]
        BY <1>3, <2>1, <3>1
      <4>2. L[i] \in Entry /\ L[i] <= heap
        BY <1>3, <4>1
      <4>. QED
        BY <1>2, <1>3, <4>1, <4>2 DEF Entry
    <3>2. CASE ~(i <= Len(L))
      <4>1. i - Len(L) \in 1 .. Len(F) /\ s[i] = F[i - Len(L)]
        BY <1>2, <1>3, <2>1, <3>2
      <4>2. F[i - Len(L)] \in Entry /\ F[i - Len(L)] <= heap
        BY <1>3, <4>1
      <4>. QED
        BY <1>2, <1>3, <4>1, <4>2 DEF Entry
    <3>. QED
      BY <3>1, <3>2
  <2>3. ASSUME NEW e \in 1 .. heap
        PROVE  \E i \in 1 .. heap : s[i] = e
    <3>1. In(e, L) \/ In(e, F)
      BY <1>2, <1>3 DEF Entry
    <3>2. CASE In(e, L)
      <4>1. PICK i \in 1 .. Len(L) : L[i] = e
        BY <3>2 DEF In
      <4>2. i \in 1 .. heap /\ i <= Len(L)
        BY <1>2, <1>3
      <4>. QED
        BY <2>1, <4>1, <4>2
    <3>3. CASE In(e, F)
      <4>1. PICK i \in 1 .. Len(F) : F[i] = e
        BY <3>3 DEF In
      <4>2. i + Len(L) \in 1 .. heap /\ ~(i + Len(L) <= Len(L)) /\ (i + Len(L)) - Len(L) = i
        BY <1>2, <1>3
      <4>. QED
        BY <2>1, <4>1, <4>2
    <3>. QED
      BY <3>1, <3>2, <3>3
  <2>4. ToSet(s) = 1 .. heap
    <3>1. DOMAIN s = 1 .. heap
      BY <2>1, <1>3
    <3>. QED
      BY <2>2, <2>3, <3>1 DEF ToSet
  <2>5. Len(From(list) \o From(free)) = heap /\ ToSet(From(list) \o From(free)) = 1 .. heap
    BY <1>2, <2>1, <2>4 DEF s
  <2>. QED
    BY <2>5 DEF EntriesPartitioned
<1>6. SortedByTime
  <2>0. /\ arrived \in Seq(Entry) /\ Len(arrived) = Len(L)
        /\ \A e : In(e, arrived) <=> In(e, L)
        /\ DOMAIN arrived = 1 .. Len(arrived) /\ DOMAIN L = 1 .. Len(L)
    BY <1>1, <1>2 DEF Listed, Ordered
  <2>1. ToSet(L) = ToSet(arrived)
    BY <2>0 DEF ToSet, In
  <2>2. ASSUME NEW i \in 1 .. Len(L), NEW j \in 1 .. Len(L), i < j
        PROVE  \/ value[L[i]] < value[L[j]]
               \/ /\ value[L[i]] = value[L[j]]
                  /\ \E k, l \in 1 .. Len(arrived) : k < l /\ arrived[k] = L[i] /\ arrived[l] = L[j]
    <3>1. PICK k \in 1 .. Len(arrived) : arrived[k] = L[i]
      BY <2>0 DEF In
    <3>2. PICK l \in 1 .. Len(arrived) : arrived[l] = L[j]
      BY <2>0 DEF In
    <3>3. \A i2, j2 \in 1 .. Len(L), k2, l2 \in 1 .. Len(arrived) :
             i2 < j2 /\ arrived[k2] = L[i2] /\ arrived[l2] = L[j2] =>
               value[L[i2]] < value[L[j2]] \/ (value[L[i2]] = value[L[j2]] /\ k2 < l2)
      BY <1>1 DEF Listed, Ordered
    <3>4. i \in 1 .. Len(L) /\ j \in 1 .. Len(L) /\ k \in 1 .. Len(arrived) /\ l \in 1 .. Len(arrived)
      BY <3>1, <3>2
    <3>5. value[L[i]] < value[L[j]] \/ (value[L[i]] = value[L[j]] /\ k < l)
      BY ONLY <2>2, <3>1, <3>2, <3>3, <3>4
    <3>. QED
      BY <3>1, <3>2, <3>5
  <2>3. \A i, j \in DOMAIN L : i < j =>
           \/ value[L[i]] < value[L[j]]
           \/ /\ value[L[i]] = value[L[j]]
              /\ \E k, l \in DOMAIN arrived : k < l /\ arrived[k] = L[i] /\ arrived[l] = L[j]
    <3>. DEFINE Before(i, j) ==
           \/ value[L[i]] < value[L[j]]
           \/ /\ value[L[i]] = value[L[j]]
              /\ \E k, l \in 1 .. Len(arrived) : k < l /\ arrived[k] = L[i] /\ arrived[l] = L[j]
    <3>1. \A i, j \in 1 .. Len(L) : i < j => Before(i, j)
      BY ONLY <2>2
    <3>0. DOMAIN arrived = 1 .. Len(arrived) /\ DOMAIN L = 1 .. Len(L)
      BY ONLY <2>0
    <3>. HIDE DEF Before
    <3>2. ASSUME NEW i \in DOMAIN L, NEW j \in DOMAIN L, i < j
          PROVE  \/ value[L[i]] < value[L[j]]
                 \/ /\ value[L[i]] = value[L[j]]
                    /\ \E k, l \in DOMAIN arrived : k < l /\ arrived[k] = L[i] /\ arrived[l] = L[j]
      <4>1. i \in 1 .. Len(L) /\ j \in 1 .. Len(L)
        BY <3>0, <3>2
      <4>2. Before(i, j)
        BY ONLY <3>1, <3>2, <4>1
      <4>3. CASE value[L[i]] < value[L[j]]
        BY ONLY <4>3
      <4>4. CASE ~(value[L[i]] < value[L[j]])
        <5>1. value[L[i]] = value[L[j]]
          BY ONLY <4>2, <4>4 DEF Before
        <5>2. PICK k \in 1 .. Len(arrived), l \in 1 .. Len(arrived) :
                k < l /\ arrived[k] = L[i] /\ arrived[l] = L[j]
          BY ONLY <4>2, <4>4 DEF Before
        <5>3. k \in DOMAIN arrived /\ l \in DOMAIN arrived
          BY ONLY <3>0, <5>2
        <5>. QED
          BY ONLY <5>1, <5>2, <5>3
      <4>. QED
        BY ONLY <4>3, <4>4
    <3>. QED
      BY ONLY <3>2
  <2>4. ToSet(L) = ToSet(arrived) /\ Len(L) = Len(arrived)
    BY <2>0, <2>1
  <2>. QED
    BY ONLY <1>2, <2>3, <2>4 DEF SortedByTime
<1>. QED
  BY <1>4, <1>5, <1>6 DEF ListSound

\* The linked list of src/src/kc/cb_list.cc holds what arrived, sorted by time
\* and equal times in the order of arrival, and together with the free list it
\* has every allocated entry exactly once; after every call of every callback.
THEOREM ListIsSound == Spec => []ListSound
<1>1. IInv => ListSound
  BY InvariantSound
<1>. QED
  BY <1>1, Invariant, PTL

-----------------------------------------------------------------------------
(***************************************************************************)
(* Every operation of the list is the operation of the event queue.        *)
(***************************************************************************)

\* The event of an entry, and the events of the arrivals a.
EventOf(val, c, e) == [due |-> val[e], cb |-> c[e]]
Events(val, c, a)  == [i \in DOMAIN a |-> EventOf(val, c, a[i])]

\* The events of a history, by their places.
LEMMA EventsAre ==
  ASSUME NEW a \in Seq(Entry), NEW val \in [Entry -> Int],
         NEW c \in [Entry -> Callbacks \cup {Null}]
  PROVE  /\ Events(val, c, a) \in Seq([due : Int, cb : Callbacks \cup {Null}])
         /\ Len(Events(val, c, a)) = Len(a) /\ DOMAIN Events(val, c, a) = 1 .. Len(a)
         /\ DOMAIN a = 1 .. Len(a) /\ Len(a) \in Nat
         /\ \A i \in 1 .. Len(a) : /\ a[i] \in Entry
                                   /\ Events(val, c, a)[i] = EventOf(val, c, a[i])
                                   /\ Events(val, c, a)[i].due = val[a[i]]
                                   /\ Events(val, c, a)[i].cb = c[a[i]]
<1>1. DOMAIN a = 1 .. Len(a) /\ Len(a) \in Nat /\ \A i \in 1 .. Len(a) : a[i] \in Entry
  OBVIOUS
<1>2. \A e \in Entry : /\ EventOf(val, c, e) \in [due : Int, cb : Callbacks \cup {Null}]
                       /\ EventOf(val, c, e).due = val[e] /\ EventOf(val, c, e).cb = c[e]
  BY DEF EventOf
<1>3. Events(val, c, a) = [i \in 1 .. Len(a) |-> EventOf(val, c, a[i])]
  BY <1>1 DEF Events
<1>. HIDE DEF EventOf, Events
<1>4. \A i \in 1 .. Len(a) : Events(val, c, a)[i] = EventOf(val, c, a[i])
  BY <1>3
<1>5. /\ Events(val, c, a) \in Seq([due : Int, cb : Callbacks \cup {Null}])
      /\ Len(Events(val, c, a)) = Len(a) /\ DOMAIN Events(val, c, a) = 1 .. Len(a)
  <2>1. \A i \in 1 .. Len(a) : EventOf(val, c, a[i]) \in [due : Int, cb : Callbacks \cup {Null}]
    BY <1>1, <1>2
  <2>. QED
    BY <1>1, <1>3, <2>1
<1>. QED
  BY <1>1, <1>2, <1>4, <1>5

\* What holds of the entries, of the arrivals and of the events.
LEMMA StateFacts ==
  ASSUME NEW L, NEW F, Listed(L, F), ValueInv
  PROVE  /\ arrived \in Seq(Entry) /\ Distinct(arrived) /\ Len(arrived) = Len(L)
         /\ DOMAIN arrived = 1 .. Len(arrived) /\ Len(arrived) \in Nat
         /\ value \in [Entry -> Int] /\ cb \in [Entry -> Callbacks \cup {Null}]
         /\ \A i \in 1 .. Len(arrived) : arrived[i] \in Entry /\ value[arrived[i]] \in Int
         /\ \A e : In(e, arrived) <=> In(e, L)
         /\ \A e : Contains(From(list), e) <=> In(e, arrived)
         /\ Len(L) > 0 => \A i \in 1 .. Len(arrived) : value[L[1]] <= value[arrived[i]]
<1>1. /\ Ordered(value, arrived, L) /\ value \in [Entry -> Int]
      /\ cb \in [Entry -> Callbacks \cup {Null}]
  BY DEF Listed, ValueInv
<1>2. /\ arrived \in Seq(Entry) /\ Distinct(arrived) /\ Len(arrived) = Len(L)
      /\ \A e : In(e, arrived) <=> In(e, L)
  BY <1>1 DEF Ordered
<1>3. /\ DOMAIN arrived = 1 .. Len(arrived) /\ Len(arrived) \in Nat
      /\ \A i \in 1 .. Len(arrived) : arrived[i] \in Entry /\ value[arrived[i]] \in Int
  BY <1>1, <1>2
<1>4. L \in Seq(Entry) /\ \A e : Contains(From(list), e) <=> In(e, L)
  BY ListedFacts
<1>5. ASSUME Len(L) > 0, NEW i \in 1 .. Len(arrived)
      PROVE  value[L[1]] <= value[arrived[i]]
  <2>1. /\ \A j \in 1 .. Len(L) : value[L[j]] \in Int /\ L[j] \in Entry
        /\ \A j, k \in 1 .. Len(L) : j <= k => value[L[j]] <= value[L[k]]
    BY <1>1, <1>4, OrderedFacts
  <2>2. PICK j \in 1 .. Len(L) : arrived[i] = L[j]
    <3>1. In(arrived[i], arrived)
      BY DEF In
    <3>2. In(arrived[i], L)
      BY <1>2, <3>1
    <3>. QED
      BY <3>2 DEF In
  <2>3. 1 \in 1 .. Len(L) /\ 1 <= j
    BY <1>4, <1>5
  <2>. QED
    BY <2>1, <2>2, <2>3
<1>. QED
  BY <1>1, <1>2, <1>3, <1>4, <1>5

\* An entry that is chained is an event that is appended.
LEMMA AddImplements ==
  ASSUME IInv, NEW v \in Int, NEW c \in Callbacks, Add(v, c)
  PROVE  Queue!Add(v, c)
<1>1. PICK L, F : Listed(L, F)
  BY DEF IInv, ListInv
<1>2. ValueInv
  BY DEF IInv
<1>3. /\ arrived \in Seq(Entry) /\ value \in [Entry -> Int] /\ cb \in [Entry -> Callbacks \cup {Null}]
      /\ Len(arrived) \in Nat /\ \A e : In(e, arrived) <=> In(e, L)
  BY <1>1, <1>2, StateFacts
<1>4. Fresh \in Entry /\ \A i \in 1 .. Len(L) : L[i] # Fresh
  BY <1>1, Allocated DEF Listed, Add
<1>5. /\ Active /\ Len(arrived) < Capacity /\ arrived' = Append(arrived, Fresh)
      /\ value' = [value EXCEPT ![Fresh] = v] /\ cb' = [cb EXCEPT ![Fresh] = c] /\ phase' = phase
  BY DEF Add
<1>6. \A i \in 1 .. Len(arrived) : arrived[i] # Fresh /\ arrived[i] \in Entry
  <2>1. ~In(Fresh, arrived)
    <3>1. ~In(Fresh, L)
      BY <1>4 DEF In
    <3>. QED
      BY <1>3, <3>1
  <2>. QED
    BY <1>3, <2>1 DEF In
<1>7. /\ arrived' \in Seq(Entry) /\ Len(arrived') = Len(arrived) + 1
      /\ arrived'[Len(arrived) + 1] = Fresh
      /\ \A i \in 1 .. Len(arrived) : arrived'[i] = arrived[i]
  BY <1>3, <1>4, <1>5
<1>8. value' \in [Entry -> Int] /\ cb' \in [Entry -> Callbacks \cup {Null}]
  BY <1>3, <1>4, <1>5
<1>9. /\ \A e \in Entry : e # Fresh => EventOf(value', cb', e) = EventOf(value, cb, e)
      /\ EventOf(value', cb', Fresh) = [due |-> v, cb |-> c]
  BY <1>3, <1>4, <1>5 DEF EventOf
<1>. DEFINE E1 == Events(value, cb, arrived)
            E2 == Events(value', cb', arrived')
            S  == [due : Int, cb : Callbacks \cup {Null}]
            ev == [due |-> v, cb |-> c]
<1>10. /\ E1 \in Seq(S) /\ Len(E1) = Len(arrived)
       /\ \A i \in 1 .. Len(arrived) : E1[i] = EventOf(value, cb, arrived[i])
  BY <1>3, EventsAre
<1>11. /\ E2 \in Seq(S) /\ Len(E2) = Len(arrived')
       /\ \A i \in 1 .. Len(arrived') : E2[i] = EventOf(value', cb', arrived'[i])
  BY <1>7, <1>8, EventsAre
<1>12. ev \in S
  OBVIOUS
<1>. HIDE DEF E1, E2, S, ev
<1>13. E2 = Append(E1, ev)
  <2>1. /\ Append(E1, ev) \in Seq(S) /\ Len(Append(E1, ev)) = Len(arrived) + 1
        /\ \A i \in 1 .. Len(arrived) : Append(E1, ev)[i] = E1[i]
        /\ Append(E1, ev)[Len(arrived) + 1] = ev
    BY <1>3, <1>10, <1>12
  <2>2. \A i \in 1 .. (Len(arrived) + 1) : E2[i] = Append(E1, ev)[i]
    <3>. SUFFICES ASSUME NEW i \in 1 .. (Len(arrived) + 1) PROVE E2[i] = Append(E1, ev)[i]
      OBVIOUS
    <3>1. CASE i = Len(arrived) + 1
      BY <1>7, <1>9, <1>11, <2>1, <3>1 DEF ev
    <3>2. CASE i # Len(arrived) + 1
      <4>1. i \in 1 .. Len(arrived)
        BY <1>3, <3>2
      <4>. QED
        BY <1>6, <1>7, <1>9, <1>10, <1>11, <2>1, <4>1
    <3>. QED
      BY <3>1, <3>2
  <2>. QED
    BY <1>7, <1>11, <2>1, <2>2
<1>14. Queue!Active /\ Len(E1) < Capacity /\ E2 = Append(E1, [due |-> v, cb |-> c]) /\ phase' = phase
  BY <1>5, <1>10, <1>13 DEF Queue!Active, Active, ev
<1>. QED
  BY <1>14 DEF Queue!Add, E1, E2, Events, EventOf

\* The entry at the head of the list is the event that is next.
LEMMA FireImplements ==
  ASSUME IInv, Fire
  PROVE  Queue!Fire
<1>1. PICK L, F : Listed(L, F)
  BY DEF IInv, ListInv
<1>2. ValueInv
  BY DEF IInv
<1>3. /\ arrived \in Seq(Entry) /\ value \in [Entry -> Int] /\ cb \in [Entry -> Callbacks \cup {Null}]
      /\ Distinct(arrived) /\ DOMAIN arrived = 1 .. Len(arrived) /\ Len(arrived) \in Nat
      /\ Len(arrived) = Len(L)
      /\ \A i \in 1 .. Len(arrived) : arrived[i] \in Entry /\ value[arrived[i]] \in Int
      /\ \A e : In(e, arrived) <=> In(e, L)
  BY <1>1, <1>2, StateFacts
<1>4. /\ L \in Seq(Entry) /\ list = L[1] /\ Len(L) > 0 /\ Len(L) \in Nat /\ 1 \in 1 .. Len(L)
  <2>1. /\ L \in Seq(Entry) /\ Len(L) \in Nat /\ list = (IF L = <<>> THEN 0 ELSE L[1])
        /\ list # 0 <=> Len(L) > 0
    BY <1>1, ListedFacts
  <2>2. list # 0
    BY DEF Fire
  <2>. QED
    BY <2>1, <2>2
<1>5. PICK p \in 1 .. Len(arrived) : arrived[p] = L[1]
  <2>1. In(L[1], L)
    BY <1>4 DEF In
  <2>. QED
    BY <1>3, <2>1 DEF In
<1>6. /\ phase = "run" /\ value[L[1]] <= 0 /\ arrived' = Without(arrived, arrived[p])
      /\ phase' = (IF cb[L[1]] = Null THEN "run" ELSE cb[L[1]])
      /\ value' = [e \in Entry |-> IF Deleted(<<list>>, e) THEN 0 ELSE value[e]]
      /\ cb' = [e \in Entry |-> IF Deleted(<<list>>, e) THEN Null ELSE cb[e]]
  BY <1>4, <1>5 DEF Fire, Delete
<1>7. \A e : Deleted(<<list>>, e) => e = L[1]
  BY <1>4 DEF Deleted
<1>8. /\ arrived' = SubSeq(arrived, 1, p - 1) \o SubSeq(arrived, p + 1, Len(arrived))
      /\ arrived' \in Seq(Entry) /\ Len(arrived') = Len(arrived) - 1
      /\ \A i \in 1 .. (Len(arrived) - 1) : arrived'[i] = arrived[IF i < p THEN i ELSE i + 1]
  BY <1>3, <1>6, WithoutIs
<1>9. /\ \A e \in Entry : e # L[1] => EventOf(value', cb', e) = EventOf(value, cb, e)
      /\ value' \in [Entry -> Int] /\ cb' \in [Entry -> Callbacks \cup {Null}]
  <2>1. \A e \in Entry : e # L[1] => value'[e] = value[e] /\ cb'[e] = cb[e]
    BY <1>6, <1>7
  <2>2. value' \in [Entry -> Int] /\ cb' \in [Entry -> Callbacks \cup {Null}]
    BY <1>3, <1>6
  <2>. QED
    BY <2>1, <2>2 DEF EventOf
<1>. DEFINE E1 == Events(value, cb, arrived)
            E2 == Events(value', cb', arrived')
            S  == [due : Int, cb : Callbacks \cup {Null}]
            C  == SubSeq(E1, 1, p - 1) \o SubSeq(E1, p + 1, Len(E1))
<1>10. /\ E1 \in Seq(S) /\ Len(E1) = Len(arrived) /\ DOMAIN E1 = 1 .. Len(arrived)
       /\ \A i \in 1 .. Len(arrived) : /\ E1[i] = EventOf(value, cb, arrived[i])
                                       /\ E1[i].due = value[arrived[i]]
                                       /\ E1[i].cb = cb[arrived[i]]
  BY <1>3, EventsAre
<1>11. /\ E2 \in Seq(S) /\ Len(E2) = Len(arrived')
       /\ \A i \in 1 .. Len(arrived') : E2[i] = EventOf(value', cb', arrived'[i])
  BY <1>8, <1>9, EventsAre
<1>. HIDE DEF E1, E2, S
<1>12. /\ C \in Seq(S) /\ Len(C) = Len(arrived) - 1
       /\ \A i \in 1 .. (Len(arrived) - 1) : C[i] = E1[IF i < p THEN i ELSE i + 1]
  <2>1. p \in 1 .. Len(E1)
    BY <1>10
  <2>2. /\ C \in Seq(S) /\ Len(C) = Len(E1) - 1
        /\ \A i \in 1 .. (Len(E1) - 1) : C[i] = E1[IF i < p THEN i ELSE i + 1]
    BY <1>10, <2>1, CutIs
  <2>. QED
    BY <1>10, <2>2
<1>. HIDE DEF C
<1>13. E2 = C
  <2>1. ASSUME NEW i \in 1 .. (Len(arrived) - 1)
        PROVE  E2[i] = C[i]
    <3>. DEFINE u == IF i < p THEN i ELSE i + 1
    <3>1. u \in 1 .. Len(arrived) /\ u # p
      BY <1>3
    <3>2. arrived'[i] = arrived[u] /\ C[i] = E1[u]
      BY <1>8, <1>12
    <3>. HIDE DEF u
    <3>3. arrived[u] # L[1] /\ arrived[u] \in Entry
      BY <1>3, <1>5, <3>1 DEF Distinct
    <3>4. E2[i] = EventOf(value', cb', arrived[u])
      BY <1>8, <1>11, <3>2
    <3>. QED
      BY <1>9, <1>10, <3>1, <3>2, <3>3, <3>4
  <2>2. Len(E2) = Len(arrived) - 1 /\ Len(C) = Len(arrived) - 1
    BY <1>8, <1>11, <1>12
  <2>3. \A i \in 1 .. (Len(arrived) - 1) : E2[i] = C[i]
    BY <2>1
  <2>4. E2 \in Seq(S) /\ C \in Seq(S)
    BY <1>11, <1>12
  <2>. QED
    BY ONLY <2>2, <2>3, <2>4
<1>14. ASSUME NEW j \in 1 .. Len(arrived)
       PROVE  \/ value[arrived[p]] < value[arrived[j]]
              \/ value[arrived[p]] = value[arrived[j]] /\ p <= j
  <2>1. CASE j = p
    <3>1. p \in Int
      BY <1>3
    <3>. QED
      BY <2>1, <3>1
  <2>2. CASE j # p
    <3>1. PICK m \in 1 .. Len(L) : arrived[j] = L[m]
      <4>1. In(arrived[j], arrived)
        BY DEF In
      <4>2. In(arrived[j], L)
        BY <1>3, <4>1
      <4>. QED
        BY <4>2 DEF In
    <3>2. m # 1
      BY <1>3, <1>5, <2>2, <3>1 DEF Distinct
    <3>3. 1 < m /\ 1 \in 1 .. Len(L) /\ m \in 1 .. Len(L)
          /\ p \in 1 .. Len(arrived) /\ j \in 1 .. Len(arrived)
      BY <1>4, <3>2
    <3>4. \A i2, j2 \in 1 .. Len(L), k2, l2 \in 1 .. Len(arrived) :
             i2 < j2 /\ arrived[k2] = L[i2] /\ arrived[l2] = L[j2] =>
               value[L[i2]] < value[L[j2]] \/ (value[L[i2]] = value[L[j2]] /\ k2 < l2)
      BY <1>1 DEF Listed, Ordered
    <3>5. value[L[1]] < value[L[m]] \/ (value[L[1]] = value[L[m]] /\ p < j)
      BY ONLY <1>5, <3>1, <3>3, <3>4
    <3>6. p \in Int /\ j \in Int
      BY <1>3
    <3>. QED
      BY ONLY <1>5, <3>1, <3>5, <3>6
  <2>. QED
    BY <2>1, <2>2
<1>15. /\ E1[p].due <= 0
       /\ \A j \in DOMAIN E1 : \/ E1[p].due < E1[j].due
                               \/ E1[p].due = E1[j].due /\ p <= j
       /\ phase' = IF E1[p].cb = Null THEN "run" ELSE E1[p].cb
       /\ p \in DOMAIN E1
  BY <1>5, <1>6, <1>10, <1>14
<1>16. /\ phase = "run"
       /\ \E i \in DOMAIN E1 :
            /\ E1[i].due <= 0
            /\ \A j \in DOMAIN E1 : \/ E1[i].due < E1[j].due
                                    \/ E1[i].due = E1[j].due /\ i <= j
            /\ E2 = SubSeq(E1, 1, i - 1) \o SubSeq(E1, i + 1, Len(E1))
            /\ phase' = IF E1[i].cb = Null THEN "run" ELSE E1[i].cb
  BY <1>6, <1>13, <1>15 DEF C
<1>. QED
  BY <1>16 DEF Queue!Fire, Queue!IsNext, E1, E2, Events, EventOf

\* All times fall.
LEMMA InstructionImplements ==
  ASSUME IInv, NEW t \in Ticks, Instruction(t)
  PROVE  Queue!Instruction(t)
<1>1. PICK L, F : Listed(L, F)
  BY DEF IInv, ListInv
<1>2. ValueInv
  BY DEF IInv
<1>3. /\ arrived \in Seq(Entry) /\ value \in [Entry -> Int] /\ cb \in [Entry -> Callbacks \cup {Null}]
      /\ DOMAIN arrived = 1 .. Len(arrived)
      /\ \A i \in 1 .. Len(arrived) : arrived[i] \in Entry
      /\ \A e : Contains(From(list), e) <=> In(e, arrived)
  BY <1>1, <1>2, StateFacts
<1>4. /\ phase = "cpu" /\ phase' = "run" /\ cb' = cb /\ arrived' = arrived
      /\ value' = [e \in Entry |-> IF Contains(From(list), e) THEN value[e] - t ELSE value[e]]
  BY DEF Instruction
<1>. DEFINE E1 == Events(value, cb, arrived)
            E2 == Events(value', cb', arrived')
            E3 == [i \in DOMAIN E1 |-> [E1[i] EXCEPT !.due = @ - t]]
<1>5. /\ DOMAIN E1 = 1 .. Len(arrived)
      /\ \A i \in 1 .. Len(arrived) : E1[i] = EventOf(value, cb, arrived[i])
  BY <1>3, EventsAre
<1>6. E2 = [i \in 1 .. Len(arrived) |-> EventOf(value', cb, arrived[i])]
  BY <1>3, <1>4 DEF Events
<1>. HIDE DEF E1, E2
<1>7. \A i \in 1 .. Len(arrived) : EventOf(value', cb, arrived[i]) = [E1[i] EXCEPT !.due = @ - t]
  <2>. SUFFICES ASSUME NEW i \in 1 .. Len(arrived)
                PROVE  EventOf(value', cb, arrived[i]) = [E1[i] EXCEPT !.due = @ - t]
    OBVIOUS
  <2>1. arrived[i] \in Entry /\ In(arrived[i], arrived)
    BY <1>3 DEF In
  <2>2. value'[arrived[i]] = value[arrived[i]] - t
    BY <1>3, <1>4, <2>1
  <2>3. E1[i] = [due |-> value[arrived[i]], cb |-> cb[arrived[i]]]
    BY <1>5 DEF EventOf
  <2>. QED
    BY <2>2, <2>3 DEF EventOf
<1>8. E2 = E3
  <2>. HIDE DEF EventOf
  <2>. QED
    BY <1>5, <1>6, <1>7
<1>9. phase = "cpu" /\ E2 = E3 /\ phase' = "run"
  BY <1>4, <1>8
<1>. QED
  BY <1>9 DEF Queue!Instruction, E1, E2, E3, Events, EventOf

\* The entries of a listener call nobody any more.
LEMMA RemoveListenerImplements ==
  ASSUME IInv, NEW c \in Callbacks, RemoveListener(c)
  PROVE  Queue!RemoveListener(c)
<1>1. PICK L, F : Listed(L, F)
  BY DEF IInv, ListInv
<1>2. ValueInv
  BY DEF IInv
<1>3. /\ arrived \in Seq(Entry) /\ value \in [Entry -> Int] /\ cb \in [Entry -> Callbacks \cup {Null}]
      /\ DOMAIN arrived = 1 .. Len(arrived)
      /\ \A i \in 1 .. Len(arrived) : arrived[i] \in Entry
      /\ \A e : Contains(From(list), e) <=> In(e, arrived)
  BY <1>1, <1>2, StateFacts
<1>4. /\ Active /\ phase' = phase /\ value' = value /\ arrived' = arrived
      /\ cb' = [e \in Entry |-> IF Contains(From(list), e) /\ cb[e] = c THEN Null ELSE cb[e]]
  BY DEF RemoveListener
<1>. DEFINE E1 == Events(value, cb, arrived)
            E2 == Events(value', cb', arrived')
            E3 == [i \in DOMAIN E1 |-> IF E1[i].cb = c THEN [E1[i] EXCEPT !.cb = Null] ELSE E1[i]]
<1>5. /\ DOMAIN E1 = 1 .. Len(arrived)
      /\ \A i \in 1 .. Len(arrived) : E1[i] = EventOf(value, cb, arrived[i])
  BY <1>3, EventsAre
<1>6. E2 = [i \in 1 .. Len(arrived) |-> EventOf(value, cb', arrived[i])]
  BY <1>3, <1>4 DEF Events
<1>. HIDE DEF E1, E2
<1>7. \A i \in 1 .. Len(arrived) :
        EventOf(value, cb', arrived[i]) = IF E1[i].cb = c THEN [E1[i] EXCEPT !.cb = Null] ELSE E1[i]
  <2>. SUFFICES ASSUME NEW i \in 1 .. Len(arrived)
                PROVE  EventOf(value, cb', arrived[i]) =
                         IF E1[i].cb = c THEN [E1[i] EXCEPT !.cb = Null] ELSE E1[i]
    OBVIOUS
  <2>1. arrived[i] \in Entry /\ In(arrived[i], arrived)
    BY <1>3 DEF In
  <2>2. cb'[arrived[i]] = IF cb[arrived[i]] = c THEN Null ELSE cb[arrived[i]]
    BY <1>3, <1>4, <2>1
  <2>3. E1[i] = [due |-> value[arrived[i]], cb |-> cb[arrived[i]]]
    BY <1>5 DEF EventOf
  <2>. QED
    BY <2>2, <2>3 DEF EventOf
<1>8. E2 = E3
  <2>. HIDE DEF EventOf
  <2>. QED
    BY <1>5, <1>6, <1>7
<1>9. Queue!Active /\ E2 = E3 /\ phase' = phase
  BY <1>4, <1>8 DEF Active, Queue!Active
<1>. QED
  BY <1>9 DEF Queue!RemoveListener, E1, E2, E3, Events, EventOf

\* When the head of the list is not due, no event is.
LEMMA DoneImplements ==
  ASSUME IInv, Done
  PROVE  Queue!Done
<1>1. PICK L, F : Listed(L, F)
  BY DEF IInv, ListInv
<1>2. ValueInv
  BY DEF IInv
<1>3. /\ arrived \in Seq(Entry) /\ value \in [Entry -> Int] /\ cb \in [Entry -> Callbacks \cup {Null}]
      /\ Len(arrived) = Len(L)
      /\ \A i \in 1 .. Len(arrived) : arrived[i] \in Entry /\ value[arrived[i]] \in Int
      /\ Len(L) > 0 => \A i \in 1 .. Len(arrived) : value[L[1]] <= value[arrived[i]]
  BY <1>1, <1>2, StateFacts
<1>4. /\ L \in Seq(Entry) /\ Len(L) \in Nat /\ list = (IF L = <<>> THEN 0 ELSE L[1])
      /\ list # 0 <=> Len(L) > 0
  BY <1>1, ListedFacts
<1>5. /\ phase = "run" /\ (list # 0 => value[list] > 0) /\ phase' = "cpu"
      /\ value' = value /\ cb' = cb /\ arrived' = arrived
  BY DEF Done
<1>6. \A i \in 1 .. Len(arrived) : value[arrived[i]] > 0
  <2>. SUFFICES ASSUME NEW i \in 1 .. Len(arrived) PROVE value[arrived[i]] > 0
    OBVIOUS
  <2>1. Len(L) > 0 /\ list = L[1] /\ L[1] \in Entry
    BY <1>3, <1>4
  <2>2. value[L[1]] > 0 /\ value[L[1]] <= value[arrived[i]]
    BY <1>3, <1>4, <1>5, <2>1
  <2>3. value[L[1]] \in Int /\ value[arrived[i]] \in Int
    BY <1>3, <2>1
  <2>. QED
    BY ONLY <2>2, <2>3
<1>. DEFINE E1 == Events(value, cb, arrived)
            E2 == Events(value', cb', arrived')
<1>7. /\ DOMAIN E1 = 1 .. Len(arrived)
      /\ \A i \in 1 .. Len(arrived) : E1[i].due = value[arrived[i]]
  BY <1>3, EventsAre
<1>8. E2 = E1
  BY <1>5
<1>. HIDE DEF E1, E2
<1>9. phase = "run" /\ (\A i \in DOMAIN E1 : E1[i].due > 0) /\ phase' = "cpu" /\ E2 = E1
  BY <1>5, <1>6, <1>7, <1>8
<1>. QED
  BY <1>9 DEF Queue!Done, E1, E2, Events, EventOf

\* The list of src/src/kc/cb_list.cc does what the event queue promises: from
\* power-on every operation of it is the operation of the queue of that name, or
\* leaves the queue alone.  An event so fires once, when it is due, earliest
\* first, and equal ones in the order of arrival, whatever entry holds it.
THEOREM ListImplementsQueue == Spec => Queue!Init /\ [][Queue!Next]_(Queue!vars)
<1>1. Init => Queue!Init
  <2>. SUFFICES ASSUME Init PROVE Queue!Init
    OBVIOUS
  <2>1. arrived = <<>> /\ phase = "cpu"
    BY DEF Init
  <2>2. [i \in DOMAIN arrived |-> [due |-> value[arrived[i]], cb |-> cb[arrived[i]]]] = <<>>
    BY <2>1
  <2>. QED
    BY <2>1, <2>2 DEF Queue!Init
<1>2. IInv /\ [Next]_vars => [Queue!Next]_(Queue!vars)
  <2>. SUFFICES ASSUME IInv, [Next]_vars PROVE [Queue!Next]_(Queue!vars)
    OBVIOUS
  <2>1. ASSUME NEW c \in Callbacks, NEW o \in Offsets, Add(o, c) PROVE Queue!Next
    <3>1. Queue!Add(o, c)
      BY <2>1, AddImplements, TimeAssumption
    <3>. QED
      BY <3>1 DEF Queue!Next, Queue!Devices
  <2>2. CASE Fire
    BY <2>2, FireImplements DEF Queue!Next, Queue!Loop
  <2>3. CASE Clear
    <3>1. phase \in Callbacks /\ arrived' = <<>> /\ phase' = phase
      BY <2>3 DEF Clear
    <3>2. [i \in DOMAIN arrived' |-> [due |-> value'[arrived'[i]], cb |-> cb'[arrived'[i]]]] = <<>>
      BY <3>1
    <3>3. Queue!Clear
      BY <3>1, <3>2 DEF Queue!Clear
    <3>. QED
      BY <3>3 DEF Queue!Next, Queue!Devices
  <2>4. ASSUME NEW t \in Ticks, Instruction(t) PROVE Queue!Next
    BY <2>4, InstructionImplements DEF Queue!Next, Queue!Loop
  <2>5. CASE Return
    <3>1. Queue!Return
      BY <2>5 DEF Return, Queue!Return
    <3>. QED
      BY <3>1 DEF Queue!Next, Queue!Loop
  <2>6. CASE Done
    BY <2>6, DoneImplements DEF Queue!Next, Queue!Loop
  <2>7. ASSUME NEW c \in Callbacks, RemoveListener(c) PROVE Queue!Next
    BY <2>7, RemoveListenerImplements DEF Queue!Next, Queue!Devices
  <2>8. CASE UNCHANGED vars
    <3>1. UNCHANGED Queue!vars
      BY <2>8 DEF vars, Queue!vars
    <3>. QED
      BY <3>1
  <2>. QED
    BY <2>1, <2>2, <2>3, <2>4, <2>5, <2>6, <2>7, <2>8 DEF Next, Loop, Devices
<1>. QED
  BY <1>1, <1>2, Invariant, PTL DEF Spec
=============================================================================
