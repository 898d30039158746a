---------------------------- MODULE StorageProofs ----------------------------
(***************************************************************************)
(* Proofs about what keeps data for a program.  The tape archive (module   *)
(* KCTFile): whatever is added, removed and renamed, whenever the emulator *)
(* is killed, the archive fits together unless a write ran out of blocks;  *)
(* for any number of blocks, of directory blocks and of entries in one,    *)
(* and any files; and its blocks implement the files under their names     *)
(* (module Archive).  The hard disk (module GIDE) implements HardDisk, for *)
(* any size of a sector, any number of heads and sectors, and any program  *)
(* that finishes its transfers.                                            *)
(***************************************************************************)
EXTENDS MCStorage, FiniteSetTheorems, SequenceTheorems, WellFoundedInduction, TLAPS

-----------------------------------------------------------------------------
(***************************************************************************)
(* Bounded induction, and functions that are defined by it.                *)
(***************************************************************************)

\* A set of numbers below a bound has a least element.
LEMMA Least ==
  ASSUME NEW n \in Nat, NEW T, T \subseteq 0 .. n, T # {}
  PROVE  \E x \in T : \A y \in T : x <= y
<1> DEFINE S == 0 .. n
           R == StrictSubsetOrdering(S)
           Q == {0 .. x : x \in T}
<1>1. IsWellFoundedOn(R, FiniteSubsetsOf(S))
  BY FS_StrictSubsetOrderingWellFounded
<1>2. Q \subseteq FiniteSubsetsOf(S) /\ Q # {}
  <2>1. \A x \in T : 0 .. x \in SUBSET S
    OBVIOUS
  <2>2. \A x \in T : IsFiniteSet(0 .. x)
    <3>1. \A x \in T : x \in Int
      OBVIOUS
    <3>2. QED
      BY <3>1, FS_Interval
  <2>3. QED
    BY <2>1, <2>2 DEF FiniteSubsetsOf
<1> HIDE DEF R, Q
<1>3. \E a \in Q : \A b \in Q : <<b, a>> \notin R
  BY <1>1, <1>2, WFMin
<1>4. PICK x \in T : \A b \in Q : <<b, 0 .. x>> \notin R
  BY <1>3 DEF Q
<1>5. ASSUME NEW y \in T, y < x PROVE FALSE
  <2>1. 0 .. y \in Q
    BY DEF Q
  <2>2. x \in 0 .. x /\ x \notin 0 .. y /\ 0 .. y \subseteq 0 .. x
    BY <1>5
  <2>3. <<0 .. y, 0 .. x>> \in R
    BY <2>2 DEF R, StrictSubsetOrdering
  <2>4. QED
    BY <2>1, <2>3, <1>4
<1>6. QED
  BY <1>5

\* A set of the numbers up to n that is closed under the successor.
LEMMA Induction ==
  ASSUME NEW n \in Nat, NEW S, 0 \in S,
         \A k \in 1 .. n : k - 1 \in S => k \in S
  PROVE  \A k \in 0 .. n : k \in S
<1>. DEFINE Bad == {k \in 0 .. n : k \notin S}
<1>. SUFFICES ASSUME Bad # {} PROVE FALSE
  OBVIOUS
<1>1. Bad \subseteq 0 .. n
  OBVIOUS
<1>2. PICK k \in Bad : \A j \in Bad : k <= j
  BY ONLY <1>1, Bad # {}, n \in Nat, Least
<1>3. k \in 1 .. n /\ k - 1 \in 0 .. n
  BY <1>2
<1>4. k - 1 \in S
  BY <1>2, <1>3
<1>. QED
  BY <1>2, <1>3, <1>4

\* Functions with the same values are equal.
LEMMA Extensional ==
  ASSUME NEW D, NEW f, NEW g, f = [x \in D |-> f[x]], g = [x \in D |-> g[x]],
         \A x \in D : f[x] = g[x]
  PROVE  f = g
OBVIOUS

Recursive(n, a, G, f) ==
  f = [k \in 0 .. n |-> IF k = 0 THEN a ELSE G[<<k, f[k - 1]>>]]

\* A start and a step for every number determine a function.
LEMMA Recursion ==
  ASSUME NEW n \in Nat, NEW X, NEW a \in X, NEW G \in [(1 .. n) \X X -> X]
  PROVE  \E f \in [0 .. n -> X] : Recursive(n, a, G, f)
<1>. DEFINE Turn(m, f) == [k \in 0 .. m |-> IF k = 0 THEN a ELSE G[<<k, f[k - 1]>>]]
            S == {m \in 0 .. n : \E f \in [0 .. m -> X] : f = Turn(m, f)}
<1>1. 0 \in S
  <2>. DEFINE f == [k \in 0 .. 0 |-> a]
  <2>1. f \in [0 .. 0 -> X]
    OBVIOUS
  <2>2. \A k \in 0 .. 0 : f[k] = Turn(0, f)[k]
    OBVIOUS
  <2>3. f = [k \in 0 .. 0 |-> f[k]] /\ Turn(0, f) = [k \in 0 .. 0 |-> Turn(0, f)[k]]
    OBVIOUS
  <2>4. f = Turn(0, f)
    BY ONLY <2>2, <2>3, Extensional
  <2>. HIDE DEF Turn, f
  <2>. QED
    BY <2>1, <2>4
<1>2. ASSUME NEW m \in 1 .. n, m - 1 \in S
      PROVE  m \in S
  <2>1. PICK f \in [0 .. m - 1 -> X] : f = Turn(m - 1, f)
    BY <1>2
  <2>. DEFINE g == [k \in 0 .. m |-> IF k < m THEN f[k] ELSE G[<<m, f[m - 1]>>]]
  <2>2. m \in 1 .. n /\ m - 1 \in 0 .. m - 1 /\ f[m - 1] \in X /\ G[<<m, f[m - 1]>>] \in X
    BY <2>1
  <2>3. \A k \in 0 .. m : k < m => k \in 0 .. m - 1
    BY <2>2
  <2>4. g \in [0 .. m -> X]
    BY <2>1, <2>2, <2>3
  <2>5. ASSUME NEW k \in 0 .. m
        PROVE  g[k] = IF k = 0 THEN a ELSE G[<<k, g[k - 1]>>]
    <3>1. CASE k = 0
      <4>1. k < m /\ k \in 0 .. m - 1
        BY <2>2, <3>1
      <4>2. f[k] = a
        BY <2>1, <3>1, <4>1
      <4>. QED
        BY <3>1, <4>1, <4>2
    <3>2. CASE k # 0
      <4>1. k - 1 \in 0 .. m /\ k - 1 < m /\ k - 1 \in 0 .. m - 1
        BY <2>2, <2>5, <3>2
      <4>2. g[k - 1] = f[k - 1]
        BY <4>1
      <4>3. CASE k < m
        <5>1. k \in 0 .. m - 1
          BY <2>3, <2>5, <4>3
        <5>2. f[k] = G[<<k, f[k - 1]>>]
          BY <2>1, <3>2, <5>1
        <5>. QED
          BY <2>5, <3>2, <4>2, <4>3, <5>2
      <4>4. CASE ~(k < m)
        <5>1. k = m
          BY <2>2, <2>5, <4>4
        <5>. QED
          BY <2>5, <3>2, <4>2, <4>4, <5>1
      <4>. QED
        BY <4>3, <4>4
    <3>. QED
      BY <3>1, <3>2
  <2>. HIDE DEF g
  <2>6. g = Turn(m, g)
    <3>1. \A k \in 0 .. m : g[k] = Turn(m, g)[k]
      BY <2>5
    <3>2. g = [k \in 0 .. m |-> g[k]] /\ Turn(m, g) = [k \in 0 .. m |-> Turn(m, g)[k]]
      BY <2>4
    <3>. QED
      BY ONLY <3>1, <3>2, Extensional
  <2>7. m \in 0 .. n
    BY <2>2
  <2>. HIDE DEF Turn
  <2>. QED
    BY <2>4, <2>6, <2>7
<1>. HIDE DEF S
<1>3. n \in S
  <2>1. \A k \in 0 .. n : k \in S
    BY <1>1, <1>2, Induction
  <2>. QED
    BY <2>1
<1>. QED
  BY <1>3 DEF S, Recursive

-----------------------------------------------------------------------------
(***************************************************************************)
(* The scans of the map and of the header.                                 *)
(***************************************************************************)

ScanStep(S, k, x) == IF k - 1 \in S THEN Append(x, k - 1) ELSE x
Scan(S, n, f) ==
  /\ f \in [0 .. n -> Seq(Int)] /\ f[0] = <<>>
  /\ \A k \in 1 .. n : f[k] = ScanStep(S, k, f[k - 1])

\* The scan has a value after every number.
LEMMA AscendingScan ==
  ASSUME NEW S, NEW n \in Nat
  PROVE  \E scan : Scan(S, n, scan) /\ Ascending(S, n) = scan[n]
<1>. DEFINE G == [p \in (1 .. n) \X Seq(Int) |-> ScanStep(S, p[1], p[2])]
            Turn(f) == [k \in 0 .. n |-> IF k = 0 THEN <<>> ELSE ScanStep(S, k, f[k - 1])]
            scan == CHOOSE f : f = Turn(f)
<1>0. <<>> \in Seq(Int) /\ \A k \in 1 .. n, x \in Seq(Int) : ScanStep(S, k, x) \in Seq(Int)
  BY DEF ScanStep
<1>1. G \in [(1 .. n) \X Seq(Int) -> Seq(Int)]
  BY <1>0
<1>2. \A k \in 1 .. n, x \in Seq(Int) : G[<<k, x>>] = ScanStep(S, k, x)
  OBVIOUS
<1>. HIDE DEF G
<1>3. PICK g \in [0 .. n -> Seq(Int)] : Recursive(n, <<>>, G, g)
  BY ONLY <1>0, <1>1, n \in Nat, Recursion
<1>4. ASSUME NEW k \in 0 .. n
      PROVE  g[k] = Turn(g)[k]
  <2>1. g[k] = IF k = 0 THEN <<>> ELSE G[<<k, g[k - 1]>>]
    BY <1>3 DEF Recursive
  <2>2. k # 0 => k \in 1 .. n /\ k - 1 \in 0 .. n
    OBVIOUS
  <2>3. k # 0 => g[k - 1] \in Seq(Int)
    BY <1>3, <2>2
  <2>4. k # 0 => G[<<k, g[k - 1]>>] = ScanStep(S, k, g[k - 1])
    BY <1>2, <2>2, <2>3
  <2>. QED
    BY <2>1, <2>4
<1>5. g = Turn(g)
  <2>1. g = [k \in 0 .. n |-> g[k]] /\ Turn(g) = [k \in 0 .. n |-> Turn(g)[k]]
    BY <1>3
  <2>. QED
    BY ONLY <1>4, <2>1, Extensional
<1>6. scan = Turn(scan)
  BY <1>5
<1>7. Ascending(S, n) = scan[n]
  BY DEF Ascending, ScanStep
<1>. HIDE DEF scan
<1>8. scan[0] = <<>> /\ \A k \in 1 .. n : scan[k] = ScanStep(S, k, scan[k - 1])
  BY <1>6
<1>9. \A k \in 0 .. n : scan[k] \in Seq(Int)
  <2>. DEFINE T == {k \in 0 .. n : scan[k] \in Seq(Int)}
  <2>1. 0 \in T
    <3>1. scan[0] \in Seq(Int)
      BY ONLY <1>0, <1>8
    <3>. QED
      BY ONLY <3>1, n \in Nat
  <2>2. ASSUME NEW k \in 1 .. n, k - 1 \in T PROVE k \in T
    BY <1>0, <1>8, <2>2
  <2>. HIDE DEF T
  <2>3. \A k \in 0 .. n : k \in T
    BY <2>1, <2>2, Induction
  <2>. QED
    BY <2>3 DEF T
<1>10. scan \in [0 .. n -> Seq(Int)]
  BY <1>6, <1>9
<1>. QED
  BY <1>7, <1>8, <1>10 DEF Scan

\* It finds members of S below n, each once.
LEMMA AscendingIs ==
  ASSUME NEW S, NEW n \in Nat
  PROVE  /\ Ascending(S, n) \in Seq(Int)
         /\ \A i \in 1 .. Len(Ascending(S, n)) :
               Ascending(S, n)[i] \in S /\ Ascending(S, n)[i] \in 0 .. n - 1
         /\ \A i, j \in 1 .. Len(Ascending(S, n)) :
               Ascending(S, n)[i] = Ascending(S, n)[j] => i = j
<1>1. PICK scan : Scan(S, n, scan) /\ Ascending(S, n) = scan[n]
  BY AscendingScan
<1>a. /\ \A k \in 0 .. n : scan[k] \in Seq(Int)
      /\ scan[0] = <<>>
      /\ \A k \in 1 .. n : scan[k] = ScanStep(S, k, scan[k - 1])
  BY <1>1 DEF Scan
<1>. DEFINE Good(s, k) == /\ \A i \in 1 .. Len(s) : s[i] \in S /\ s[i] \in 0 .. k - 1
                          /\ \A i, j \in 1 .. Len(s) : s[i] = s[j] => i = j
            T == {k \in 0 .. n : Good(scan[k], k)}
<1>2. 0 \in T
  BY <1>a
<1>3. ASSUME NEW k \in 1 .. n, k - 1 \in T
      PROVE  k \in T
  <2>. DEFINE s == scan[k - 1]
  <2>1. s \in Seq(Int) /\ Good(s, k - 1) /\ k \in 0 .. n /\ k \in Int
    BY <1>a, <1>3
  <2>2. scan[k] = IF k - 1 \in S THEN Append(s, k - 1) ELSE s
    BY <1>a DEF ScanStep
  <2>. HIDE DEF s
  <2>3. CASE k - 1 \in S
    <3>. DEFINE t == Append(s, k - 1)
    <3>1. /\ Len(t) = Len(s) + 1 /\ Len(s) \in Nat /\ t[Len(s) + 1] = k - 1
          /\ \A i \in 1 .. Len(s) : t[i] = s[i]
      BY <2>1
    <3>. HIDE DEF t
    <3>2. \A i \in 1 .. Len(s) : s[i] \in S /\ s[i] \in 0 .. k - 2
      BY <2>1
    <3>3. \A i, j \in 1 .. Len(s) : s[i] = s[j] => i = j
      BY <2>1
    <3>4. ASSUME NEW i \in 1 .. Len(t) PROVE t[i] \in S /\ t[i] \in 0 .. k - 1
      BY <2>1, <2>3, <3>1, <3>2
    <3>5. ASSUME NEW i \in 1 .. Len(t), NEW j \in 1 .. Len(t), t[i] = t[j]
          PROVE  i = j
      <4>1. CASE i = Len(s) + 1
        <5>1. ~(j \in 1 .. Len(s))
          BY <2>1, <3>1, <3>2, <3>5, <4>1
        <5>. QED
          BY <3>1, <4>1, <5>1
      <4>2. CASE j = Len(s) + 1
        <5>1. ~(i \in 1 .. Len(s))
          BY <2>1, <3>1, <3>2, <3>5, <4>2
        <5>. QED
          BY <3>1, <4>2, <5>1
      <4>3. CASE i # Len(s) + 1 /\ j # Len(s) + 1
        <5>1. i \in 1 .. Len(s) /\ j \in 1 .. Len(s)
          BY <3>1, <4>3
        <5>. QED
          BY <3>1, <3>3, <3>5, <5>1
      <4>. QED
        BY <4>1, <4>2, <4>3
    <3>6. scan[k] = t
      BY <2>2, <2>3 DEF t
    <3>. QED
      BY <2>1, <3>4, <3>5, <3>6
  <2>4. CASE k - 1 \notin S
    <3>1. scan[k] = s
      BY <2>2, <2>4
    <3>2. \A x : x \in 0 .. (k - 1) - 1 => x \in 0 .. k - 1
      BY <2>1
    <3>. QED
      BY <2>1, <3>1, <3>2
  <2>. QED
    BY <2>3, <2>4
<1>. HIDE DEF T
<1>4. n \in T
  <2>1. \A k \in 0 .. n : k \in T
    BY <1>2, <1>3, Induction
  <2>. QED
    BY <2>1
<1>5. Good(scan[n], n) /\ scan[n] \in Seq(Int)
  BY <1>a, <1>4 DEF T
<1>. QED
  BY ONLY <1>1, <1>5

\* It finds more in a larger set.
LEMMA AscendingGrows ==
  ASSUME NEW S, NEW T, S \subseteq T, NEW n \in Nat
  PROVE  Len(Ascending(S, n)) <= Len(Ascending(T, n))
<1>1. PICK f : Scan(S, n, f) /\ Ascending(S, n) = f[n]
  BY AscendingScan
<1>2. PICK g : Scan(T, n, g) /\ Ascending(T, n) = g[n]
  BY AscendingScan
<1>a. /\ \A k \in 0 .. n : f[k] \in Seq(Int) /\ g[k] \in Seq(Int)
      /\ f[0] = <<>> /\ g[0] = <<>>
      /\ \A k \in 1 .. n : f[k] = ScanStep(S, k, f[k - 1]) /\ g[k] = ScanStep(T, k, g[k - 1])
  BY <1>1, <1>2 DEF Scan
<1>. DEFINE B == {k \in 0 .. n : Len(f[k]) <= Len(g[k])}
<1>3. 0 \in B
  BY <1>a
<1>4. ASSUME NEW k \in 1 .. n, k - 1 \in B
      PROVE  k \in B
  <2>0. k \in 0 .. n /\ k - 1 \in 0 .. n
    OBVIOUS
  <2>1. f[k - 1] \in Seq(Int) /\ g[k - 1] \in Seq(Int)
    BY <1>a, <2>0
  <2>a. Len(f[k - 1]) \in Nat /\ Len(g[k - 1]) \in Nat /\ Len(f[k - 1]) <= Len(g[k - 1])
    BY <1>4, <2>1
  <2>b. f[k] = ScanStep(S, k, f[k - 1]) /\ g[k] = ScanStep(T, k, g[k - 1])
    BY <1>a
  <2>2. /\ Len(f[k]) = IF k - 1 \in S THEN Len(f[k - 1]) + 1 ELSE Len(f[k - 1])
        /\ Len(g[k]) = IF k - 1 \in T THEN Len(g[k - 1]) + 1 ELSE Len(g[k - 1])
    BY <2>0, <2>1, <2>b DEF ScanStep
  <2>3. k - 1 \in S => k - 1 \in T
    OBVIOUS
  <2>4. Len(f[k]) <= Len(g[k])
    BY ONLY <2>2, <2>3, <2>a
  <2>. QED
    BY <2>0, <2>4
<1>. HIDE DEF B
<1>5. n \in B
  <2>1. \A k \in 0 .. n : k \in B
    BY <1>3, <1>4, Induction
  <2>. QED
    BY <2>1
<1>. QED
  BY <1>1, <1>2, <1>5 DEF B

\* The used entries of one directory block.
LEMMA RowIs ==
  ASSUME NEW h \in Header, NEW i \in Index
  PROVE  /\ Row(h, i) \in Seq(Index \X Slot)
         /\ Len(Row(h, i)) = Len(Ascending(h[i].used, Slots))
         /\ \A k \in 1 .. Len(Row(h, i)) : Row(h, i)[k] \in Used(h)
<1>. DEFINE s == Ascending(h[i].used, Slots)
<1>1. h[i].used \subseteq Slot /\ Slots \in Nat /\ DirBlocks \in Nat
  BY SizeAssumption DEF Header
<1>2. s \in Seq(Int) /\ \A k \in 1 .. Len(s) : s[k] \in h[i].used
  BY <1>1, AscendingIs
<1>3. Row(h, i) = [k \in 1 .. Len(s) |-> <<i, s[k]>>]
  BY <1>2 DEF Row
<1>. HIDE DEF s
<1>4. \A k \in 1 .. Len(s) : <<i, s[k]>> \in Index \X Slot
  BY <1>1, <1>2
<1>5. Len(s) \in Nat
  BY <1>2
<1>6. Row(h, i) \in Seq(Index \X Slot) /\ Len(Row(h, i)) = Len(s)
  BY ONLY <1>3, <1>4, <1>5
<1>7. ASSUME NEW k \in 1 .. Len(s)
      PROVE  Row(h, i)[k] \in Used(h)
  <2>1. Row(h, i)[k] = <<i, s[k]>>
    BY <1>3
  <2>2. s[k] \in h[i].used /\ <<i, s[k]>> \in Index \X Slot
    BY <1>2, <1>4
  <2>. QED
    BY <2>1, <2>2 DEF Used
<1>. QED
  BY <1>6, <1>7 DEF s

Rows(h, f) ==
  /\ f \in [0 .. DirBlocks -> Seq(Index \X Slot)] /\ f[0] = <<>>
  /\ \A i \in Index : f[i] = f[i - 1] \o Row(h, i)

\* One row after the other.
LEMMA PlacesRows ==
  ASSUME NEW h \in Header
  PROVE  \E rows : Rows(h, rows) /\ Places(h) = rows[DirBlocks]
<1>. DEFINE X == Seq(Index \X Slot)
            n == DirBlocks
            G == [p \in (1 .. n) \X X |-> p[2] \o Row(h, p[1])]
            Turn(f) == [i \in 0 .. n |-> IF i = 0 THEN <<>> ELSE f[i - 1] \o Row(h, i)]
            rows == CHOOSE f : f = Turn(f)
<1>0. n \in Nat /\ <<>> \in X
  BY SizeAssumption
<1>a. Index = 1 .. n
  BY DEF Index
<1>b. \A i \in 1 .. n : Row(h, i) \in X
  BY <1>a, RowIs
<1>. HIDE DEF n
<1>c. ASSUME NEW x \in X, NEW i \in 1 .. n PROVE x \o Row(h, i) \in X
  <2>1. Row(h, i) \in Seq(Index \X Slot) /\ x \in Seq(Index \X Slot)
    BY <1>b
  <2>. QED
    BY ONLY <2>1, ConcatProperties DEF X
<1>. HIDE DEF X
<1>1. G \in [(1 .. n) \X X -> X]
  BY <1>c
<1>2. \A i \in 1 .. n, x \in X : G[<<i, x>>] = x \o Row(h, i)
  OBVIOUS
<1>. HIDE DEF G
<1>3. PICK g \in [0 .. n -> X] : Recursive(n, <<>>, G, g)
  BY ONLY <1>0, <1>1, Recursion
<1>4. ASSUME NEW i \in 0 .. n
      PROVE  g[i] = Turn(g)[i]
  <2>1. g[i] = IF i = 0 THEN <<>> ELSE G[<<i, g[i - 1]>>]
    BY <1>3 DEF Recursive
  <2>2. i # 0 => i \in 1 .. n /\ i - 1 \in 0 .. n
    BY <1>0
  <2>3. i # 0 => g[i - 1] \in X
    BY <1>3, <2>2
  <2>4. i # 0 => G[<<i, g[i - 1]>>] = g[i - 1] \o Row(h, i)
    BY <1>2, <2>2, <2>3
  <2>. QED
    BY <2>1, <2>4
<1>5. g = Turn(g)
  <2>1. g = [i \in 0 .. n |-> g[i]] /\ Turn(g) = [i \in 0 .. n |-> Turn(g)[i]]
    BY <1>3
  <2>. QED
    BY ONLY <1>4, <2>1, Extensional
<1>6. rows = Turn(rows)
  BY <1>5
<1>7. Places(h) = rows[n]
  BY DEF Places, n
<1>. HIDE DEF rows
<1>8. rows[0] = <<>> /\ \A i \in 1 .. n : rows[i] = rows[i - 1] \o Row(h, i)
  <2>. DEFINE Joined(i) == rows[i - 1] \o Row(h, i)
  <2>. HIDE DEF Joined
  <2>1. \A i \in 0 .. n : rows[i] = IF i = 0 THEN <<>> ELSE Joined(i)
    BY <1>6 DEF Joined
  <2>2. rows[0] = <<>> /\ \A i \in 1 .. n : rows[i] = Joined(i)
    BY ONLY <1>0, <2>1
  <2>. QED
    BY <2>2 DEF Joined
<1>9. \A i \in 0 .. n : rows[i] \in X
  <2>. DEFINE T == {i \in 0 .. n : rows[i] \in X}
  <2>1. 0 \in T
    <3>1. rows[0] \in X
      BY ONLY <1>0, <1>8
    <3>. QED
      BY <1>0, <3>1
  <2>2. ASSUME NEW i \in 1 .. n, i - 1 \in T PROVE i \in T
    <3>1. rows[i] \in X
      BY <1>8, <1>c, <2>2
    <3>. QED
      BY <1>0, <3>1
  <2>. HIDE DEF T
  <2>3. \A i \in 0 .. n : i \in T
    BY <1>0, <2>1, <2>2, Induction
  <2>. QED
    BY <2>3 DEF T
<1>10. rows \in [0 .. n -> X]
  BY <1>6, <1>9
<1>. QED
  BY <1>7, <1>8, <1>10, <1>a DEF Rows, n, X

\* They are the used entries of the header.
LEMMA PlacesUsed ==
  ASSUME NEW h \in Header
  PROVE  /\ Places(h) \in Seq(Index \X Slot) /\ Len(Places(h)) \in Nat
         /\ \A k \in 1 .. Len(Places(h)) : Places(h)[k] \in Used(h)
<1>1. PICK rows : Rows(h, rows) /\ Places(h) = rows[DirBlocks]
  BY PlacesRows
<1>2. DirBlocks \in Nat /\ Index = 1 .. DirBlocks
  BY SizeAssumption DEF Index
<1>3. /\ \A i \in 0 .. DirBlocks : rows[i] \in Seq(Index \X Slot)
      /\ rows[0] = <<>>
      /\ \A i \in 1 .. DirBlocks : rows[i] = rows[i - 1] \o Row(h, i)
  BY <1>1, <1>2 DEF Rows
<1>. DEFINE Good(s) == \A k \in 1 .. Len(s) : s[k] \in Used(h)
            T == {i \in 0 .. DirBlocks : Good(rows[i])}
<1>4. 0 \in T
  BY <1>2, <1>3
<1>5. ASSUME NEW i \in 1 .. DirBlocks, i - 1 \in T
      PROVE  i \in T
  <2>. DEFINE s == rows[i - 1]
              r == Row(h, i)
  <2>1. i \in 0 .. DirBlocks /\ i - 1 \in 0 .. DirBlocks /\ i \in Index
    BY <1>2
  <2>2. s \in Seq(Index \X Slot) /\ Good(s)
    BY <1>3, <1>5, <2>1
  <2>3. r \in Seq(Index \X Slot) /\ Good(r)
    BY <2>1, RowIs
  <2>4. rows[i] = s \o r
    BY <1>3
  <2>. HIDE DEF s, r
  <2>5. Good(s \o r)
    <3>. SUFFICES ASSUME NEW k \in 1 .. Len(s \o r)
                  PROVE  (s \o r)[k] \in Used(h)
      OBVIOUS
    <3>1. k \in 1 .. Len(s) + Len(r) /\ Len(s) \in Nat /\ Len(r) \in Nat
      BY <2>2, <2>3, ConcatProperties
    <3>2. (s \o r)[k] = IF k <= Len(s) THEN s[k] ELSE r[k - Len(s)]
      BY <2>2, <2>3, <3>1, ConcatProperties
    <3>3. k <= Len(s) => k \in 1 .. Len(s)
      BY <3>1
    <3>4. ~(k <= Len(s)) => k - Len(s) \in 1 .. Len(r)
      BY <3>1
    <3>. QED
      BY <2>2, <2>3, <3>2, <3>3, <3>4
  <2>. QED
    BY <2>1, <2>4, <2>5
<1>. HIDE DEF T
<1>6. DirBlocks \in T
  <2>1. \A i \in 0 .. DirBlocks : i \in T
    BY <1>2, <1>4, <1>5, Induction
  <2>. QED
    BY <1>2, <2>1
<1>7. Good(rows[DirBlocks]) /\ rows[DirBlocks] \in Seq(Index \X Slot)
  BY <1>2, <1>3, <1>6 DEF T
<1>. QED
  BY <1>1, <1>7

\* More entries, more places.
LEMMA PlacesGrow ==
  ASSUME NEW h \in Header, NEW g \in Header, \A i \in Index : h[i].used \subseteq g[i].used
  PROVE  Len(Places(h)) <= Len(Places(g))
<1>1. PICK a : Rows(h, a) /\ Places(h) = a[DirBlocks]
  BY PlacesRows
<1>2. PICK b : Rows(g, b) /\ Places(g) = b[DirBlocks]
  BY PlacesRows
<1>3. DirBlocks \in Nat /\ Slots \in Nat /\ Index = 1 .. DirBlocks
  BY SizeAssumption DEF Index
<1>4. /\ \A i \in 0 .. DirBlocks : a[i] \in Seq(Index \X Slot) /\ b[i] \in Seq(Index \X Slot)
      /\ a[0] = <<>> /\ b[0] = <<>>
      /\ \A i \in 1 .. DirBlocks : a[i] = a[i - 1] \o Row(h, i) /\ b[i] = b[i - 1] \o Row(g, i)
  BY <1>1, <1>2, <1>3 DEF Rows
<1>. DEFINE T == {i \in 0 .. DirBlocks : Len(a[i]) <= Len(b[i])}
<1>5. 0 \in T
  BY <1>3, <1>4
<1>6. ASSUME NEW i \in 1 .. DirBlocks, i - 1 \in T
      PROVE  i \in T
  <2>1. i \in 0 .. DirBlocks /\ i - 1 \in 0 .. DirBlocks /\ i \in Index
    BY <1>3
  <2>2. /\ a[i - 1] \in Seq(Index \X Slot) /\ b[i - 1] \in Seq(Index \X Slot)
        /\ Row(h, i) \in Seq(Index \X Slot) /\ Row(g, i) \in Seq(Index \X Slot)
    BY <1>4, <2>1, RowIs
  <2>3. Len(a[i]) = Len(a[i - 1]) + Len(Row(h, i)) /\ Len(b[i]) = Len(b[i - 1]) + Len(Row(g, i))
    <3>1. a[i] = a[i - 1] \o Row(h, i) /\ b[i] = b[i - 1] \o Row(g, i)
      BY <1>4
    <3>2. /\ Len(a[i - 1] \o Row(h, i)) = Len(a[i - 1]) + Len(Row(h, i))
          /\ Len(b[i - 1] \o Row(g, i)) = Len(b[i - 1]) + Len(Row(g, i))
      BY ONLY <2>2, ConcatProperties
    <3>. QED
      BY ONLY <3>1, <3>2
  <2>4. Len(Row(h, i)) <= Len(Row(g, i))
    <3>1. h[i].used \subseteq g[i].used
      BY <2>1
    <3>2. Len(Ascending(h[i].used, Slots)) <= Len(Ascending(g[i].used, Slots))
      BY ONLY <1>3, <3>1, AscendingGrows
    <3>. QED
      BY <2>1, <3>2, RowIs
  <2>5. /\ Len(a[i - 1]) \in Nat /\ Len(b[i - 1]) \in Nat
        /\ Len(Row(h, i)) \in Nat /\ Len(Row(g, i)) \in Nat
    BY <2>2
  <2>6. Len(a[i - 1]) <= Len(b[i - 1])
    BY <1>6
  <2>7. Len(a[i]) <= Len(b[i])
    BY ONLY <2>3, <2>4, <2>5, <2>6
  <2>. QED
    BY <2>1, <2>7
<1>. HIDE DEF T
<1>7. DirBlocks \in T
  <2>1. \A i \in 0 .. DirBlocks : i \in T
    BY <1>3, <1>5, <1>6, Induction
  <2>. QED
    BY <1>3, <2>1
<1>. QED
  BY <1>1, <1>2, <1>7 DEF T

-----------------------------------------------------------------------------
(***************************************************************************)
(* Chains of blocks.                                                       *)
(***************************************************************************)

IsWalk(d, b, f) ==
  /\ f \in [0 .. Blocks -> Block] /\ f[0] = b
  /\ \A k \in 1 .. Blocks : f[k] = Links(d)[f[k - 1]]

\* What the size of an archive is.
LEMMA Sizes ==
  /\ Blocks \in Nat /\ Blocks >= 2 /\ DirBlocks \in Nat \ {0} /\ Slots \in Nat \ {0}
  /\ Block = 0 .. Blocks - 1 /\ Slot = 0 .. Slots - 1 /\ Index = 1 .. DirBlocks
  /\ 0 \in Block /\ 1 \in Block
  /\ \A n \in Lens : n \in Nat \ {0}
BY SizeAssumption DEF Block, Slot, Index

\* The contents of blocks, told apart by their kind.
LEMMA Contents ==
  ASSUME NEW d \in File, NEW b \in Block
  PROVE  /\ d.block[b] \in Content
         /\ d.block[b].kind = "data" =>
              d.block[b].link \in Block /\ d.block[b].name \in Names /\ d.block[b].len \in Lens
         /\ d.block[b].kind = "dir" => d.block[b].entry \in [Slot -> Entry \cup {NoEntry}]
         /\ d.block[b].kind # "none" => d.block[b] # Unwritten
<1>1. d.block[b] \in Content
  BY DEF File
<1>2. ASSUME NEW c \in Content
      PROVE  /\ c.kind = "data" => c.link \in Block /\ c.name \in Names /\ c.len \in Lens
             /\ c.kind = "dir" => c.entry \in [Slot -> Entry \cup {NoEntry}]
             /\ c.kind # "none" => c # Unwritten
  BY DEF Content, Unwritten
<1>. QED
  BY <1>1, <1>2

\* Every block leads to one, and the end of a chain stays the end.
LEMMA LinksTyped ==
  ASSUME NEW d \in File
  PROVE  /\ Links(d) \in [Block -> Block]
         /\ Links(d)[0] = 0
         /\ \A b \in Block : b # 0 /\ d.block[b].kind = "data" => Links(d)[b] = d.block[b].link
<1>1. 0 \in Block
  BY Sizes
<1>2. \A b \in Block : d.block[b].kind = "data" => d.block[b].link \in Block
  BY Contents
<1>. DEFINE l(b) == IF b = 0 THEN 0
                    ELSE IF d.block[b].kind = "data" THEN d.block[b].link
                    ELSE IF b >= EndOfFile(d) THEN b ELSE 0
<1>3. Links(d) = [b \in Block |-> l(b)]
  BY DEF Links
<1>4. \A b \in Block : l(b) \in Block
  BY <1>1, <1>2
<1>. QED
  BY <1>1, <1>3, <1>4

\* Following the links from a block.
LEMMA WalkIs ==
  ASSUME NEW d \in File, NEW b \in Block
  PROVE  IsWalk(d, b, Walk(d, b))
<1>. DEFINE G == [p \in (1 .. Blocks) \X Block |-> Links(d)[p[2]]]
            Turn(f) == [k \in 0 .. Blocks |-> IF k = 0 THEN b ELSE Links(d)[f[k - 1]]]
            walk == CHOOSE f : f = Turn(f)
<1>0. Blocks \in Nat /\ Links(d) \in [Block -> Block]
  BY Sizes, LinksTyped
<1>1. G \in [(1 .. Blocks) \X Block -> Block]
  BY <1>0
<1>2. \A k \in 1 .. Blocks, x \in Block : G[<<k, x>>] = Links(d)[x]
  OBVIOUS
<1>. HIDE DEF G
<1>3. PICK g \in [0 .. Blocks -> Block] : Recursive(Blocks, b, G, g)
  BY ONLY <1>0, <1>1, b \in Block, Recursion
<1>4. ASSUME NEW k \in 0 .. Blocks
      PROVE  g[k] = Turn(g)[k]
  <2>1. g[k] = IF k = 0 THEN b ELSE G[<<k, g[k - 1]>>]
    BY <1>3 DEF Recursive
  <2>2. k # 0 => k \in 1 .. Blocks /\ k - 1 \in 0 .. Blocks
    BY <1>0
  <2>3. k # 0 => g[k - 1] \in Block
    BY <1>3, <2>2
  <2>4. k # 0 => G[<<k, g[k - 1]>>] = Links(d)[g[k - 1]]
    BY <1>2, <2>2, <2>3
  <2>. QED
    BY <2>1, <2>4
<1>5. g = Turn(g)
  <2>1. g = [k \in 0 .. Blocks |-> g[k]] /\ Turn(g) = [k \in 0 .. Blocks |-> Turn(g)[k]]
    BY <1>3
  <2>. QED
    BY ONLY <1>4, <2>1, Extensional
<1>6. walk = Turn(walk)
  BY <1>5
<1>7. Walk(d, b) = walk
  BY DEF Walk
<1>. HIDE DEF walk
<1>8. \A k \in 0 .. Blocks : walk[k] = IF k = 0 THEN b ELSE Links(d)[walk[k - 1]]
  BY <1>6
<1>9. \A k \in 0 .. Blocks : walk[k] \in Block
  <2>. DEFINE T == {k \in 0 .. Blocks : walk[k] \in Block}
  <2>1. 0 \in T
    BY <1>0, <1>8
  <2>2. ASSUME NEW k \in 1 .. Blocks, k - 1 \in T PROVE k \in T
    <3>1. k \in 0 .. Blocks /\ k # 0 /\ walk[k - 1] \in Block
      BY <1>0, <2>2
    <3>. QED
      BY <1>0, <1>8, <3>1
  <2>. HIDE DEF T
  <2>3. \A k \in 0 .. Blocks : k \in T
    BY <1>0, <2>1, <2>2, Induction
  <2>. QED
    BY <2>3 DEF T
<1>10. walk \in [0 .. Blocks -> Block]
  BY <1>6, <1>9
<1>11. walk[0] = b /\ \A k \in 1 .. Blocks : walk[k] = Links(d)[walk[k - 1]]
  BY <1>0, <1>8
<1>. QED
  BY <1>7, <1>10, <1>11 DEF IsWalk

\* There is one way only.
LEMMA WalkUnique ==
  ASSUME NEW d \in File, NEW b \in Block, NEW f, IsWalk(d, b, f)
  PROVE  Walk(d, b) = f
<1>. DEFINE w == Walk(d, b)
            T == {k \in 0 .. Blocks : w[k] = f[k]}
<1>0. IsWalk(d, b, w) /\ Blocks \in Nat
  BY WalkIs, Sizes
<1>. HIDE DEF w
<1>1. 0 \in T
  BY <1>0 DEF IsWalk
<1>2. ASSUME NEW k \in 1 .. Blocks, k - 1 \in T PROVE k \in T
  <2>1. w[k] = Links(d)[w[k - 1]] /\ f[k] = Links(d)[f[k - 1]]
    BY <1>0 DEF IsWalk
  <2>2. w[k - 1] = f[k - 1] /\ k \in 0 .. Blocks
    BY <1>0, <1>2
  <2>. QED
    BY <2>1, <2>2
<1>3. \A k \in 0 .. Blocks : k \in T
  <2>. HIDE DEF T
  <2>. QED
    BY <1>0, <1>1, <1>2, Induction
<1>4. \A k \in 0 .. Blocks : w[k] = f[k]
  BY <1>3
<1>5. w = [k \in 0 .. Blocks |-> w[k]] /\ f = [k \in 0 .. Blocks |-> f[k]]
  BY <1>0 DEF IsWalk
<1>. QED
  BY ONLY <1>4, <1>5, Extensional DEF w

\* The blocks of a chain.
LEMMA ChainIs ==
  ASSUME NEW d \in File, NEW b \in Block
  PROVE  /\ \A x : x \in Chain(d, b) <=> x # 0 /\ \E k \in 0 .. Blocks : Walk(d, b)[k] = x
         /\ Chain(d, b) \subseteq Block
<1>1. Walk(d, b) \in [0 .. Blocks -> Block]
  BY WalkIs DEF IsWalk
<1>. QED
  BY <1>1 DEF Chain, Range

\* A file that can be read ends after its last block.
LEMMA WalkEnds ==
  ASSUME NEW d \in File, NEW e \in Entry, Readable(d, e)
  PROVE  \A k \in 0 .. Blocks :
            IF k < e.len THEN Walk(d, e.first)[k] # 0 /\ d.block[Walk(d, e.first)[k]].kind = "data"
                                                       /\ d.block[Walk(d, e.first)[k]].len = e.len
                         ELSE Walk(d, e.first)[k] = 0
<1>. DEFINE w == Walk(d, e.first)
            T == {k \in 0 .. Blocks : k >= e.len => w[k] = 0}
<1>0. e.len \in Nat \ {0} /\ e.first \in Block /\ Blocks \in Nat
  BY Sizes DEF Entry
<1>1. IsWalk(d, e.first, w)
  BY <1>0, WalkIs
<1>2. /\ e.len <= Blocks /\ w[e.len] = 0
      /\ \A k \in 0 .. e.len - 1 : w[k] # 0 /\ d.block[w[k]].kind = "data" /\ d.block[w[k]].len = e.len
  BY DEF Readable
<1>. HIDE DEF w
<1>3. 0 \in T
  BY <1>0
<1>4. ASSUME NEW k \in 1 .. Blocks, k - 1 \in T PROVE k \in T
  <2>1. k \in 0 .. Blocks /\ k \in Int
    BY <1>0
  <2>2. CASE k = e.len
    BY <1>2, <2>1, <2>2
  <2>3. CASE k > e.len
    <3>1. w[k - 1] = 0
      BY <1>0, <1>4, <2>1, <2>3
    <3>2. w[k] = Links(d)[w[k - 1]]
      BY <1>1 DEF IsWalk
    <3>3. w[k] = 0
      BY <3>1, <3>2, LinksTyped
    <3>. QED
      BY <2>1, <3>3
  <2>4. CASE k < e.len
    BY <1>0, <2>1, <2>4
  <2>. QED
    BY <1>0, <2>1, <2>2, <2>3, <2>4
<1>5. \A k \in 0 .. Blocks : k \in T
  <2>. HIDE DEF T
  <2>. QED
    BY <1>0, <1>3, <1>4, Induction
<1>6. ASSUME NEW k \in 0 .. Blocks
      PROVE  IF k < e.len THEN w[k] # 0 /\ d.block[w[k]].kind = "data" /\ d.block[w[k]].len = e.len
                          ELSE w[k] = 0
  <2>1. k < e.len => k \in 0 .. e.len - 1
    BY <1>0
  <2>2. ~(k < e.len) => k >= e.len
    BY <1>0
  <2>. QED
    BY <1>2, <1>5, <2>1, <2>2
<1>. QED
  BY <1>6 DEF w

\* A file whose blocks stay as they are stays as it is.
LEMMA FileKept ==
  ASSUME NEW d \in File, NEW d2 \in File, NEW e \in Entry, Readable(d, e),
         \A x \in Chain(d, e.first) : d2.block[x] = d.block[x]
  PROVE  Readable(d2, e) /\ Chain(d2, e.first) = Chain(d, e.first)
<1>. DEFINE w == Walk(d, e.first)
<1>0. e.len \in Nat \ {0} /\ e.first \in Block /\ Blocks \in Nat
  BY Sizes DEF Entry
<1>1. IsWalk(d, e.first, w)
  BY <1>0, WalkIs
<1>2. \A k \in 0 .. Blocks :
        IF k < e.len THEN w[k] # 0 /\ d.block[w[k]].kind = "data" /\ d.block[w[k]].len = e.len
                     ELSE w[k] = 0
  BY WalkEnds
<1>3. \A k \in 0 .. Blocks : w[k] # 0 => w[k] \in Chain(d, e.first)
  BY <1>0, ChainIs
<1>. HIDE DEF w
<1>4. \A k \in 0 .. Blocks : w[k] \in Block /\ (w[k] # 0 => d2.block[w[k]] = d.block[w[k]])
  BY <1>1, <1>3 DEF IsWalk
<1>5. ASSUME NEW k \in 0 .. Blocks PROVE Links(d2)[w[k]] = Links(d)[w[k]]
  <2>1. CASE w[k] = 0
    BY <2>1, LinksTyped
  <2>2. CASE w[k] # 0
    <3>1. d.block[w[k]].kind = "data" /\ d2.block[w[k]] = d.block[w[k]] /\ w[k] \in Block
      BY <1>2, <1>4, <2>2
    <3>2. Links(d)[w[k]] = d.block[w[k]].link /\ Links(d2)[w[k]] = d2.block[w[k]].link
      BY <2>2, <3>1, LinksTyped
    <3>. QED
      BY <3>1, <3>2
  <2>. QED
    BY <2>1, <2>2
<1>6. IsWalk(d2, e.first, w)
  <2>1. \A k \in 1 .. Blocks : k - 1 \in 0 .. Blocks
    BY <1>0
  <2>2. \A k \in 1 .. Blocks : w[k] = Links(d2)[w[k - 1]]
    BY <1>1, <1>5, <2>1 DEF IsWalk
  <2>. QED
    BY <1>1, <2>2 DEF IsWalk
<1>7. Walk(d2, e.first) = w
  BY <1>0, <1>6, WalkUnique
<1>8. Walk(d, e.first) = w
  BY DEF w
<1>9. Chain(d2, e.first) = Chain(d, e.first)
  BY <1>7, <1>8 DEF Chain
<1>10. Readable(d2, e)
  <2>1. e.len <= Blocks /\ w[e.len] = 0
    BY <1>8 DEF Readable
  <2>2. ASSUME NEW k \in 0 .. e.len - 1
        PROVE  w[k] # 0 /\ d2.block[w[k]].kind = "data" /\ d2.block[w[k]].len = e.len
    <3>1. k \in 0 .. Blocks /\ k < e.len
      BY <1>0, <2>1
    <3>. QED
      BY <1>2, <1>4, <3>1
  <2>. QED
    BY <1>7, <2>1, <2>2 DEF Readable
<1>. QED
  BY <1>9, <1>10

\* What the n-th block of a file holds.
DataBlock(c, n, len, k) ==
  [kind |-> "data", name |-> n, len |-> len, link |-> IF k = len THEN 0 ELSE c[k + 1]]

\* The file n lies along the blocks c.
Along(d, n, len, c) ==
  /\ c \in Seq(Block) /\ Len(c) = len
  /\ \A k \in 1 .. len : c[k] # 0 /\ d.block[c[k]] = DataBlock(c, n, len, k)

\* The entry e leads to them.
LeadsAlong(d, e, c) ==
  /\ Readable(d, e)
  /\ \A x : x \in Chain(d, e.first) <=> \E k \in 1 .. Len(c) : c[k] = x

\* A file that was written along a chain of enough blocks can be read.
LEMMA FileWritten ==
  ASSUME NEW d \in File, NEW n, NEW len \in Lens, len <= Blocks, NEW c, Along(d, n, len, c),
         NEW e \in Entry, e.len = len, e.first = c[1]
  PROVE  LeadsAlong(d, e, c)
<1>a. /\ c \in Seq(Block) /\ Len(c) = len
      /\ \A k \in 1 .. len : c[k] # 0
      /\ \A k \in 1 .. len : d.block[c[k]] = DataBlock(c, n, len, k)
  BY DEF Along
<1>. DEFINE f == [k \in 0 .. Blocks |-> IF k < len THEN c[k + 1] ELSE 0]
<1>0. /\ len \in Nat \ {0} /\ Blocks \in Nat /\ 0 \in Block
      /\ \A k \in 1 .. len : c[k] \in Block /\ c[k] # 0
  BY Sizes, <1>a
<1>1. \A k \in 0 .. Blocks : k < len => k + 1 \in 1 .. len
  BY <1>0
<1>2. f \in [0 .. Blocks -> Block]
  BY <1>0, <1>1
<1>3. f[0] = e.first
  BY <1>0
<1>4. ASSUME NEW k \in 1 .. Blocks PROVE f[k] = Links(d)[f[k - 1]]
  <2>0. k - 1 \in 0 .. Blocks /\ k \in 0 .. Blocks /\ k \in Int
    BY <1>0
  <2>1. CASE k - 1 < len
    <3>1. f[k - 1] = c[k] /\ k \in 1 .. len
      BY <1>0, <2>0, <2>1
    <3>2. d.block[c[k]].kind = "data" /\ d.block[c[k]].link = IF k = len THEN 0 ELSE c[k + 1]
      <4>1. d.block[c[k]] = DataBlock(c, n, len, k)
        BY <1>a, <3>1
      <4>. QED
        BY ONLY <4>1 DEF DataBlock
    <3>3. Links(d)[c[k]] = IF k = len THEN 0 ELSE c[k + 1]
      BY <1>0, <3>1, <3>2, LinksTyped
    <3>4. f[k] = IF k = len THEN 0 ELSE c[k + 1]
      BY <1>0, <2>0, <2>1
    <3>. QED
      BY ONLY <3>1, <3>3, <3>4
  <2>2. CASE ~(k - 1 < len)
    <3>1. f[k - 1] = 0 /\ f[k] = 0
      BY <1>0, <2>0, <2>2
    <3>. QED
      BY <3>1, LinksTyped
  <2>. QED
    BY <2>1, <2>2
<1>5. Walk(d, e.first) = f
  <2>. HIDE DEF f
  <2>1. IsWalk(d, e.first, f)
    BY <1>2, <1>3, <1>4 DEF IsWalk
  <2>2. e.first \in Block
    BY DEF Entry
  <2>. QED
    BY <2>1, <2>2, WalkUnique
<1>6. Readable(d, e)
  <2>1. e.len <= Blocks /\ f[e.len] = 0
    BY <1>0
  <2>2. ASSUME NEW k \in 0 .. e.len - 1
        PROVE  f[k] # 0 /\ d.block[f[k]].kind = "data" /\ d.block[f[k]].len = e.len
    <3>1. k + 1 \in 1 .. len /\ f[k] = c[k + 1]
      BY <1>0, <2>2
    <3>2. d.block[c[k + 1]] = DataBlock(c, n, len, k + 1)
      BY <1>a, <3>1
    <3>3. d.block[c[k + 1]].kind = "data" /\ d.block[c[k + 1]].len = len
      BY ONLY <3>2 DEF DataBlock
    <3>. QED
      BY <1>0, <3>1, <3>3
  <2>. HIDE DEF f
  <2>. QED
    BY <1>5, <2>1, <2>2 DEF Readable
<1>. HIDE DEF f
<1>7. \A x : x \in Chain(d, e.first) <=> \E k \in 1 .. len : c[k] = x
  <2>1. e.first \in Block
    BY DEF Entry
  <2>2. \A x : x \in Chain(d, e.first) <=> x # 0 /\ \E k \in 0 .. Blocks : f[k] = x
    BY <1>5, <2>1, ChainIs
  <2>3. ASSUME NEW k \in 1 .. len PROVE c[k] # 0 /\ \E j \in 0 .. Blocks : f[j] = c[k]
    <3>1. k - 1 \in 0 .. Blocks /\ f[k - 1] = c[k]
      BY <1>0 DEF f
    <3>. QED
      BY <1>0, <3>1
  <2>4. ASSUME NEW k \in 0 .. Blocks, f[k] # 0 PROVE \E j \in 1 .. len : f[k] = c[j]
    <3>1. k < len /\ f[k] = c[k + 1]
      BY <2>4 DEF f
    <3>. QED
      BY <1>1, <3>1
  <2>. QED
    BY <2>2, <2>3, <2>4
<1>. QED
  BY <1>6, <1>7, <1>a DEF LeadsAlong

-----------------------------------------------------------------------------
(***************************************************************************)
(* What a sequence of writes leaves.                                       *)
(***************************************************************************)

\* w is one of the writes s.
In(w, s) == \E k \in 1 .. Len(s) : s[k] = w

\* A set of positions has a last one.
LEMMA MaxIs ==
  ASSUME NEW n \in Nat, NEW K, K \subseteq 1 .. n, K # {}
  PROVE  Max(K) \in K /\ \A k \in K : k <= Max(K)
<1>. DEFINE T == {n - k : k \in K}
<1>1. T \subseteq 0 .. n /\ T # {}
  <2>1. \A k \in 1 .. n : n - k \in 0 .. n
    BY ONLY n \in Nat
  <2>2. \A k \in K : n - k \in 0 .. n
    BY <2>1
  <2>. QED
    BY <2>2
<1>2. PICK x \in T : \A y \in T : x <= y
  BY ONLY <1>1, n \in Nat, Least
<1>3. PICK m \in K : x = n - m
  BY <1>2
<1>4. \A k \in K : k \in Int /\ n - k \in T
  <2>1. \A k \in K : k \in Int
    OBVIOUS
  <2>2. \A k \in K : n - k \in T
    OBVIOUS
  <2>. QED
    BY ONLY <2>1, <2>2
<1>. HIDE DEF T
<1>5. \A k \in K : m >= k
  BY <1>2, <1>3, <1>4
<1>6. Max(K) \in K /\ \A k \in K : Max(K) >= k
  BY <1>5 DEF Max
<1>. QED
  BY <1>4, <1>6

\* A set of numbers has a first one.
LEMMA MinIs ==
  ASSUME NEW n \in Nat, NEW K, K \subseteq 0 .. n, K # {}
  PROVE  Min(K) \in K /\ \A k \in K : Min(K) <= k
<1>1. PICK m \in K : \A k \in K : m <= k
  BY Least
<1>. QED
  BY <1>1 DEF Min

\* What is at a place that nothing was written to.
LEMMA NotWritten ==
  ASSUME NEW s \in Seq(BlockWrite), NEW piece, NEW at, NEW old,
         \A w : In(w, s) => ~(w.part = piece /\ w.at = at)
  PROVE  LastWrite(s, piece, at, old) = old
<1>1. DOMAIN s = 1 .. Len(s)
  OBVIOUS
<1>2. {k \in DOMAIN s : s[k].part = piece /\ s[k].at = at} = {}
  BY <1>1 DEF In
<1>. QED
  BY <1>2 DEF LastWrite

\* The k-th write of s is the last one to a place.
IsLast(s, piece, at, k) ==
  /\ s[k].part = piece /\ s[k].at = at
  /\ \A j \in 1 .. Len(s) : s[j].part = piece /\ s[j].at = at => j <= k

\* What is at a place that something was written to.
LEMMA LastIs ==
  ASSUME NEW s \in Seq(BlockWrite), NEW piece, NEW at, NEW old,
         NEW w, In(w, s), w.part = piece, w.at = at
  PROVE  \E k \in 1 .. Len(s) :
            IsLast(s, piece, at, k) /\ LastWrite(s, piece, at, old) = s[k].value
<1>. DEFINE K == {k \in DOMAIN s : s[k].part = piece /\ s[k].at = at}
<1>1. DOMAIN s = 1 .. Len(s) /\ Len(s) \in Nat
  OBVIOUS
<1>2. K \subseteq 1 .. Len(s) /\ K # {}
  BY <1>1 DEF In
<1>3. Max(K) \in K /\ \A k \in K : k <= Max(K)
  <2>. HIDE DEF K
  <2>. QED
    BY ONLY <1>1, <1>2, MaxIs
<1>4. LastWrite(s, piece, at, old) = s[Max(K)].value
  BY <1>2 DEF LastWrite
<1>5. \A j \in 1 .. Len(s) : s[j].part = piece /\ s[j].at = at => j <= Max(K)
  BY <1>1, <1>3
<1>6. Max(K) \in 1 .. Len(s) /\ s[Max(K)].part = piece /\ s[Max(K)].at = at
  BY <1>1, <1>3
<1>. HIDE DEF K
<1>7. IsLast(s, piece, at, Max(K))
  BY ONLY <1>5, <1>6 DEF IsLast
<1>. QED
  BY <1>4, <1>6, <1>7

\* All that was written to a place is v.
OnlyWrites(s, piece, at, v) ==
  /\ \E w : In(w, s) /\ w.part = piece /\ w.at = at
  /\ \A w : In(w, s) /\ w.part = piece /\ w.at = at => w.value = v

\* Then v is there.
LEMMA WrittenAlike ==
  ASSUME NEW s \in Seq(BlockWrite), NEW piece, NEW at, NEW old, NEW v,
         OnlyWrites(s, piece, at, v)
  PROVE  LastWrite(s, piece, at, old) = v
<1>a. PICK w : In(w, s) /\ w.part = piece /\ w.at = at
  BY DEF OnlyWrites
<1>b. \A u : In(u, s) /\ u.part = piece /\ u.at = at => u.value = v
  BY DEF OnlyWrites
<1>1. PICK k \in 1 .. Len(s) : IsLast(s, piece, at, k) /\ LastWrite(s, piece, at, old) = s[k].value
  BY <1>a, LastIs
<1>2. In(s[k], s)
  BY DEF In
<1>. QED
  BY <1>1, <1>2, <1>b DEF IsLast

\* The very last write counts.
LEMMA WrittenLast ==
  ASSUME NEW s \in Seq(BlockWrite), NEW w \in BlockWrite, NEW old
  PROVE  LastWrite(s \o <<w>>, w.part, w.at, old) = w.value
<1>. DEFINE t == s \o <<w>>
            n == Len(s) + 1
<1>1. t \in Seq(BlockWrite) /\ Len(t) = n /\ t[n] = w /\ n \in 1 .. Len(t)
  OBVIOUS
<1>. HIDE DEF t, n
<1>2. In(w, t)
  BY <1>1 DEF In
<1>a. PICK piece, at : w.part = piece /\ w.at = at
  OBVIOUS
<1>b. t \in Seq(BlockWrite)
  BY <1>1
<1>3. PICK k \in 1 .. Len(t) : IsLast(t, piece, at, k) /\ LastWrite(t, piece, at, old) = t[k].value
  BY ONLY <1>b, <1>2, <1>a, LastIs
<1>4. n <= k /\ k <= n
  BY <1>1, <1>3, <1>a DEF IsLast
<1>5. k = n
  BY ONLY <1>1, <1>4, k \in 1 .. Len(t)
<1>. QED
  BY <1>1, <1>3, <1>5, <1>a DEF t

\* The elements of joined sequences.
LEMMA InJoined ==
  ASSUME NEW X, NEW s \in Seq(X), NEW t \in Seq(X), NEW x
  PROVE  In(x, s \o t) <=> In(x, s) \/ In(x, t)
<1>1. /\ Len(s) \in Nat /\ Len(t) \in Nat /\ Len(s \o t) = Len(s) + Len(t)
      /\ \A i \in 1 .. Len(s) + Len(t) : (s \o t)[i] = IF i <= Len(s) THEN s[i] ELSE t[i - Len(s)]
  BY ConcatProperties
<1>2. ASSUME In(x, s \o t) PROVE In(x, s) \/ In(x, t)
  <2>1. PICK i \in 1 .. Len(s) + Len(t) : (s \o t)[i] = x
    BY <1>1, <1>2 DEF In
  <2>2. CASE i <= Len(s)
    <3>1. i \in 1 .. Len(s) /\ s[i] = x
      BY <1>1, <2>1, <2>2
    <3>. QED
      BY <3>1 DEF In
  <2>3. CASE ~(i <= Len(s))
    <3>1. i - Len(s) \in 1 .. Len(t) /\ t[i - Len(s)] = x
      BY <1>1, <2>1, <2>3
    <3>. QED
      BY <3>1 DEF In
  <2>. QED
    BY <2>2, <2>3
<1>3. ASSUME In(x, s) PROVE In(x, s \o t)
  <2>1. PICK i \in 1 .. Len(s) : s[i] = x
    BY <1>3 DEF In
  <2>2. i \in 1 .. Len(s) + Len(t) /\ (s \o t)[i] = x
    BY <1>1, <2>1
  <2>. QED
    BY <1>1, <2>2 DEF In
<1>4. ASSUME In(x, t) PROVE In(x, s \o t)
  <2>1. PICK i \in 1 .. Len(t) : t[i] = x
    BY <1>4 DEF In
  <2>2. Len(s) + i \in 1 .. Len(s) + Len(t) /\ ~(Len(s) + i <= Len(s)) /\ (Len(s) + i) - Len(s) = i
    BY <1>1
  <2>3. (s \o t)[Len(s) + i] = x
    BY <1>1, <2>1, <2>2
  <2>. QED
    BY <1>1, <2>2, <2>3 DEF In
<1>. QED
  BY <1>2, <1>3, <1>4

\* After writes of the right shapes a file has its shape.
LEMMA AfterTyped ==
  ASSUME NEW d \in File, NEW s \in Seq(BlockWrite)
  PROVE  /\ After(d, s) \in File
         /\ After(d, s).header = LastWrite(s, "header", 0, d.header)
         /\ After(d, s).bam = LastWrite(s, "bam", 1, d.bam)
         /\ \A b \in Block : After(d, s).block[b] = LastWrite(s, "block", b, d.block[b])
<1>0. \A w \in BlockWrite : /\ w.part = "header" => w.value \in Header
                            /\ w.part = "bam" => w.value \in SUBSET Block
                            /\ w.part = "block" => w.value \in Content
  BY DEF BlockWrite
<1>1. d.header \in Header /\ d.bam \in SUBSET Block /\ \A b \in Block : d.block[b] \in Content
  BY DEF File
<1>2. ASSUME NEW piece, NEW at, NEW old
      PROVE  \/ LastWrite(s, piece, at, old) = old
             \/ \E w \in BlockWrite : w.part = piece /\ LastWrite(s, piece, at, old) = w.value
  <2>1. CASE \E w : In(w, s) /\ w.part = piece /\ w.at = at
    <3>1. PICK w : In(w, s) /\ w.part = piece /\ w.at = at
      BY <2>1
    <3>2. PICK k \in 1 .. Len(s) : IsLast(s, piece, at, k) /\ LastWrite(s, piece, at, old) = s[k].value
      BY <3>1, LastIs
    <3>3. s[k] \in BlockWrite
      OBVIOUS
    <3>. QED
      BY <3>2, <3>3 DEF IsLast
  <2>2. CASE ~ \E w : In(w, s) /\ w.part = piece /\ w.at = at
    BY <2>2, NotWritten
  <2>. QED
    BY <2>1, <2>2
<1>3. LastWrite(s, "header", 0, d.header) \in Header
  BY <1>0, <1>1, <1>2
<1>4. LastWrite(s, "bam", 1, d.bam) \in SUBSET Block
  BY <1>0, <1>1, <1>2
<1>5. \A b \in Block : LastWrite(s, "block", b, d.block[b]) \in Content
  BY <1>0, <1>1, <1>2
<1>. QED
  BY <1>3, <1>4, <1>5 DEF After, File

-----------------------------------------------------------------------------
(***************************************************************************)
(* The archive fits together after a file was added, removed, renamed.     *)
(***************************************************************************)

\* A place is an index and a slot.
LEMMA PlaceIs ==
  ASSUME NEW h \in Header, NEW p \in Used(h)
  PROVE  /\ p[1] \in Index /\ p[2] \in Slot /\ p = <<p[1], p[2]>>
         /\ p[2] \in h[p[1]].used
         /\ h[p[1]].block \in Block /\ h[p[1]].used \in SUBSET Slot /\ h[p[1]].used # {}
<1>1. p \in Index \X Slot /\ p[2] \in h[p[1]].used
  BY DEF Used
<1>2. p[1] \in Index /\ p[2] \in Slot /\ p = <<p[1], p[2]>>
  BY <1>1
<1>3. h[p[1]] \in [block : Block, used : SUBSET Slot]
  BY <1>2 DEF Header
<1>. QED
  BY <1>1, <1>2, <1>3

\* What is known of a file of an archive that fits together.
LEMMA SoundFile ==
  ASSUME NEW d \in File, NEW h \in Header, NEW map \in SUBSET Block, Sound(d, h, map),
         NEW p \in Used(h)
  PROVE  /\ EntryAt(d, h, p) \in Entry
         /\ EntryAt(d, h, p) = d.block[h[p[1]].block].entry[p[2]]
         /\ d.block[h[p[1]].block].kind = "dir"
         /\ h[p[1]].block # 0 /\ h[p[1]].block \in map \ Reserved
         /\ h[p[1]].block \in DirBlocksOf(h)
         /\ Readable(d, EntryAt(d, h, p))
         /\ DataOf(d, h, p) \subseteq map \ (Reserved \cup DirBlocksOf(h))
<1>1. /\ p[1] \in Index /\ p[2] \in Slot /\ h[p[1]].block \in Block /\ h[p[1]].used # {}
  BY PlaceIs
<1>2. h[p[1]].block # 0 /\ d.block[h[p[1]].block].kind = "dir"
  BY <1>1 DEF Sound, DirSound
<1>3. h[p[1]].block \in DirBlocksOf(h)
  BY <1>1, <1>2 DEF DirBlocksOf
<1>4. h[p[1]].block \in map \ Reserved
  BY <1>3 DEF Sound, DirSound
<1>5. EntryAt(d, h, p) = d.block[h[p[1]].block].entry[p[2]]
  BY <1>2 DEF EntryAt
<1>6. d.block[h[p[1]].block].entry \in [Slot -> Entry \cup {NoEntry}]
  BY <1>1, <1>2, Contents
<1>7. /\ EntryAt(d, h, p) # NoEntry /\ Readable(d, EntryAt(d, h, p))
      /\ DataOf(d, h, p) \subseteq map \ (Reserved \cup DirBlocksOf(h))
  BY DEF Sound, FilesSound
<1>8. EntryAt(d, h, p) \in Entry
  BY <1>1, <1>5, <1>6, <1>7
<1>. QED
  BY <1>2, <1>3, <1>4, <1>5, <1>7, <1>8

\* The blocks of a file in an archive that fits together.
LEMMA DataBlocks ==
  ASSUME NEW d \in File, NEW h \in Header, NEW map \in SUBSET Block, Sound(d, h, map),
         NEW p \in Used(h), NEW x \in DataOf(d, h, p)
  PROVE  x \in map /\ x \in Block /\ x \notin Reserved /\ x \notin DirBlocksOf(h) /\ x # 0
<1>1. DataOf(d, h, p) \subseteq map \ (Reserved \cup DirBlocksOf(h))
  BY SoundFile
<1>. QED
  BY <1>1 DEF Reserved

\* An archive with the same blocks is as good.
LEMMA SameBlocks ==
  ASSUME NEW d \in File, NEW d2 \in File, d2.block = d.block,
         NEW h \in Header, NEW map \in SUBSET Block, Sound(d, h, map)
  PROVE  Sound(d2, h, map)
<1>1. DirSound(d2, h, map)
  BY DEF Sound, DirSound
<1>2. ASSUME NEW p \in Used(h)
      PROVE  /\ EntryAt(d2, h, p) = EntryAt(d, h, p)
             /\ EntryAt(d2, h, p) # NoEntry
             /\ Readable(d2, EntryAt(d2, h, p))
             /\ DataOf(d2, h, p) = DataOf(d, h, p)
  <2>1. EntryAt(d2, h, p) = EntryAt(d, h, p)
    BY DEF EntryAt
  <2>2. EntryAt(d, h, p) \in Entry /\ Readable(d, EntryAt(d, h, p)) /\ EntryAt(d, h, p) # NoEntry
    BY SoundFile DEF Sound, FilesSound
  <2>3. /\ Readable(d2, EntryAt(d, h, p))
        /\ Chain(d2, EntryAt(d, h, p).first) = Chain(d, EntryAt(d, h, p).first)
    BY <2>2, FileKept
  <2>. QED
    BY <2>1, <2>2, <2>3 DEF DataOf
<1>3. FilesSound(d2, h, map)
  BY <1>2 DEF Sound, FilesSound
<1>. QED
  BY <1>1, <1>3 DEF Sound

\* There is room for an entry of the archive d, h, map in a slot of index i,
\* whose block is at and has this content, or is a free one.
Room(d, h, map, i, at, slot, content) ==
  /\ i \in Index /\ slot \in Slot \ h[i].used /\ at \in Block \ Reserved /\ content \in Content
  /\ \/ h[i].block = at /\ content = d.block[at]
     \/ h[i].block = 0 /\ at \notin map

\* The header h with that entry.
HeaderWith(h, i, at, slot) == [h EXCEPT ![i] = [block |-> at, used |-> @.used \cup {slot}]]

\* The file d2 has the entry e there, and all others where d has them.
EntryStands(d, h, i, slot, e, d2, h2) ==
  /\ \A p \in Used(h2) : p \in Used(h) \/ p = <<i, slot>>
  /\ \A p \in Used(h) : EntryAt(d2, h2, p) = EntryAt(d, h, p)
  /\ EntryAt(d2, h2, <<i, slot>>) = e

\* What a header is with one entry more.
LEMMA HeaderWithIs ==
  ASSUME NEW h \in Header, NEW i \in Index, NEW at \in Block, NEW slot \in Slot
  PROVE  /\ HeaderWith(h, i, at, slot) \in Header
         /\ HeaderWith(h, i, at, slot)[i].block = at
         /\ HeaderWith(h, i, at, slot)[i].used = h[i].used \cup {slot}
         /\ \A j \in Index : j # i => HeaderWith(h, i, at, slot)[j] = h[j]
<1>1. h[i].used \subseteq Slot
  BY DEF Header
<1>. QED
  BY <1>1 DEF HeaderWith, Header

\* The new entry stands at its place, and all others where they stood.
LEMMA EntryAdded ==
  ASSUME NEW d \in File, NEW h \in Header, NEW map \in SUBSET Block, Sound(d, h, map),
         NEW e \in Entry, NEW i, NEW at, NEW slot, NEW content,
         Room(d, h, map, i, at, slot, content),
         NEW d2 \in File, d2.block[at] = DirBlockWith(content, slot, e),
         \A b \in map : b # at => d2.block[b] = d.block[b]
  PROVE  EntryStands(d, h, i, slot, e, d2, HeaderWith(h, i, at, slot))
<1>. DEFINE q == <<i, slot>>
            h2 == HeaderWith(h, i, at, slot)
<1>0. /\ i \in Index /\ slot \in Slot \ h[i].used /\ at \in Block \ Reserved /\ content \in Content
      /\ \/ h[i].block = at /\ content = d.block[at]
         \/ h[i].block = 0 /\ at \notin map
      /\ at # 0
  BY DEF Room, Reserved
<1>1. /\ h2 \in Header /\ h2[i].block = at /\ h2[i].used = h[i].used \cup {slot}
      /\ \A j \in Index : j # i => h2[j] = h[j]
  BY <1>0, HeaderWithIs
<1>. HIDE DEF h2
<1>3. \A p \in Used(h2) : p \in Used(h) \/ p = q
  <2>. SUFFICES ASSUME NEW p \in Used(h2), p # q PROVE p \in Used(h)
    OBVIOUS
  <2>1. p[1] \in Index /\ p[2] \in Slot /\ p = <<p[1], p[2]>> /\ p[2] \in h2[p[1]].used
    BY <1>1, PlaceIs
  <2>2. p[2] \in h[p[1]].used
    <3>1. CASE p[1] = i
      BY <1>1, <2>1, <3>1
    <3>2. CASE p[1] # i
      BY <1>1, <2>1, <3>2
    <3>. QED
      BY <3>1, <3>2
  <2>3. p \in Index \X Slot
    BY ONLY <2>1
  <2>. QED
    BY <2>2, <2>3 DEF Used
<1>5. ASSUME NEW j \in Index, h[j].block # 0, j # i
      PROVE  /\ h[j].block # at /\ h[j].block \in Block
             /\ d2.block[h[j].block] = d.block[h[j].block]
  <2>1. h[j].block \in DirBlocksOf(h) /\ h[j].block \in Block
    BY <1>5 DEF DirBlocksOf, Header
  <2>2. h[j].block \in map
    BY <2>1 DEF Sound, DirSound
  <2>3. h[j].block # at
    <3>1. CASE h[i].block = at
      BY <1>0, <1>5, <3>1 DEF Sound, DirSound
    <3>2. CASE at \notin map
      BY <2>2, <3>2
    <3>. QED
      BY <1>0, <3>1, <3>2
  <2>. QED
    BY <2>1, <2>2, <2>3
<1>6. /\ d2.block[at].kind = "dir" /\ d2.block[at].entry[slot] = e
      /\ \A s \in Slot : s # slot /\ h[i].block = at /\ d.block[at].kind = "dir" =>
            d2.block[at].entry[s] = d.block[at].entry[s]
  <2>1. slot \in Slot /\ d2.block[at] = DirBlockWith(content, slot, e)
    BY <1>0
  <2>2. h[i].block = at => content = d.block[at]
    BY <1>0
  <2>. QED
    BY ONLY <2>1, <2>2 DEF DirBlockWith
<1>7. ASSUME NEW p \in Used(h)
      PROVE  EntryAt(d2, h2, p) = EntryAt(d, h, p)
  <2>1. /\ p[1] \in Index /\ p[2] \in Slot /\ p[2] \in h[p[1]].used
        /\ h[p[1]].block # 0 /\ d.block[h[p[1]].block].kind = "dir"
        /\ EntryAt(d, h, p) = d.block[h[p[1]].block].entry[p[2]]
    BY SoundFile, PlaceIs
  <2>2. CASE p[1] = i
    <3>1. h[i].block = at /\ p[2] # slot
      BY <1>0, <2>1, <2>2
    <3>2. d2.block[at].entry[p[2]] = d.block[at].entry[p[2]]
      BY <1>6, <2>1, <2>2, <3>1
    <3>. QED
      BY <1>1, <1>6, <2>1, <2>2, <3>1, <3>2 DEF EntryAt
  <2>3. CASE p[1] # i
    <3>1. d2.block[h[p[1]].block] = d.block[h[p[1]].block] /\ h2[p[1]] = h[p[1]]
      BY <1>1, <1>5, <2>1, <2>3
    <3>. QED
      BY <2>1, <3>1 DEF EntryAt
  <2>. QED
    BY <2>2, <2>3
<1>8. EntryAt(d2, h2, q) = e
  <2>1. q[1] = i /\ q[2] = slot
    OBVIOUS
  <2>2. h2[q[1]].block = at
    BY <1>1, <2>1
  <2>. HIDE DEF q
  <2>. QED
    BY <1>6, <2>1, <2>2 DEF EntryAt
<1>. QED
  BY <1>3, <1>7, <1>8 DEF EntryStands, h2, q

\* A file more.
LEMMA FileAdded ==
  ASSUME NEW d \in File, NEW h \in Header, NEW map \in SUBSET Block, Sound(d, h, map),
         NEW e \in Entry, NEW len \in Lens, len <= Blocks, e.len = len, NEW n, NEW c, e.first = c[1],
         NEW i, NEW at, NEW slot, NEW content, Room(d, h, map, i, at, slot, content),
         NEW d2 \in File, d2.block[at] = DirBlockWith(content, slot, e),
         Along(d2, n, len, c),
         \A k \in 1 .. len : c[k] \notin map /\ c[k] # at,
         \A b \in map : b # at => d2.block[b] = d.block[b]
  PROVE  Sound(d2, HeaderWith(h, i, at, slot), map \cup {at} \cup {c[k] : k \in 1 .. len})
<1>. DEFINE new == {c[k] : k \in 1 .. len}
            map2 == map \cup {at} \cup new
            q == <<i, slot>>
            h2 == HeaderWith(h, i, at, slot)
<1>a. /\ i \in Index /\ slot \in Slot \ h[i].used /\ at \in Block \ Reserved /\ content \in Content
      /\ \/ h[i].block = at /\ content = d.block[at]
         \/ h[i].block = 0 /\ at \notin map
      /\ at # 0
  BY DEF Room, Reserved
<1>0. /\ len \in Nat \ {0} /\ Blocks \in Nat /\ 0 \in Block
      /\ Reserved \subseteq map /\ 0 \in Reserved /\ 1 \in Reserved
      /\ c \in Seq(Block) /\ Len(c) = len
  BY Sizes DEF Reserved, Sound, DirSound, Along
<1>1. /\ h2 \in Header /\ h2[i].block = at /\ h2[i].used = h[i].used \cup {slot}
      /\ \A j \in Index : j # i => h2[j] = h[j]
  BY <1>a, HeaderWithIs
<1>2. e # NoEntry
  <2>1. e \in [name : Names, len : Lens, first : Nat]
    BY Sizes DEF Entry
  <2>. QED
    BY <2>1, NoEntryAssumption
<1>3. /\ \A p \in Used(h2) : p \in Used(h) \/ p = q
      /\ \A p \in Used(h) : EntryAt(d2, h2, p) = EntryAt(d, h, p)
      /\ EntryAt(d2, h2, q) = e
  <2>1. EntryStands(d, h, i, slot, e, d2, h2)
    BY EntryAdded
  <2>. HIDE DEF h2
  <2>. QED
    BY <2>1 DEF EntryStands
<1>. HIDE DEF h2
<1>5. ASSUME NEW j \in Index, h[j].block # 0, j # i
      PROVE  /\ h[j].block # at /\ h[j].block \in Block /\ h[j].block \in map
             /\ d2.block[h[j].block] = d.block[h[j].block]
  <2>1. h[j].block \in DirBlocksOf(h) /\ h[j].block \in Block
    BY <1>5 DEF DirBlocksOf, Header
  <2>2. h[j].block \in map
    BY <2>1 DEF Sound, DirSound
  <2>3. h[j].block # at
    <3>1. CASE h[i].block = at
      BY <1>a, <1>5, <3>1 DEF Sound, DirSound
    <3>2. CASE at \notin map
      BY <2>2, <3>2
    <3>. QED
      BY <1>a, <3>1, <3>2
  <2>. QED
    BY <2>1, <2>2, <2>3
<1>6. d2.block[at].kind = "dir"
  BY DEF DirBlockWith
<1>8. ASSUME NEW p \in Used(h)
      PROVE  /\ EntryAt(d2, h2, p) # NoEntry
             /\ Readable(d2, EntryAt(d2, h2, p))
             /\ DataOf(d2, h2, p) = DataOf(d, h, p)
             /\ \A x \in DataOf(d, h, p) : x \in map /\ x \notin Reserved /\ x # at
                                           /\ x \notin DirBlocksOf(h) /\ x \notin new
  <2>1. /\ EntryAt(d, h, p) \in Entry /\ Readable(d, EntryAt(d, h, p)) /\ EntryAt(d, h, p) # NoEntry
    BY SoundFile DEF Sound, FilesSound
  <2>2. ASSUME NEW x \in DataOf(d, h, p)
        PROVE  /\ x \in map /\ x \notin Reserved /\ x # at /\ x \notin DirBlocksOf(h) /\ x \notin new
               /\ d2.block[x] = d.block[x]
    <3>1. x \in map /\ x \in Block /\ x \notin Reserved /\ x \notin DirBlocksOf(h)
      BY DataBlocks
    <3>2. x # at
      <4>1. h[i].block = at => at \in DirBlocksOf(h)
        BY <1>a DEF DirBlocksOf
      <4>. QED
        BY <1>a, <3>1, <4>1
    <3>3. x \notin new
      BY <3>1
    <3>. QED
      BY <3>1, <3>2, <3>3
  <2>3. /\ Readable(d2, EntryAt(d, h, p))
        /\ Chain(d2, EntryAt(d, h, p).first) = Chain(d, EntryAt(d, h, p).first)
    BY <2>1, <2>2, FileKept DEF DataOf
  <2>. QED
    BY <1>3, <2>1, <2>2, <2>3 DEF DataOf
<1>9. EntryAt(d2, h2, q) = e /\ Readable(d2, e) /\ DataOf(d2, h2, q) = new
  <2>1. EntryAt(d2, h2, q) = e
    BY <1>3
  <2>2. Readable(d2, e) /\ Chain(d2, e.first) = new
    <3>1. Along(d2, n, len, c)
      OBVIOUS
    <3>2. e \in Entry /\ e.len = len /\ e.first = c[1]
      OBVIOUS
    <3>3. d2 \in File /\ len \in Lens /\ len <= Blocks
      OBVIOUS
    <3>. QED
      <4>1. LeadsAlong(d2, e, c)
        BY ONLY <3>1, <3>2, <3>3, FileWritten
      <4>2. \A x : x \in Chain(d2, e.first) <=> \E k \in 1 .. len : c[k] = x
        BY <1>0, <4>1 DEF LeadsAlong
      <4>3. \A x : x \in new <=> \E k \in 1 .. len : c[k] = x
        OBVIOUS
      <4>4. Readable(d2, e)
        BY ONLY <4>1 DEF LeadsAlong
      <4>. QED
        BY ONLY <4>2, <4>3, <4>4
  <2>. QED
    BY <2>1, <2>2 DEF DataOf
<1>10. DirBlocksOf(h2) \subseteq DirBlocksOf(h) \cup {at}
  <2>. SUFFICES ASSUME NEW j \in Index, h2[j].block # 0
                PROVE  h2[j].block \in DirBlocksOf(h) \cup {at}
    BY DEF DirBlocksOf
  <2>. QED
    BY <1>1 DEF DirBlocksOf
<1>11. \A x \in new : x \notin Reserved /\ x \notin map /\ x # at /\ x \notin DirBlocksOf(h)
  BY <1>0, <1>a DEF Sound, DirSound
<1>. HIDE DEF new, q
<1>12. DirSound(d2, h2, map2)
  <2>1. Reserved \subseteq map2
    BY <1>0
  <2>2. DirBlocksOf(h2) \subseteq map2 \ Reserved
    BY <1>10, <1>a DEF Sound, DirSound
  <2>3. ASSUME NEW j \in Index, h2[j].used # {}
        PROVE  h2[j].block # 0 /\ d2.block[h2[j].block].kind = "dir"
    <3>1. CASE j = i
      BY <1>1, <1>6, <1>a, <3>1
    <3>2. CASE j # i
      <4>1. h[j].used # {} /\ h2[j] = h[j]
        BY <1>1, <2>3, <3>2
      <4>2. h[j].block # 0 /\ d.block[h[j].block].kind = "dir"
        BY <4>1 DEF Sound, DirSound
      <4>. QED
        BY <1>5, <3>2, <4>1, <4>2
    <3>. QED
      BY <3>1, <3>2
  <2>4. ASSUME NEW j \in Index, NEW k \in Index, h2[j].block = h2[k].block, j # k
        PROVE  h2[j].block = 0
    <3>1. CASE j = i
      BY <1>1, <1>5, <1>a, <2>4, <3>1
    <3>2. CASE k = i
      BY <1>1, <1>5, <1>a, <2>4, <3>2
    <3>3. CASE j # i /\ k # i
      BY <1>1, <2>4, <3>3 DEF Sound, DirSound
    <3>. QED
      BY <3>1, <3>2, <3>3
  <2>. QED
    BY <2>1, <2>2, <2>3, <2>4 DEF DirSound
<1>13. ASSUME NEW p \in Used(h2)
       PROVE  /\ EntryAt(d2, h2, p) # NoEntry
              /\ Readable(d2, EntryAt(d2, h2, p))
              /\ DataOf(d2, h2, p) \subseteq map2 \ (Reserved \cup DirBlocksOf(h2))
  <2>1. CASE p \in Used(h)
    BY <1>8, <1>10, <2>1
  <2>2. CASE p = q
    BY <1>2, <1>9, <1>10, <1>11, <2>2
  <2>. QED
    BY <1>3, <2>1, <2>2
<1>14. ASSUME NEW p \in Used(h2), NEW r \in Used(h2), p # r
       PROVE  DataOf(d2, h2, p) \cap DataOf(d2, h2, r) = {}
  <2>1. CASE p \in Used(h) /\ r \in Used(h)
    BY <1>8, <1>14, <2>1 DEF Sound, FilesSound
  <2>2. CASE p = q /\ r \in Used(h)
    BY <1>8, <1>9, <2>2
  <2>3. CASE p \in Used(h) /\ r = q
    BY <1>8, <1>9, <2>3
  <2>. QED
    BY <1>3, <1>14, <2>1, <2>2, <2>3
<1>15. FilesSound(d2, h2, map2)
  BY <1>13, <1>14 DEF FilesSound
<1>. QED
  BY <1>12, <1>15 DEF Sound, new, h2

\* The header h without the entry p, and the directory block given up then.
Without(h, p) ==
  LET left == h[p[1]].used \ {p[2]}
  IN  [h EXCEPT ![p[1]] = IF left = {} THEN NoDirBlock ELSE [@ EXCEPT !.used = left]]
GivenUp(h, p) == IF Without(h, p)[p[1]] = NoDirBlock THEN {h[p[1]].block} ELSE {}

\* What the header is then.
LEMMA WithoutIs ==
  ASSUME NEW h \in Header, NEW p \in Used(h)
  PROVE  /\ Without(h, p) \in Header
         /\ \A j \in Index : j # p[1] => Without(h, p)[j] = h[j]
         /\ \/ /\ Without(h, p)[p[1]] = NoDirBlock
               /\ GivenUp(h, p) = {h[p[1]].block}
            \/ /\ Without(h, p)[p[1]].block = h[p[1]].block
               /\ Without(h, p)[p[1]].used = h[p[1]].used \ {p[2]}
               /\ GivenUp(h, p) = {}
<1>. DEFINE i == p[1]
            left == h[i].used \ {p[2]}
            new == IF left = {} THEN NoDirBlock ELSE [h[i] EXCEPT !.used = left]
<1>1. i \in Index /\ h[i] \in [block : Block, used : SUBSET Slot] /\ left \subseteq Slot
  BY PlaceIs DEF Header
<1>2. Without(h, p) = [h EXCEPT ![i] = new]
  BY DEF Without
<1>3. NoDirBlock \in [block : Block, used : SUBSET Slot] /\ NoDirBlock.used = {}
  BY Sizes DEF NoDirBlock
<1>4. left # {} => new.block = h[i].block /\ new.used = left /\ new # NoDirBlock
  BY <1>1, <1>3
<1>5. new \in [block : Block, used : SUBSET Slot]
  BY <1>1, <1>3
<1>6. left = {} => new = NoDirBlock
  OBVIOUS
<1>. HIDE DEF new
<1>7. Without(h, p)[i] = new /\ \A j \in Index : j # i => Without(h, p)[j] = h[j]
  BY <1>1, <1>2 DEF Header
<1>8. Without(h, p) \in Header
  BY <1>1, <1>2, <1>5 DEF Header
<1>. QED
  BY <1>4, <1>6, <1>7, <1>8 DEF GivenUp

\* A file less.
LEMMA FileRemoved ==
  ASSUME NEW d \in File, NEW h \in Header, NEW map \in SUBSET Block, Sound(d, h, map),
         NEW p \in Used(h), NEW d2 \in File, d2.block = d.block
  PROVE  Sound(d2, Without(h, p), map \ (GivenUp(h, p) \cup DataOf(d, h, p)))
<1>. DEFINE i == p[1]
            h2 == Without(h, p)
            gone == DataOf(d, h, p)
            map2 == map \ (GivenUp(h, p) \cup gone)
<1>1. /\ h2 \in Header
      /\ \A j \in Index : j # i => h2[j] = h[j]
      /\ \/ h2[i] = NoDirBlock /\ GivenUp(h, p) = {h[i].block}
         \/ /\ h2[i].block = h[i].block /\ h2[i].used = h[i].used \ {p[2]}
            /\ GivenUp(h, p) = {}
  BY WithoutIs
<1>2. /\ i \in Index /\ p[2] \in Slot /\ p = <<i, p[2]>> /\ h[i].block # 0 /\ h[i].block \in map \ Reserved
  BY PlaceIs, SoundFile
<1>3. NoDirBlock.block = 0 /\ NoDirBlock.used = {}
  BY DEF NoDirBlock
<1>. HIDE DEF h2
<1>4. \A x \in gone : x \in map /\ x \notin Reserved /\ x \notin DirBlocksOf(h)
  BY DataBlocks
<1>. HIDE DEF i, gone
<1>5. \A x \in GivenUp(h, p) : x = h[i].block
  BY <1>1
<1>6. ASSUME NEW r \in Used(h2)
      PROVE  /\ r \in Used(h) /\ r # p /\ h2[r[1]].block = h[r[1]].block
             /\ EntryAt(d2, h2, r) = EntryAt(d, h, r)
  <2>1. r[1] \in Index /\ r[2] \in Slot /\ r = <<r[1], r[2]>> /\ r[2] \in h2[r[1]].used
    BY <1>1, PlaceIs
  <2>2. r[2] \in h[r[1]].used /\ r # p /\ h2[r[1]].block = h[r[1]].block
    <3>1. CASE r[1] = i
      <4>1. h2[i].used # {} /\ h2[i] # NoDirBlock
        BY <1>3, <2>1, <3>1
      <4>2. h2[i].block = h[i].block /\ h2[i].used = h[i].used \ {p[2]}
        BY <1>1, <4>1
      <4>. QED
        BY <1>2, <2>1, <3>1, <4>2
    <3>2. CASE r[1] # i
      <4>1. h2[r[1]] = h[r[1]]
        BY <1>1, <2>1, <3>2
      <4>2. r # p
        BY <3>2 DEF i
      <4>. QED
        BY <2>1, <4>1, <4>2
    <3>. QED
      BY <3>1, <3>2
  <2>3. r \in Index \X Slot
    BY ONLY <2>1
  <2>4. r \in Used(h)
    BY <2>2, <2>3 DEF Used
  <2>5. EntryAt(d2, h2, r) = EntryAt(d, h, r)
    BY <2>2 DEF EntryAt
  <2>. QED
    BY <2>2, <2>4, <2>5
<1>7. ASSUME NEW j \in Index, h2[j].block # 0
      PROVE  /\ h2[j].block = h[j].block /\ h2[j].block \in DirBlocksOf(h)
             /\ h2[j].block \notin GivenUp(h, p)
  <2>1. h2[j].block = h[j].block
    BY <1>1, <1>3, <1>7
  <2>2. h2[j].block \in DirBlocksOf(h)
    BY <1>7, <2>1 DEF DirBlocksOf
  <2>3. h2[j].block \notin GivenUp(h, p)
    <3>1. CASE j = i
      BY <1>1, <1>3, <1>7, <3>1
    <3>2. CASE j # i
      <4>1. h[j].block # h[i].block
        BY <1>2, <1>7, <2>1, <3>2 DEF Sound, DirSound
      <4>. QED
        BY <1>5, <2>1, <4>1
    <3>. QED
      BY <3>1, <3>2
  <2>. QED
    BY <2>1, <2>2, <2>3
<1>8. DirBlocksOf(h2) \subseteq DirBlocksOf(h)
  BY <1>7 DEF DirBlocksOf
<1>9. h[i].block \in DirBlocksOf(h)
  BY <1>2 DEF DirBlocksOf
<1>10. DirSound(d2, h2, map2)
  <2>1. Reserved \subseteq map2
    BY <1>2, <1>4, <1>5 DEF Sound, DirSound
  <2>2. DirBlocksOf(h2) \subseteq map2 \ Reserved
    <3>. SUFFICES ASSUME NEW j \in Index, h2[j].block # 0
                  PROVE  h2[j].block \in map2 \ Reserved
      BY DEF DirBlocksOf
    <3>. QED
      BY <1>4, <1>7 DEF Sound, DirSound
  <2>3. ASSUME NEW j \in Index, h2[j].used # {}
        PROVE  h2[j].block # 0 /\ d2.block[h2[j].block].kind = "dir"
    <3>1. h2[j].block = h[j].block /\ h[j].used # {}
      <4>1. CASE j = i
        BY <1>1, <1>3, <2>3, <4>1
      <4>2. CASE j # i
        BY <1>1, <2>3, <4>2
      <4>. QED
        BY <4>1, <4>2
    <3>. QED
      BY <3>1 DEF Sound, DirSound
  <2>4. ASSUME NEW j \in Index, NEW k \in Index, h2[j].block = h2[k].block, j # k
        PROVE  h2[j].block = 0
    <3>. SUFFICES ASSUME h2[j].block # 0 PROVE FALSE
      OBVIOUS
    <3>1. h2[j].block = h[j].block /\ h2[k].block = h[k].block
      BY <1>7, <2>4
    <3>. QED
      BY <2>4, <3>1 DEF Sound, DirSound
  <2>. QED
    BY <2>1, <2>2, <2>3, <2>4 DEF DirSound
<1>11. ASSUME NEW r \in Used(h2)
       PROVE  /\ EntryAt(d2, h2, r) # NoEntry
              /\ Readable(d2, EntryAt(d2, h2, r))
              /\ DataOf(d2, h2, r) = DataOf(d, h, r)
              /\ DataOf(d2, h2, r) \subseteq map2 \ (Reserved \cup DirBlocksOf(h2))
  <2>1. r \in Used(h) /\ r # p /\ EntryAt(d2, h2, r) = EntryAt(d, h, r)
    BY <1>6
  <2>2. /\ EntryAt(d, h, r) \in Entry /\ Readable(d, EntryAt(d, h, r)) /\ EntryAt(d, h, r) # NoEntry
    BY <2>1, SoundFile DEF Sound, FilesSound
  <2>3. Readable(d2, EntryAt(d, h, r)) /\ DataOf(d2, h2, r) = DataOf(d, h, r)
    BY <2>1, <2>2, FileKept DEF DataOf
  <2>4. \A x \in DataOf(d, h, r) : x \in map /\ x \notin Reserved /\ x \notin DirBlocksOf(h)
    BY <2>1, DataBlocks
  <2>5. DataOf(d, h, r) \cap gone = {}
    BY <2>1 DEF Sound, FilesSound, gone
  <2>6. \A x \in DataOf(d, h, r) : x \notin GivenUp(h, p)
    BY <1>5, <1>9, <2>4
  <2>. QED
    BY <1>8, <2>1, <2>2, <2>3, <2>4, <2>5, <2>6
<1>12. ASSUME NEW r \in Used(h2), NEW s \in Used(h2), r # s
       PROVE  DataOf(d2, h2, r) \cap DataOf(d2, h2, s) = {}
  BY <1>6, <1>11, <1>12 DEF Sound, FilesSound
<1>13. FilesSound(d2, h2, map2)
  BY <1>11, <1>12 DEF FilesSound
<1>. QED
  BY <1>10, <1>13 DEF Sound, h2, gone

\* The file d2 has the entry p of d under another name, and nothing else changed.
Renamed(d, h, p, to, d2) ==
  /\ d2.block[h[p[1]].block] =
       DirBlockWith(d.block[h[p[1]].block], p[2], [EntryAt(d, h, p) EXCEPT !.name = to])
  /\ \A b \in Block : b # h[p[1]].block => d2.block[b] = d.block[b]

\* Its entry has the other name, and all others stand where they stood; each
\* file keeps its blocks.
Retitled(d, h, p, to, d2) ==
  /\ EntryAt(d2, h, p).name = to /\ EntryAt(d2, h, p).len = EntryAt(d, h, p).len
  /\ \A r \in Used(h) : r # p => EntryAt(d2, h, r) = EntryAt(d, h, r)
  /\ \A r \in Used(h) : DataOf(d2, h, r) = DataOf(d, h, r)

\* A file under another name.
LEMMA FileRenamed ==
  ASSUME NEW d \in File, NEW h \in Header, NEW map \in SUBSET Block, Sound(d, h, map),
         NEW p \in Used(h), NEW to \in Names, NEW d2 \in File, Renamed(d, h, p, to, d2)
  PROVE  Sound(d2, h, map) /\ Retitled(d, h, p, to, d2)
<1>. DEFINE i == p[1]
            at == h[p[1]].block
            e == [EntryAt(d, h, p) EXCEPT !.name = to]
<1>1. /\ i \in Index /\ p[2] \in Slot /\ p = <<i, p[2]>> /\ at \in Block /\ at # 0
      /\ at \in DirBlocksOf(h) /\ d.block[at].kind = "dir"
      /\ EntryAt(d, h, p) = d.block[at].entry[p[2]] /\ EntryAt(d, h, p) \in Entry
  BY PlaceIs, SoundFile
<1>2. e \in Entry /\ e.first = EntryAt(d, h, p).first /\ e.len = EntryAt(d, h, p).len
  BY <1>1 DEF Entry
<1>3. e # NoEntry
  <2>1. e \in [name : Names, len : Lens, first : Nat]
    BY <1>2, Sizes DEF Entry
  <2>. QED
    BY <2>1, NoEntryAssumption
<1>4. /\ d2.block[at].kind = "dir" /\ d2.block[at].entry[p[2]] = e
      /\ \A s \in Slot : s # p[2] => d2.block[at].entry[s] = d.block[at].entry[s]
  <2>1. d2.block[at] = DirBlockWith(d.block[at], p[2], e)
    BY DEF Renamed
  <2>. HIDE DEF e, at
  <2>. QED
    BY ONLY <1>1, <2>1 DEF DirBlockWith
<1>5. \A b \in Block : b # at => d2.block[b] = d.block[b]
  BY DEF Renamed
<1>. HIDE DEF e, at
<1>6. \A b \in Block : d.block[b].kind = "dir" => d2.block[b].kind = "dir"
  BY <1>4, <1>5
<1>7. DirSound(d2, h, map)
  <2>1. \A j \in Index : h[j].block \in Block
    BY DEF Header
  <2>. QED
    BY <1>6, <2>1 DEF Sound, DirSound
<1>8. ASSUME NEW r \in Used(h), r # p
      PROVE  EntryAt(d2, h, r) = EntryAt(d, h, r)
  <2>1. /\ r[1] \in Index /\ r[2] \in Slot /\ r = <<r[1], r[2]>> /\ h[r[1]].block \in Block
        /\ h[r[1]].block # 0
        /\ d.block[h[r[1]].block].kind = "dir"
        /\ EntryAt(d, h, r) = d.block[h[r[1]].block].entry[r[2]]
    BY PlaceIs, SoundFile
  <2>2. d2.block[h[r[1]].block].entry[r[2]] = d.block[h[r[1]].block].entry[r[2]]
    <3>1. CASE h[r[1]].block = at
      <4>1. r[1] = i
        BY <1>1, <2>1, <3>1 DEF Sound, DirSound, at
      <4>2. r[2] # p[2]
        BY <1>1, <1>8, <2>1, <4>1
      <4>. QED
        BY <1>4, <2>1, <3>1, <4>2
    <3>2. CASE h[r[1]].block # at
      BY <1>5, <2>1, <3>2
    <3>. QED
      BY <3>1, <3>2
  <2>. QED
    BY <1>6, <2>1, <2>2 DEF EntryAt
<1>9. EntryAt(d2, h, p) = e
  BY <1>4 DEF EntryAt, at
<1>10. ASSUME NEW r \in Used(h)
       PROVE  /\ EntryAt(d2, h, r) # NoEntry
              /\ Readable(d2, EntryAt(d2, h, r))
              /\ DataOf(d2, h, r) = DataOf(d, h, r)
  <2>1. EntryAt(d, h, r) \in Entry /\ Readable(d, EntryAt(d, h, r))
    BY SoundFile
  <2>2. \A x \in DataOf(d, h, r) : d2.block[x] = d.block[x]
    <3>1. \A x \in DataOf(d, h, r) : x \in Block /\ x \notin DirBlocksOf(h)
      BY DataBlocks
    <3>. QED
      BY <1>1, <1>5, <3>1
  <2>3. /\ Readable(d2, EntryAt(d, h, r))
        /\ Chain(d2, EntryAt(d, h, r).first) = Chain(d, EntryAt(d, h, r).first)
    BY <2>1, <2>2, FileKept DEF DataOf
  <2>4. CASE r = p
    <3>1. Walk(d2, e.first) = Walk(d2, EntryAt(d, h, p).first)
      BY <1>2
    <3>2. Readable(d2, e)
      BY <1>2, <2>3, <2>4, <3>1 DEF Readable
    <3>. QED
      BY <1>2, <1>3, <1>9, <2>3, <2>4, <3>2 DEF DataOf
  <2>5. CASE r # p
    BY <1>8, <2>3, <2>5 DEF DataOf, Sound, FilesSound
  <2>. QED
    BY <2>4, <2>5
<1>11. FilesSound(d2, h, map)
  BY <1>10 DEF Sound, FilesSound
<1>12. e.name = to
  BY <1>1 DEF e, Entry
<1>13. Retitled(d, h, p, to, d2)
  BY <1>2, <1>8, <1>9, <1>10, <1>12 DEF Retitled
<1>. QED
  BY <1>7, <1>11, <1>13 DEF Sound

-----------------------------------------------------------------------------
(***************************************************************************)
(* The steps.                                                              *)
(***************************************************************************)

\* Blocks that are free in a map, each listed once.
IsFree(s, map) ==
  /\ s \in Seq(Block) /\ Len(s) <= Blocks
  /\ \A k \in 1 .. Len(s) : s[k] \notin map
  /\ \A j, k \in 1 .. Len(s) : s[j] = s[k] => j = k

\* The scan finds at most as many numbers as it looks at.
LEMMA AscendingBounded ==
  ASSUME NEW S, NEW n \in Nat
  PROVE  Len(Ascending(S, n)) <= n
<1>1. PICK f : Scan(S, n, f) /\ Ascending(S, n) = f[n]
  BY AscendingScan
<1>2. /\ \A k \in 0 .. n : f[k] \in Seq(Int)
      /\ f[0] = <<>>
      /\ \A k \in 1 .. n : f[k] = ScanStep(S, k, f[k - 1])
  BY <1>1 DEF Scan
<1>. DEFINE B == {k \in 0 .. n : Len(f[k]) <= k}
<1>3. 0 \in B
  BY <1>2
<1>4. ASSUME NEW k \in 1 .. n, k - 1 \in B
      PROVE  k \in B
  <2>1. k \in 0 .. n /\ k - 1 \in 0 .. n
    OBVIOUS
  <2>2. f[k - 1] \in Seq(Int) /\ f[k] = ScanStep(S, k, f[k - 1])
    BY <1>2, <2>1
  <2>3. Len(f[k]) = Len(f[k - 1]) \/ Len(f[k]) = Len(f[k - 1]) + 1
    BY <2>2 DEF ScanStep
  <2>4. Len(f[k - 1]) \in Nat /\ Len(f[k - 1]) <= k - 1
    BY <1>4, <2>2
  <2>5. Len(f[k]) <= k
    BY ONLY <2>3, <2>4, k \in 1 .. n
  <2>. QED
    BY <2>1, <2>5
<1>. HIDE DEF B
<1>5. n \in B
  <2>1. \A k \in 0 .. n : k \in B
    BY <1>3, <1>4, Induction
  <2>. QED
    BY <2>1
<1>. QED
  BY <1>1, <1>5 DEF B

\* The free blocks of a map.
LEMMA FreeIs ==
  ASSUME NEW map \in SUBSET Block
  PROVE  IsFree(FreeBlocks(map), map)
<1>. DEFINE s == Ascending(Block \ map, Blocks)
<1>1. Blocks \in Nat
  BY Sizes
<1>2. /\ s \in Seq(Int)
      /\ \A k \in 1 .. Len(s) : s[k] \in Block \ map
      /\ \A j, k \in 1 .. Len(s) : s[j] = s[k] => j = k
  BY <1>1, AscendingIs
<1>3. Len(s) <= Blocks
  BY <1>1, AscendingBounded
<1>. HIDE DEF s
<1>4. s \in Seq(Block)
  BY <1>2
<1>5. IsFree(s, map)
  BY <1>2, <1>3, <1>4 DEF IsFree
<1>. QED
  BY <1>5 DEF s, FreeBlocks

\* What readdir() lists when each used entry is one.
LEMMA ListingIs ==
  ASSUME NEW d, NEW h \in Header, \A p \in Used(h) : EntryAt(d, h, p) \in Entry
  PROVE  Listing(d, h) \in Seq(Names) /\ Len(Listing(d, h)) = Len(Places(h))
<1>. DEFINE s == Places(h)
<1>1. s \in Seq(Index \X Slot) /\ Len(s) \in Nat /\ \A k \in 1 .. Len(s) : s[k] \in Used(h)
  BY PlacesUsed
<1>. HIDE DEF s
<1>2. Listing(d, h) = [k \in 1 .. Len(s) |-> EntryAt(d, h, s[k]).name]
  BY <1>1 DEF Listing, s
<1>3. \A k \in 1 .. Len(s) : EntryAt(d, h, s[k]).name \in Names
  BY <1>1 DEF Entry
<1>. QED
  BY <1>1, <1>2, <1>3 DEF s

\* Marking a block that the directory has not, nor a file, does no harm.
LEMMA SoundMore ==
  ASSUME NEW d, NEW h, NEW map, NEW more, Sound(d, h, map)
  PROVE  Sound(d, h, map \cup more)
BY DEF Sound, DirSound, FilesSound

\* These are writes of the file's data to blocks of c, to all if there are
\* enough.
IsData(data, c, n, len) ==
  /\ data \in Seq(BlockWrite)
  /\ \A w : In(w, data) =>
       \E k \in 1 .. Len(c) : w = Put("block", c[k], DataBlock(c, n, len, k))
  /\ Len(c) = len => \A k \in 1 .. len :
       In(Put("block", c[k], DataBlock(c, n, len, k)), data)

\* The writes of a file's data.
LEMMA DataWritesAre ==
  ASSUME NEW c \in Seq(Block), NEW len \in Lens, Len(c) >= 1, Len(c) <= len, NEW n \in Names
  PROVE  IsData(DataWrites(c, n, len), c, n, len)
<1>. DEFINE m == IF Len(c) = len THEN len ELSE Len(c) - 1
            D == DataWrites(c, n, len)
<1>1. /\ Len(c) \in Nat /\ len \in Nat /\ m \in Nat /\ m <= Len(c)
      /\ \A k \in 1 .. m : k = len \/ k + 1 \in 1 .. Len(c)
      /\ 0 \in Block
  BY Sizes
<1>2. D = [k \in 1 .. m |-> Put("block", c[k], DataBlock(c, n, len, k))]
  BY DEF DataWrites, DataBlock
<1>. HIDE DEF D, m
<1>3. ASSUME NEW k \in 1 .. m
      PROVE  Put("block", c[k], DataBlock(c, n, len, k)) \in BlockWrite
  <2>1. k \in 1 .. Len(c) /\ c[k] \in Block
    BY <1>1
  <2>2. (IF k = len THEN 0 ELSE c[k + 1]) \in Block
    BY <1>1
  <2>3. DataBlock(c, n, len, k) \in Content
    BY <2>2 DEF DataBlock, Content
  <2>. QED
    BY <2>1, <2>3 DEF Put, BlockWrite
<1>4. D \in Seq(BlockWrite) /\ Len(D) = m
  BY <1>1, <1>2, <1>3
<1>5. ASSUME NEW w, In(w, D)
      PROVE  \E k \in 1 .. Len(c) : w = Put("block", c[k], DataBlock(c, n, len, k))
  <2>1. PICK k \in 1 .. m : D[k] = w
    BY <1>4, <1>5 DEF In
  <2>2. k \in 1 .. Len(c)
    BY <1>1
  <2>. QED
    BY <1>2, <2>1, <2>2
<1>6. ASSUME Len(c) = len, NEW k \in 1 .. len
      PROVE  In(Put("block", c[k], DataBlock(c, n, len, k)), D)
  <2>1. k \in 1 .. Len(D)
    BY <1>4, <1>6 DEF m
  <2>. QED
    BY <1>2, <1>4, <2>1 DEF In
<1>. QED
  BY <1>4, <1>5, <1>6 DEF D, IsData

\* The writes of one operation, and what they leave.
StoreSeq(before, h2, at, content, data, map2, full) ==
  before \o <<Put("header", 0, h2), Put("block", at, content)>>
         \o data
         \o IF full THEN <<>> ELSE <<Put("bam", 1, map2)>>
\* The writes data go to other blocks than the directory block at.
Beside(data, at) ==
  /\ data \in Seq(BlockWrite)
  /\ \A w : In(w, data) => w.part = "block" /\ w.at # at
\* Nothing but the map is written before.
OnlyMaps(before) == before \in Seq(BlockWrite) /\ \A w : In(w, before) => w.part = "bam"

\* What these writes leave of the file d.
StoreLeaves(d, h2, at, content, data, map2, full, d2) ==
  /\ d2 \in File
  /\ d2.header = h2 /\ (~full => d2.bam = map2)
  /\ d2.block[at] = content
  /\ \A b \in Block : b # at /\ (\A w : In(w, data) => w.at # b) => d2.block[b] = d.block[b]
  /\ \A b \in Block : \A v :
       (\E w : In(w, data) /\ w.at = b)
         /\ (\A w : In(w, data) /\ w.at = b => w.value = v) => d2.block[b] = v

\* Whatever their order: the header, the directory block and the data are
\* in place, the map too unless the blocks ran out, and nothing else changed.
LEMMA StoreWritten ==
  ASSUME NEW d \in File, NEW before, OnlyMaps(before), NEW h2 \in Header,
         NEW at \in Block, NEW content \in Content, NEW data, Beside(data, at),
         NEW map2 \in SUBSET Block, NEW full \in BOOLEAN
  PROVE  /\ StoreSeq(before, h2, at, content, data, map2, full) \in Seq(BlockWrite)
         /\ StoreLeaves(d, h2, at, content, data, map2, full,
                        After(d, StoreSeq(before, h2, at, content, data, map2, full)))
<1>0. /\ before \in Seq(BlockWrite) /\ data \in Seq(BlockWrite)
      /\ \A w : In(w, before) => w.part = "bam"
      /\ \A w : In(w, data) => w.part = "block" /\ w.at # at
  BY DEF OnlyMaps, Beside
<1>. DEFINE H == Put("header", 0, h2)
            B == Put("block", at, content)
            M == Put("bam", 1, map2)
            s == before \o <<H, B>>
            t == s \o data
            last == IF full THEN <<>> ELSE <<M>>
            seq == t \o last
            d2 == After(d, seq)
<1>1. H \in BlockWrite /\ B \in BlockWrite /\ M \in BlockWrite
  BY DEF Put, BlockWrite
<1>2. /\ H.part = "header" /\ H.at = 0 /\ H.value = h2
      /\ B.part = "block" /\ B.at = at /\ B.value = content
      /\ M.part = "bam" /\ M.at = 1 /\ M.value = map2
  BY DEF Put
<1>3. StoreSeq(before, h2, at, content, data, map2, full) = seq
  BY DEF StoreSeq
<1>. HIDE DEF H, B, M
<1>4. <<H, B>> \in Seq(BlockWrite) /\ \A w : In(w, <<H, B>>) <=> w = H \/ w = B
  <2>1. <<H, B>> \in Seq(BlockWrite) /\ Len(<<H, B>>) = 2 /\ <<H, B>>[1] = H /\ <<H, B>>[2] = B
    BY <1>1
  <2>. QED
    BY <2>1 DEF In
<1>5. last \in Seq(BlockWrite) /\ \A w : In(w, last) <=> w = M /\ ~full
  <2>1. CASE full
    <3>1. last = <<>>
      BY <2>1
    <3>. QED
      BY <2>1, <3>1 DEF In
  <2>2. CASE ~full
    <3>1. last = <<M>>
      BY <2>2
    <3>. HIDE DEF last
    <3>2. last \in Seq(BlockWrite) /\ Len(last) = 1 /\ last[1] = M
      BY <1>1, <3>1
    <3>. QED
      BY <2>2, <3>2 DEF In
  <2>. QED
    BY <2>1, <2>2
<1>. HIDE DEF last
<1>6. s \in Seq(BlockWrite) /\ t \in Seq(BlockWrite) /\ seq \in Seq(BlockWrite)
  BY <1>0, <1>4, <1>5
<1>7. \A w : In(w, seq) <=> In(w, before) \/ w = H \/ w = B \/ In(w, data) \/ (w = M /\ ~full)
  <2>1. \A w : In(w, s) <=> In(w, before) \/ In(w, <<H, B>>)
    BY <1>0, <1>4, InJoined
  <2>. HIDE DEF s
  <2>2. \A w : In(w, t) <=> In(w, s) \/ In(w, data)
    BY <1>0, <1>6, InJoined
  <2>. HIDE DEF t
  <2>3. \A w : In(w, seq) <=> In(w, t) \/ In(w, last)
    BY <1>5, <1>6, InJoined
  <2>. HIDE DEF seq
  <2>. QED
    BY <1>4, <1>5, <2>1, <2>2, <2>3
<1>8. /\ d2 \in File
      /\ d2.header = LastWrite(seq, "header", 0, d.header)
      /\ d2.bam = LastWrite(seq, "bam", 1, d.bam)
      /\ \A b \in Block : d2.block[b] = LastWrite(seq, "block", b, d.block[b])
  <2>. HIDE DEF seq
  <2>. QED
    BY <1>6, AfterTyped
<1>9. ~full => d2.bam = map2
  <2>. SUFFICES ASSUME ~full PROVE LastWrite(seq, "bam", 1, d.bam) = map2
    BY <1>8
  <2>1. seq = t \o <<M>>
    BY DEF last
  <2>. HIDE DEF t, seq
  <2>2. LastWrite(t \o <<M>>, M.part, M.at, d.bam) = M.value
    BY <1>1, <1>6, WrittenLast
  <2>. QED
    BY <1>2, <2>1, <2>2
<1>. HIDE DEF seq
<1>10. d2.header = h2
  <2>1. \A w : In(w, seq) /\ w.part = "header" /\ w.at = 0 => w.value = h2
    BY <1>0, <1>2, <1>7
  <2>2. In(H, seq)
    BY <1>7
  <2>a. OnlyWrites(seq, "header", 0, h2)
    BY ONLY <1>2, <2>1, <2>2 DEF OnlyWrites
  <2>3. LastWrite(seq, "header", 0, d.header) = h2
    BY ONLY <1>6, <2>a, WrittenAlike
  <2>. QED
    BY <1>8, <2>3
<1>11. d2.block[at] = content
  <2>1. \A w : In(w, seq) /\ w.part = "block" /\ w.at = at => w.value = content
    BY <1>0, <1>2, <1>7
  <2>2. In(B, seq)
    BY <1>7
  <2>a. OnlyWrites(seq, "block", at, content)
    BY ONLY <1>2, <2>1, <2>2 DEF OnlyWrites
  <2>3. LastWrite(seq, "block", at, d.block[at]) = content
    BY ONLY <1>6, <2>a, WrittenAlike
  <2>. QED
    BY <1>8, <2>3
<1>12. ASSUME NEW b \in Block, b # at, \A w : In(w, data) => w.at # b
       PROVE  d2.block[b] = d.block[b]
  <2>1. \A w : In(w, seq) => ~(w.part = "block" /\ w.at = b)
    BY <1>0, <1>2, <1>7, <1>12
  <2>2. LastWrite(seq, "block", b, d.block[b]) = d.block[b]
    BY <1>6, <2>1, NotWritten
  <2>. QED
    BY <1>8, <2>2
<1>13. ASSUME NEW b \in Block, NEW v, NEW w, In(w, data), w.at = b,
              \A u : In(u, data) /\ u.at = b => u.value = v
       PROVE  d2.block[b] = v
  <2>1. b # at /\ w.part = "block"
    BY <1>0, <1>13
  <2>2. \A u : In(u, seq) /\ u.part = "block" /\ u.at = b => u.value = v
    BY <1>0, <1>2, <1>7, <1>13, <2>1
  <2>3. In(w, seq)
    BY <1>7, <1>13
  <2>a. OnlyWrites(seq, "block", b, v)
    BY <1>13, <2>1, <2>2, <2>3 DEF OnlyWrites
  <2>4. LastWrite(seq, "block", b, d.block[b]) = v
    BY ONLY <1>6, <2>a, WrittenAlike
  <2>. QED
    BY <1>8, <2>4
<1>. HIDE DEF d2
<1>14. \A b \in Block : \A v : (\E w : In(w, data) /\ w.at = b)
                             /\ (\A w : In(w, data) /\ w.at = b => w.value = v) => d2.block[b] = v
  BY <1>13
<1>. QED
  BY <1>3, <1>6, <1>8, <1>9, <1>10, <1>11, <1>12, <1>14 DEF d2, StoreLeaves

\* The archive in memory and in the file.
Fits ==
  /\ file.header = header
  /\ \A p \in Used(header) : EntryAt(file, header, p) \in Entry
  /\ ~damaged => Sound(file, header, bam) /\ Sound(file, header, file.bam)

\* The invariant: memory and file agree about the header, every used entry is
\* one, even of a damaged archive, the names that were read belong to
\* entries, and the archive fits together with either map.
IInv == TypeOK /\ Fits /\ Len(dir) <= Len(Places(header))

\* What a step leaves but for the names that were read.
Left ==
  /\ header' \in Header /\ bam' \in SUBSET Block
  /\ file' \in File /\ disk' \in File /\ todo' \in Seq(BlockWrite)
  /\ result' \in {"OK", "EXIST", "IO", "NOMEM"} /\ damaged' \in BOOLEAN
  /\ Fits'
\* There is one entry more, that of a file n; the others are where they were and
\* can be read.
NewFile(n, len) ==
  \E q \in Used(header') :
    /\ EntryAt(file', header', q).name = n /\ EntryAt(file', header', q).len = len
    /\ \A p \in Used(header') : p \in Used(header) \/ p = q
    /\ \A p \in Used(header) : /\ p \in Used(header') /\ p # q
                              /\ EntryAt(file', header', p) = EntryAt(file, header, p)
                              /\ Readable(file', EntryAt(file, header, p))

\* The blocks of the directory and of the files.
Owned(d, h) == DirBlocksOf(h) \cup UNION {DataOf(d, h, p) : p \in Used(h)}

\* What was allocated now belongs to the directory or a file, and the map is
\* written.
SpaceUsed ==
  /\ file'.bam = bam' /\ bam' \subseteq bam \cup Owned(file', header')
  /\ Owned(file, header) \subseteq Owned(file', header')

\* A file was put in the archive.
LEMMA StoreStep ==
  ASSUME TypeOK, Fits, Ready, NEW n \in Names, NEW len \in Lens,
         NEW i, NEW at, NEW slot, NEW free, NEW before, OnlyMaps(before),
         Room(file, header, bam, i, at, slot,
              IF header[i].block = 0 THEN Unwritten ELSE file.block[at]),
         IsFree(free, bam), Len(free) >= 1, \A k \in 1 .. Len(free) : free[k] # at,
         Store(n, len, i, at, slot, free, before)
  PROVE  /\ Left /\ \A j \in Index : header[j].used \subseteq header'[j].used
         /\ NewFile(n, len) /\ (damaged' \/ SpaceUsed)
<1>. DEFINE m == Min({len, Len(free)})
            chain == SubSeq(free, 1, m)
            e == [name |-> n, len |-> len, first |-> chain[1]]
            content == IF header[i].block = 0 THEN Unwritten ELSE file.block[at]
            full == Len(chain) < len
            block == DirBlockWith(content, slot, e)
            data == DataWrites(chain, n, len)
            h2 == HeaderWith(header, i, at, slot)
            map2 == bam \cup {at} \cup Range(chain)
            seq == StoreSeq(before, h2, at, block, data, map2, full)
<1>1. /\ header' = h2 /\ bam' = map2 /\ todo' = seq /\ file' = After(file, seq)
      /\ result' = (IF full THEN "IO" ELSE "OK") /\ damaged' = full /\ disk' = disk
  BY DEF Store, Writes, StoreSeq, HeaderWith
<1>2. /\ header \in Header /\ bam \in SUBSET Block /\ file \in File /\ disk \in File
      /\ Sound(file, header, bam) /\ file.header = header
  BY DEF TypeOK, Fits, Ready
<1>3. /\ i \in Index /\ slot \in Slot \ header[i].used /\ at \in Block \ Reserved
      /\ content \in Content /\ Room(file, header, bam, i, at, slot, content)
  BY DEF Room
<1>4. /\ free \in Seq(Block) /\ Len(free) \in Nat /\ Len(free) <= Blocks
      /\ \A k \in 1 .. Len(free) : free[k] \notin bam
      /\ \A j, k \in 1 .. Len(free) : free[j] = free[k] => j = k
  BY DEF IsFree
<1>5. len \in Nat \ {0} /\ Blocks \in Nat
  BY Sizes
<1>. HIDE DEF content
<1>6. /\ m \in Nat /\ 1 <= m /\ m <= len /\ m <= Len(free)
      /\ m = len \/ m = Len(free)
  <2>. DEFINE K == {len, Len(free)}
  <2>1. K \subseteq 0 .. len + Len(free) /\ K # {} /\ len + Len(free) \in Nat
    BY <1>4, <1>5
  <2>2. Min(K) \in K /\ \A k \in K : Min(K) <= k
    BY ONLY <2>1, MinIs
  <2>. QED
    BY <1>4, <1>5, <2>2
<1>. HIDE DEF m
<1>7. /\ chain \in Seq(Block) /\ Len(chain) = m
      /\ \A k \in 1 .. m : chain[k] = free[k] /\ chain[k] \in Block
  BY <1>4, <1>6
<1>. HIDE DEF chain
<1>8. /\ \A k \in 1 .. m : chain[k] \notin bam /\ chain[k] # at /\ chain[k] # 0
      /\ \A j, k \in 1 .. m : chain[j] = chain[k] => j = k
  <2>1. 0 \in bam
    BY <1>2 DEF Sound, DirSound, Reserved
  <2>2. \A k \in 1 .. m : k \in 1 .. Len(free)
    BY <1>4, <1>6
  <2>. QED
    BY <1>4, <1>7, <2>1, <2>2
<1>9. e \in Entry /\ e.len = len /\ e.first = chain[1]
  BY <1>6, <1>7 DEF Entry
<1>. HIDE DEF e
<1>10. block \in Content
  <2>1. content.kind = "dir" => content.entry \in [Slot -> Entry \cup {NoEntry}]
    BY <1>3 DEF Content, Unwritten
  <2>. QED
    BY <1>9, <2>1 DEF DirBlockWith, Content
<1>11. h2 \in Header /\ h2[i].used = header[i].used \cup {slot}
       /\ \A j \in Index : j # i => h2[j] = header[j]
  BY <1>2, <1>3, HeaderWithIs
<1>12. map2 \in SUBSET Block
  BY <1>2, <1>3, <1>7 DEF Range
<1>13. /\ data \in Seq(BlockWrite)
       /\ \A w : In(w, data) =>
            \E k \in 1 .. m : w = Put("block", chain[k], DataBlock(chain, n, len, k))
       /\ m = len => \A k \in 1 .. len :
            In(Put("block", chain[k], DataBlock(chain, n, len, k)), data)
  <2>1. IsData(data, chain, n, len)
    BY <1>6, <1>7, DataWritesAre
  <2>. HIDE DEF data
  <2>. QED
    BY <1>7, <2>1 DEF IsData
<1>14. full \in BOOLEAN /\ (full <=> m # len)
  BY <1>5, <1>6, <1>7
<1>. HIDE DEF block, data, map2, full
<1>. HIDE DEF h2
<1>15. \A w : In(w, data) => /\ w.part = "block" /\ w.at # at /\ w.at \notin bam
                             /\ \E k \in 1 .. m : /\ w.at = chain[k]
                                                  /\ w.value = DataBlock(chain, n, len, k)
  <2>1. \A a, v : /\ Put("block", a, v).part = "block" /\ Put("block", a, v).at = a
                  /\ Put("block", a, v).value = v
    BY DEF Put
  <2>. QED
    BY <1>8, <1>13, <2>1
<1>16. /\ seq \in Seq(BlockWrite) /\ file' \in File
       /\ file'.header = h2 /\ (~full => file'.bam = map2)
       /\ file'.block[at] = block
       /\ \A b \in Block : b # at /\ (\A w : In(w, data) => w.at # b) =>
            file'.block[b] = file.block[b]
       /\ \A b \in Block : \A v :
            (\E w : In(w, data) /\ w.at = b)
              /\ (\A w : In(w, data) /\ w.at = b => w.value = v) => file'.block[b] = v
  <2>1. Beside(data, at)
    BY <1>13, <1>15 DEF Beside
  <2>2. at \in Block
    BY <1>3
  <2>3. seq \in Seq(BlockWrite) /\ StoreLeaves(file, h2, at, block, data, map2, full, After(file, seq))
    BY <1>2, <1>10, <1>11, <1>12, <1>14, <2>1, <2>2, StoreWritten
  <2>. HIDE DEF seq
  <2>4. StoreLeaves(file, h2, at, block, data, map2, full, file')
    BY <1>1, <2>3
  <2>. QED
    BY <2>3, <2>4 DEF StoreLeaves
<1>. HIDE DEF seq
<1>17. \A b \in bam : b # at => file'.block[b] = file.block[b]
  BY <1>2, <1>15, <1>16
<1>18. EntryStands(file, header, i, slot, e, file', h2)
  BY <1>2, <1>3, <1>9, <1>16, <1>17, EntryAdded DEF block, h2
<1>19. \A p \in Used(h2) : EntryAt(file', h2, p) \in Entry
  BY <1>9, <1>18 DEF EntryStands, Fits
<1>20. ASSUME ~full
       PROVE  /\ Sound(file', h2, map2)
              /\ \A k \in 1 .. len : chain[k] \in Chain(file', e.first)
  <2>1. m = len
    BY <1>14, <1>20
  <2>2. ASSUME NEW k \in 1 .. len
        PROVE  file'.block[chain[k]] = DataBlock(chain, n, len, k)
    <3>1. chain[k] \in Block
      BY <1>7, <2>1
    <3>2. \E w : In(w, data) /\ w.at = chain[k]
      <4>1. Put("block", chain[k], DataBlock(chain, n, len, k)).at = chain[k]
        BY DEF Put
      <4>. QED
        BY <1>13, <2>1, <4>1
    <3>3. \A w : In(w, data) /\ w.at = chain[k] => w.value = DataBlock(chain, n, len, k)
      BY <1>8, <1>15, <2>1
    <3>. QED
      BY <1>16, <3>1, <3>2, <3>3
  <2>3. Along(file', n, len, chain)
    BY <1>7, <1>8, <2>1, <2>2 DEF Along
  <2>4. len <= Blocks
    BY <1>4, <1>5, <1>6, <2>1
  <2>5. \A k \in 1 .. len : chain[k] \notin bam /\ chain[k] # at
    BY <1>8, <2>1
  <2>6. map2 = bam \cup {at} \cup {chain[k] : k \in 1 .. len}
    <3>1. DOMAIN chain = 1 .. len
      BY <1>7, <2>1
    <3>. QED
      BY <3>1 DEF map2, Range
  <2>7. file'.block[at] = DirBlockWith(content, slot, e)
    BY <1>16 DEF block
  <2>8. Sound(file', HeaderWith(header, i, at, slot),
              bam \cup {at} \cup {chain[k] : k \in 1 .. len})
    <3>1. file' \in File /\ file \in File /\ header \in Header /\ bam \in SUBSET Block
      BY <1>2, <1>16
    <3>2. Sound(file, header, bam) /\ Room(file, header, bam, i, at, slot, content)
      BY <1>2, <1>3
    <3>. QED
      BY ONLY <3>1, <3>2, <1>9, <1>17, <2>3, <2>4, <2>5, <2>7, FileAdded,
              n \in Names, len \in Lens
  <2>9. LeadsAlong(file', e, chain)
    BY <1>9, <1>16, <2>3, <2>4, FileWritten
  <2>10. \A k \in 1 .. len : chain[k] \in Chain(file', e.first)
    BY <1>7, <2>1, <2>9 DEF LeadsAlong
  <2>. QED
    BY <2>6, <2>8, <2>10 DEF h2
<1>21. Fits'
  BY <1>1, <1>16, <1>19, <1>20 DEF Fits
<1>22. result' \in {"OK", "EXIST", "IO", "NOMEM"}
  BY <1>1
<1>23. Left
  BY <1>1, <1>2, <1>11, <1>12, <1>14, <1>16, <1>21, <1>22 DEF Left
<1>24. \A j \in Index : header[j].used \subseteq h2[j].used
  BY <1>11
<1>25. ASSUME NEW p \in Used(header)
       PROVE  /\ Readable(file', EntryAt(file, header, p))
              /\ Chain(file', EntryAt(file, header, p).first) = DataOf(file, header, p)
  <2>1. /\ EntryAt(file, header, p) \in Entry /\ Readable(file, EntryAt(file, header, p))
    BY <1>2, SoundFile DEF Sound, FilesSound
  <2>2. ASSUME NEW x \in Chain(file, EntryAt(file, header, p).first)
        PROVE  file'.block[x] = file.block[x]
    <3>1. x \in bam /\ x \in Block /\ x \notin Reserved /\ x \notin DirBlocksOf(header)
      BY <1>2, DataBlocks DEF DataOf
    <3>2. x # at
      <4>1. header[i].block = at => at \in DirBlocksOf(header)
        BY <1>3 DEF DirBlocksOf, Reserved
      <4>2. header[i].block = at \/ at \notin bam
        BY <1>3 DEF Room
      <4>. QED
        BY <3>1, <4>1, <4>2
    <3>. QED
      BY <1>17, <3>1, <3>2
  <2>. QED
    BY <1>2, <1>16, <2>1, <2>2, FileKept DEF DataOf
<1>26. <<i, slot>> \in Used(h2) /\ <<i, slot>> \notin Used(header)
  <2>1. <<i, slot>> \in Index \X Slot
    BY <1>3
  <2>2. slot \in h2[i].used /\ slot \notin header[i].used
    BY <1>3, <1>11
  <2>. QED
    BY <2>1, <2>2 DEF Used
<1>27. Used(header) \subseteq Used(h2)
  BY <1>24 DEF Used
<1>28. NewFile(n, len)
  <2>. DEFINE q == <<i, slot>>
  <2>1. q \in Used(h2) /\ q \notin Used(header)
    BY <1>26
  <2>2. EntryAt(file', h2, q) = e /\ e.name = n /\ e.len = len
    BY <1>9, <1>18 DEF EntryStands, e
  <2>3. /\ \A p \in Used(h2) : p \in Used(header) \/ p = q
        /\ \A p \in Used(header) : EntryAt(file', h2, p) = EntryAt(file, header, p)
    BY <1>18 DEF EntryStands
  <2>4. header' = h2
    BY <1>1
  <2>. HIDE DEF q
  <2>5. \A p \in Used(header) : /\ p \in Used(h2) /\ p # q
                                /\ EntryAt(file', h2, p) = EntryAt(file, header, p)
                                /\ Readable(file', EntryAt(file, header, p))
    BY <1>25, <1>27, <2>1, <2>3
  <2>. QED
    BY <2>1, <2>2, <2>3, <2>4, <2>5 DEF NewFile
<1>29. ASSUME ~full PROVE SpaceUsed
  <2>1. m = len
    BY <1>14, <1>29
  <2>2. at \in DirBlocksOf(h2)
    BY <1>2, <1>3, HeaderWithIs DEF DirBlocksOf, Reserved, h2
  <2>3. DirBlocksOf(header) \subseteq DirBlocksOf(h2)
    <3>1. header[i].block = at \/ header[i].block = 0
      BY <1>3 DEF Room
    <3>. QED
      BY <1>11, <2>2, <3>1 DEF DirBlocksOf
  <2>4. \A p \in Used(header) : DataOf(file', h2, p) = DataOf(file, header, p)
    BY <1>18, <1>25 DEF EntryStands, DataOf
  <2>5. \A k \in 1 .. len : chain[k] \in DataOf(file', h2, <<i, slot>>)
    BY <1>7, <1>18, <1>20, <1>29, <2>1 DEF EntryStands, DataOf
  <2>6. header' = h2 /\ bam' = map2
    BY <1>1
  <2>7. bam' \subseteq bam \cup Owned(file', header')
    BY <1>7, <1>26, <2>1, <2>2, <2>5, <2>6 DEF map2, Range, Owned
  <2>8. Owned(file, header) \subseteq Owned(file', header')
    BY <1>27, <2>3, <2>4, <2>6 DEF Owned
  <2>9. file'.bam = bam'
    BY <1>16, <1>29, <2>6
  <2>. QED
    BY <2>7, <2>8, <2>9 DEF SpaceUsed
<1>. QED
  BY <1>1, <1>23, <1>24, <1>28, <1>29

\* A directory that is read anew has its names from entries.
LEMMA ReadAnew ==
  ASSUME Left, dir' = Listing(file', header')
  PROVE  IInv'
<1>1. header' \in Header /\ \A p \in Used(header') : EntryAt(file', header', p) \in Entry
  BY DEF Left, Fits
<1>2. Listing(file', header') \in Seq(Names)
      /\ Len(Listing(file', header')) = Len(Places(header'))
  BY <1>1, ListingIs
<1>3. Len(Places(header')) \in Nat
  BY <1>1, PlacesUsed
<1>. QED
  BY <1>2, <1>3 DEF Left, IInv, TypeOK

\* A file was not put in the archive.
LEMMA RefusedStep ==
  ASSUME TypeOK, Fits, NEW code \in {"EXIST", "IO", "NOMEM"},
         NEW map \in SUBSET Block, bam \subseteq map, Refused(code, map)
  PROVE  /\ Left /\ \A j \in Index : header[j].used \subseteq header'[j].used
         /\ UNCHANGED <<header, file>> /\ bam' = map /\ result' = code
<1>1. /\ bam' = map /\ header' = header /\ file' = file /\ disk' = disk /\ todo' = todo
      /\ damaged' = damaged /\ result' = code
  BY DEF Refused
<1>2. Sound(file, header, bam) => Sound(file, header, map)
  <2>1. map = bam \cup map
    OBVIOUS
  <2>. QED
    BY <2>1, SoundMore
<1>3. Fits'
  BY <1>1, <1>2 DEF Fits
<1>. QED
  BY <1>1, <1>3 DEF TypeOK, Left

\* Nothing was written, but one block is lost when the directory has no room.
Refusal ==
  /\ UNCHANGED <<header, file>>
  /\ bam' = bam \/ (bam \subseteq bam' /\ result' = "NOMEM")

\* A write with the first of the free blocks as directory block, or none.
LEMMA WriteNewStep ==
  ASSUME TypeOK, Fits, Ready, NEW n \in Names, NEW len \in Lens, WriteNew(n, len)
  PROVE  /\ Left /\ \A j \in Index : header[j].used \subseteq header'[j].used
         /\ Refusal \/ (NewFile(n, len) /\ (damaged' \/ SpaceUsed))
<1>. DEFINE free == FreeBlocks(bam)
            i == Min(Open)
<1>1. /\ header \in Header /\ bam \in SUBSET Block /\ file \in File
      /\ Sound(file, header, bam) /\ file.header = header
  BY DEF TypeOK, Fits, Ready
<1>2. IsFree(free, bam)
  BY <1>1, FreeIs
<1>3. /\ free \in Seq(Block) /\ Len(free) \in Nat /\ Len(free) <= Blocks
      /\ \A k \in 1 .. Len(free) : free[k] \notin bam /\ free[k] \in Block
      /\ \A j, k \in 1 .. Len(free) : free[j] = free[k] => j = k
  BY <1>2 DEF IsFree
<1>4. Open # {} => i \in Open
  <2>1. Open \subseteq 0 .. DirBlocks /\ DirBlocks \in Nat
    BY Sizes DEF Open
  <2>. HIDE DEF i
  <2>. QED
    BY <2>1, MinIs DEF i
<1>5. \A b \in Reserved : b \in bam
  BY <1>1 DEF Sound, DirSound
<1>6. CASE free = <<>>
  <2>1. Refused("IO", bam)
    BY <1>6 DEF WriteNew
  <2>. QED
    BY <1>1, <2>1, RefusedStep DEF Refusal
<1>7. CASE free # <<>> /\ (Open = {} \/ (header[i].block = 0 /\ Len(free) = 1))
  <2>1. Refused("NOMEM", bam \cup {free[1]})
    BY <1>7 DEF WriteNew
  <2>2. bam \cup {free[1]} \in SUBSET Block
    BY <1>1, <1>3, <1>7
  <2>. QED
    BY <2>1, <2>2, RefusedStep DEF Refusal
<1>8. CASE /\ free # <<>> /\ Open # {} /\ header[i].block # 0
  <2>. DEFINE at == header[i].block
              slot == Min(Slot \ header[i].used)
  <2>1. Store(n, len, i, at, slot, free, <<>>)
    BY <1>8 DEF WriteNew, WriteInOldBlock
  <2>2. i \in Index /\ header[i].used # Slot /\ at \in Block /\ header[i].used \subseteq Slot
    BY <1>1, <1>4, <1>8 DEF Open, Header
  <2>. HIDE DEF i
  <2>3. slot \in Slot \ header[i].used
    <3>1. Slot \ header[i].used # {}
      BY ONLY <2>2
    <3>2. Slots \in Nat /\ Slot \subseteq 0 .. Slots
      BY Sizes
    <3>3. Slot \ header[i].used \subseteq 0 .. Slots
      BY ONLY <3>2
    <3>. QED
      BY ONLY <3>1, <3>2, <3>3, MinIs
  <2>4. at \in bam \ Reserved
    <3>1. at \in DirBlocksOf(header)
      BY <1>8, <2>2 DEF DirBlocksOf
    <3>. QED
      BY <1>1, <3>1 DEF Sound, DirSound
  <2>. HIDE DEF slot, at
  <2>5. Room(file, header, bam, i, at, slot, IF header[i].block = 0 THEN Unwritten ELSE file.block[at])
    <3>1. file.block[at] \in Content
      BY <1>1, <2>2, Contents
    <3>. QED
      BY <1>8, <2>2, <2>3, <2>4, <3>1 DEF Room, at
  <2>6. OnlyMaps(<<>>)
    BY DEF OnlyMaps, In
  <2>7. Len(free) >= 1 /\ \A k \in 1 .. Len(free) : free[k] # at
    BY <1>3, <1>8, <2>4
  <2>. HIDE DEF free
  <2>. QED
    BY <1>2, <2>1, <2>5, <2>6, <2>7, StoreStep
<1>9. CASE /\ free # <<>> /\ Open # {} /\ header[i].block = 0 /\ Len(free) # 1
  <2>. DEFINE at == free[1]
              rest == Tail(free)
              before == <<Put("bam", 1, bam \cup {free[1], free[2]})>>
  <2>1. Store(n, len, i, at, 0, rest, before)
    BY <1>9 DEF WriteNew, WriteInNewBlock
  <2>2. i \in Index /\ header[i].used # Slot
    BY <1>4, <1>9 DEF Open
  <2>3. Len(free) >= 2 /\ 1 \in 1 .. Len(free) /\ 2 \in 1 .. Len(free)
    <3>1. Len(free) # 0
      BY <1>3, <1>9, EmptySeq
    <3>2. Len(free) # 1
      BY <1>9
    <3>3. Len(free) \in Nat
      BY <1>3
    <3>4. \A x \in Nat : x # 0 /\ x # 1 => x >= 2 /\ 1 \in 1 .. x /\ 2 \in 1 .. x
      OBVIOUS
    <3>. QED
      BY ONLY <3>1, <3>2, <3>3, <3>4
  <2>4. at \in Block /\ at \notin bam
    BY <1>3, <2>3
  <2>5. /\ rest \in Seq(Block) /\ Len(rest) = Len(free) - 1
        /\ \A k \in 1 .. Len(rest) : rest[k] = free[k + 1] /\ k + 1 \in 1 .. Len(free)
    BY <1>3, <2>3
  <2>6. OnlyMaps(before)
    <3>1. Put("bam", 1, bam \cup {free[1], free[2]}) \in BlockWrite
      BY <1>1, <1>3, <2>3 DEF Put, BlockWrite
    <3>2. Put("bam", 1, bam \cup {free[1], free[2]}).part = "bam"
      BY DEF Put
    <3>. DEFINE w == Put("bam", 1, bam \cup {free[1], free[2]})
    <3>. HIDE DEF w
    <3>3. <<w>> \in Seq(BlockWrite) /\ \A u : In(u, <<w>>) => u = w
      BY <3>1 DEF In, w
    <3>. QED
      BY <3>2, <3>3 DEF OnlyMaps, w
  <2>. HIDE DEF i, before
  <2>7. 0 \in Slot \ header[i].used
    <3>1. header[i].used = {}
      BY <1>1, <1>9, <2>2 DEF Sound, DirSound
    <3>. QED
      BY <3>1, Sizes
  <2>8. Room(file, header, bam, i, at, 0, IF header[i].block = 0 THEN Unwritten ELSE file.block[at])
    <3>1. Unwritten \in Content
      BY DEF Content
    <3>. QED
      BY <1>5, <1>9, <2>2, <2>4, <2>7, <3>1 DEF Room
  <2>9. /\ IsFree(rest, bam) /\ Len(rest) >= 1
        /\ \A k \in 1 .. Len(rest) : rest[k] # at
    <3>1. \A j, k \in 1 .. Len(rest) : rest[j] = rest[k] => j = k
      BY <1>3, <2>5
    <3>2. \A k \in 1 .. Len(rest) : rest[k] \notin bam /\ rest[k] # at
      BY <1>3, <2>3, <2>5
    <3>3. Len(rest) <= Blocks /\ Len(rest) >= 1
      BY <1>3, <2>3, <2>5, Sizes
    <3>. HIDE DEF rest
    <3>. QED
      BY <2>5, <3>1, <3>2, <3>3 DEF IsFree
  <2>. HIDE DEF at, rest
  <2>. QED
    BY <2>1, <2>6, <2>8, <2>9, StoreStep
<1>. QED
  BY <1>6, <1>7, <1>8, <1>9

\* A name that is listed has its number in the header, too.
LEMMA PlaceOfIs ==
  ASSUME TypeOK, Len(dir) <= Len(Places(header)), NEW n, Listed(n)
  PROVE  PlaceOf(n) \in Used(header)
<1>. DEFINE K == {k \in DOMAIN dir : dir[k] = n}
<1>1. dir \in Seq(Names) /\ header \in Header
  BY DEF TypeOK
<1>2. DOMAIN dir = 1 .. Len(dir) /\ Len(dir) \in Nat
  BY <1>1
<1>3. K \subseteq 0 .. Len(dir) /\ K # {}
  BY <1>2 DEF Listed, Range
<1>4. Min(K) \in K
  <2>. HIDE DEF K
  <2>. QED
    BY <1>2, <1>3, MinIs
<1>5. NumberOf(n) = Min(K)
  BY DEF NumberOf
<1>6. /\ Len(Places(header)) \in Nat
      /\ \A k \in 1 .. Len(Places(header)) : Places(header)[k] \in Used(header)
  BY <1>1, PlacesUsed
<1>7. Min(K) \in 1 .. Len(Places(header))
  <2>1. Min(K) \in 1 .. Len(dir)
    BY <1>2, <1>4
  <2>. HIDE DEF K
  <2>. QED
    BY <1>2, <1>6, <2>1
<1>. HIDE DEF K
<1>. QED
  BY <1>5, <1>6, <1>7 DEF PlaceOf

\* A directory block with another entry is one.
LEMMA DirBlockTyped ==
  ASSUME NEW content \in Content, NEW slot, NEW e \in Entry
  PROVE  DirBlockWith(content, slot, e) \in Content
<1>1. content.kind = "dir" => content.entry \in [Slot -> Entry \cup {NoEntry}]
  BY DEF Content, Unwritten
<1>. QED
  BY <1>1 DEF DirBlockWith, Content

\* The archive is created with no entry.
LEMMA InitStep == Init => IInv
<1>. SUFFICES ASSUME Init PROVE IInv
  OBVIOUS
<1>1. /\ header = [i \in Index |-> NoDirBlock] /\ bam = Reserved /\ dir = <<>>
      /\ file = [header |-> header, bam |-> bam, block |-> [b \in Block |-> Unwritten]]
      /\ disk = file /\ todo = <<>> /\ result = "OK" /\ damaged = FALSE
  BY DEF Init
<1>2. NoDirBlock \in [block : Block, used : SUBSET Slot] /\ NoDirBlock.block = 0 /\ NoDirBlock.used = {}
  BY Sizes DEF NoDirBlock
<1>3. header \in Header /\ \A i \in Index : header[i] = NoDirBlock
  BY <1>1, <1>2 DEF Header
<1>4. bam \in SUBSET Block /\ bam = Reserved
  BY <1>1, Sizes DEF Reserved
<1>5. /\ file.header = header /\ file.bam = bam
      /\ file \in File
  BY <1>1, <1>3, <1>4 DEF File, Content
<1>6. Used(header) = {}
  BY <1>2, <1>3 DEF Used
<1>7. DirBlocksOf(header) = {}
  BY <1>2, <1>3 DEF DirBlocksOf
<1>8. Sound(file, header, bam)
  <2>1. DirSound(file, header, bam)
    BY <1>2, <1>3, <1>4, <1>7 DEF DirSound
  <2>2. FilesSound(file, header, bam)
    BY <1>6 DEF FilesSound
  <2>. QED
    BY <2>1, <2>2 DEF Sound
<1>9. Len(Places(header)) \in Nat
  BY <1>3, PlacesUsed
<1>10. Len(dir) <= Len(Places(header))
  BY <1>1, <1>9
<1>11. TypeOK
  <2>1. dir \in Seq(Names) /\ todo \in Seq(BlockWrite) /\ disk \in File
    BY <1>1, <1>5
  <2>2. result \in {"OK", "EXIST", "IO", "NOMEM"} /\ damaged \in BOOLEAN
    BY <1>1
  <2>. QED
    BY <1>3, <1>4, <1>5, <2>1, <2>2 DEF TypeOK
<1>12. Fits
  BY <1>5, <1>6, <1>8 DEF Fits
<1>. QED
  BY <1>10, <1>11, <1>12 DEF IInv

\* A write reaches the disk.
LEMMA FlushStep == IInv /\ Flush => IInv'
<1>. SUFFICES ASSUME IInv, Flush PROVE IInv'
  OBVIOUS
<1>. DEFINE w == Head(todo)
<1>1. /\ disk' = Written(disk, w) /\ todo' = Tail(todo) /\ todo # <<>>
      /\ header' = header /\ bam' = bam /\ dir' = dir /\ file' = file
      /\ result' = result /\ damaged' = damaged
  BY DEF Flush
<1>2. todo \in Seq(BlockWrite) /\ disk \in File
  BY DEF IInv, TypeOK
<1>3. w \in BlockWrite /\ todo' \in Seq(BlockWrite)
  BY <1>1, <1>2
<1>. HIDE DEF w
<1>4. disk' \in File
  <2>1. CASE w.part = "header" /\ w.value \in Header
    BY <1>1, <1>2, <2>1 DEF Written, File
  <2>2. CASE w.part = "bam" /\ w.value \in SUBSET Block
    BY <1>1, <1>2, <2>2 DEF Written, File
  <2>3. CASE w.part = "block" /\ w.at \in Block /\ w.value \in Content
    <3>1. disk' = [disk EXCEPT !.block[w.at] = w.value]
      BY <1>1, <2>3 DEF Written
    <3>2. disk.block \in [Block -> Content]
      BY <1>2 DEF File
    <3>3. disk' = [disk EXCEPT !.block = [disk.block EXCEPT ![w.at] = w.value]]
      BY <3>1
    <3>4. [disk.block EXCEPT ![w.at] = w.value] \in [Block -> Content]
      BY <2>3, <3>2
    <3>. QED
      BY <1>2, <3>3, <3>4 DEF File
  <2>. QED
    BY <1>3, <2>1, <2>2, <2>3 DEF BlockWrite
<1>5. Fits'
  BY <1>1 DEF IInv, Fits
<1>. QED
  BY <1>1, <1>3, <1>4, <1>5 DEF IInv, TypeOK

\* Tape::add() and the like.
LEMMA AddStep ==
  ASSUME IInv, NEW n \in Names, NEW len \in Lens, NEW dialog, Add(n, len, dialog)
  PROVE  IInv'
<1>1. /\ TypeOK /\ Fits /\ Ready /\ Write(n, len)
      /\ dir' = IF dialog THEN Listing(file, header) ELSE Listing(file', header')
  BY DEF IInv, Add
<1>2. Left /\ \A j \in Index : header[j].used \subseteq header'[j].used
  <2>1. CASE Refused("EXIST", bam)
    <3>1. bam \in SUBSET Block
      BY <1>1 DEF TypeOK
    <3>. QED
      BY <1>1, <2>1, <3>1, RefusedStep
  <2>2. CASE WriteNew(n, len)
    BY <1>1, <2>2, WriteNewStep
  <2>. QED
    BY <1>1, <2>1, <2>2 DEF Write
<1>3. CASE dir' = Listing(file', header')
  BY <1>2, <1>3, ReadAnew
<1>4. CASE dir' = Listing(file, header)
  <2>1. header \in Header /\ \A p \in Used(header) : EntryAt(file, header, p) \in Entry
    BY <1>1 DEF TypeOK, Fits
  <2>2. dir' \in Seq(Names) /\ Len(dir') = Len(Places(header))
    BY <1>4, <2>1, ListingIs
  <2>3. header' \in Header
    BY <1>2 DEF Left
  <2>4. Len(Places(header)) <= Len(Places(header'))
    BY <1>2, <2>1, <2>3, PlacesGrow
  <2>. QED
    BY <1>2, <2>2, <2>4 DEF Left, IInv, TypeOK
<1>. QED
  BY <1>1, <1>3, <1>4

\* Tape::remove().
LEMMA RemoveStep ==
  ASSUME IInv, NEW n \in Names, Remove(n)
  PROVE  /\ IInv' /\ header' = Without(header, PlaceOf(n)) /\ file'.block = file.block
         /\ file'.bam = bam'
         /\ bam' = bam \ (GivenUp(header, PlaceOf(n)) \cup DataOf(file, header, PlaceOf(n)))
<1>. DEFINE p == PlaceOf(n)
            h2 == Without(header, p)
            map2 == bam \ (GivenUp(header, p) \cup DataOf(file, header, p))
            H == Put("header", 0, h2)
            M == Put("bam", 1, map2)
<1>1. /\ header \in Header /\ bam \in SUBSET Block /\ file \in File /\ disk \in File
      /\ Sound(file, header, bam) /\ TypeOK /\ Len(dir) <= Len(Places(header)) /\ Listed(n)
      /\ ~damaged
  BY DEF IInv, TypeOK, Fits, Remove, Ready
<1>2. p \in Used(header)
  BY <1>1, PlaceOfIs
<1>3. HeaderWithout(p) = h2
  BY DEF HeaderWithout, Without
<1>4. /\ header' = h2 /\ bam' = map2 /\ todo' = <<H, M>> /\ file' = After(file, <<H, M>>)
      /\ dir' = Listing(file, header')
      /\ result' = "OK" /\ disk' = disk /\ damaged' = damaged
  <2>. HIDE DEF p
  <2>. QED
    BY <1>3 DEF Remove, p, GivenUp, DataOf, Writes
<1>5. h2 \in Header /\ map2 \in SUBSET Block
  BY <1>1, <1>2, WithoutIs
<1>6. /\ H \in BlockWrite /\ H.part = "header" /\ H.at = 0 /\ H.value = h2
      /\ M \in BlockWrite /\ M.part = "bam" /\ M.at = 1 /\ M.value = map2
  <2>. HIDE DEF h2, map2
  <2>. QED
    BY <1>5 DEF Put, BlockWrite
<1>. HIDE DEF H, M
<1>7. <<H, M>> \in Seq(BlockWrite) /\ \A w : In(w, <<H, M>>) <=> w = H \/ w = M
  <2>1. <<H, M>> \in Seq(BlockWrite) /\ Len(<<H, M>>) = 2 /\ <<H, M>>[1] = H /\ <<H, M>>[2] = M
    BY <1>6
  <2>. QED
    BY <2>1 DEF In
<1>. DEFINE s == <<H, M>>
<1>. HIDE DEF s, p, h2, map2
<1>8. s \in Seq(BlockWrite) /\ \A w : In(w, s) <=> w = H \/ w = M
  BY <1>7 DEF s
<1>9. /\ file' \in File
      /\ file'.header = LastWrite(s, "header", 0, file.header)
      /\ file'.bam = LastWrite(s, "bam", 1, file.bam)
      /\ \A b \in Block : file'.block[b] = LastWrite(s, "block", b, file.block[b])
  <2>1. file' = After(file, s)
    BY <1>4 DEF s
  <2>. QED
    BY <1>1, <1>8, <2>1, AfterTyped
<1>10. file'.header = h2
  <2>1. OnlyWrites(s, "header", 0, h2)
    BY <1>6, <1>8 DEF OnlyWrites
  <2>. QED
    BY <1>8, <1>9, <2>1, WrittenAlike
<1>11. file'.bam = map2
  <2>1. OnlyWrites(s, "bam", 1, map2)
    BY <1>6, <1>8 DEF OnlyWrites
  <2>. QED
    BY <1>8, <1>9, <2>1, WrittenAlike
<1>12. file'.block = file.block
  <2>1. ASSUME NEW b \in Block PROVE file'.block[b] = file.block[b]
    <3>1. \A w : In(w, s) => ~(w.part = "block" /\ w.at = b)
      BY <1>6, <1>8
    <3>. QED
      BY <1>8, <1>9, <3>1, NotWritten
  <2>2. file.block \in [Block -> Content] /\ file'.block \in [Block -> Content]
    BY <1>1, <1>9 DEF File
  <2>. QED
    BY <2>1, <2>2
<1>13. Sound(file', h2, map2)
  BY <1>1, <1>2, <1>9, <1>12, FileRemoved DEF h2, map2
<1>14. \A r \in Used(h2) : EntryAt(file', h2, r) \in Entry
  BY <1>5, <1>9, <1>13, SoundFile
<1>15. Fits'
  BY <1>4, <1>10, <1>11, <1>13, <1>14 DEF Fits
<1>16. Left
  <2>1. damaged' \in BOOLEAN /\ result' \in {"OK", "EXIST", "IO", "NOMEM"}
    BY <1>1, <1>4 DEF TypeOK
  <2>2. header' \in Header /\ bam' \in SUBSET Block /\ todo' \in Seq(BlockWrite) /\ disk' \in File
    BY <1>1, <1>4, <1>5, <1>8 DEF s
  <2>. QED
    BY <1>9, <1>15, <2>1, <2>2 DEF Left
<1>17. Listing(file, header') = Listing(file', header')
  BY <1>12 DEF Listing, EntryAt
<1>18. IInv'
  BY <1>4, <1>16, <1>17, ReadAnew
<1>. QED
  BY <1>4, <1>11, <1>12, <1>18 DEF h2, map2, p

\* Tape::rename().
LEMMA RenameStep ==
  ASSUME IInv, NEW from \in Names, NEW to \in Names, Rename(from, to)
  PROVE  /\ IInv' /\ header' = header /\ Retitled(file, header, PlaceOf(from), to, file')
         /\ bam' = bam /\ file'.bam = file.bam
<1>. DEFINE p == PlaceOf(from)
            at == header[p[1]].block
            e == [EntryAt(file, header, p) EXCEPT !.name = to]
            content == DirBlockWith(file.block[at], p[2], e)
            B == Put("block", at, content)
            s == <<B>>
<1>1. /\ header \in Header /\ bam \in SUBSET Block /\ file \in File /\ disk \in File
      /\ Sound(file, header, bam) /\ Sound(file, header, file.bam) /\ file.bam \in SUBSET Block
      /\ file.header = header
      /\ TypeOK /\ Len(dir) <= Len(Places(header)) /\ Listed(from) /\ ~damaged
  BY DEF IInv, TypeOK, Fits, Rename, Ready, File
<1>2. p \in Used(header)
  BY <1>1, PlaceOfIs
<1>3. /\ header' = header /\ bam' = bam /\ todo' = s /\ file' = After(file, s)
      /\ dir' = Listing(file', header)
      /\ result' = "OK" /\ disk' = disk /\ damaged' = damaged
  <2>. HIDE DEF p
  <2>. QED
    BY DEF Rename, p, Writes
<1>. HIDE DEF p
<1>4. at \in Block /\ EntryAt(file, header, p) \in Entry
  BY <1>1, <1>2, PlaceIs, SoundFile
<1>. HIDE DEF at
<1>5. e \in Entry
  BY <1>4 DEF Entry
<1>. HIDE DEF e
<1>6. content \in Content
  <2>1. file.block[at] \in Content
    BY <1>1, <1>4, Contents
  <2>. QED
    BY <1>5, <2>1, DirBlockTyped
<1>. HIDE DEF content
<1>7. B \in BlockWrite /\ B.part = "block" /\ B.at = at /\ B.value = content
  BY <1>4, <1>6 DEF Put, BlockWrite
<1>. HIDE DEF B
<1>8. s \in Seq(BlockWrite) /\ \A w : In(w, s) <=> w = B
  <2>1. s \in Seq(BlockWrite) /\ Len(s) = 1 /\ s[1] = B
    BY <1>7
  <2>. QED
    BY <2>1 DEF In
<1>. HIDE DEF s
<1>9. /\ file' \in File
      /\ file'.header = LastWrite(s, "header", 0, file.header)
      /\ file'.bam = LastWrite(s, "bam", 1, file.bam)
      /\ \A b \in Block : file'.block[b] = LastWrite(s, "block", b, file.block[b])
  BY <1>1, <1>3, <1>8, AfterTyped
<1>10. file'.header = header
  <2>1. \A w : In(w, s) => ~(w.part = "header" /\ w.at = 0)
    BY <1>7, <1>8
  <2>. QED
    BY <1>1, <1>8, <1>9, <2>1, NotWritten
<1>11. file'.bam = file.bam
  <2>1. \A w : In(w, s) => ~(w.part = "bam" /\ w.at = 1)
    BY <1>7, <1>8
  <2>. QED
    BY <1>8, <1>9, <2>1, NotWritten
<1>12. file'.block[at] = content
  <2>1. OnlyWrites(s, "block", at, content)
    BY <1>7, <1>8 DEF OnlyWrites
  <2>. QED
    BY <1>4, <1>8, <1>9, <2>1, WrittenAlike
<1>13. ASSUME NEW b \in Block, b # at PROVE file'.block[b] = file.block[b]
  <2>1. \A w : In(w, s) => ~(w.part = "block" /\ w.at = b)
    BY <1>7, <1>8, <1>13
  <2>. QED
    BY <1>8, <1>9, <2>1, NotWritten
<1>14. /\ Sound(file', header, bam) /\ Sound(file', header, file.bam)
       /\ Retitled(file, header, p, to, file')
  <2>1. Renamed(file, header, p, to, file')
    BY <1>12, <1>13 DEF content, e, at, Renamed
  <2>2. file' \in File
    BY <1>9
  <2>. QED
    BY <1>1, <1>2, <2>1, <2>2, FileRenamed
<1>15. \A r \in Used(header) : EntryAt(file', header, r) \in Entry
  BY <1>1, <1>9, <1>14, SoundFile
<1>16. Fits'
  BY <1>3, <1>10, <1>11, <1>14, <1>15 DEF Fits
<1>17. Left
  <2>1. damaged' \in BOOLEAN /\ result' \in {"OK", "EXIST", "IO", "NOMEM"}
    BY <1>1, <1>3 DEF TypeOK
  <2>2. header' \in Header /\ bam' \in SUBSET Block /\ todo' \in Seq(BlockWrite) /\ disk' \in File
    BY <1>1, <1>3, <1>8
  <2>. QED
    BY <1>9, <1>16, <2>1, <2>2 DEF Left
<1>. QED
  BY <1>3, <1>11, <1>14, <1>17, ReadAnew DEF p

\* Tape::detach() and Tape::attach().
LEMMA ReopenStep == IInv /\ Reopen => IInv'
<1>. SUFFICES ASSUME IInv, Reopen PROVE IInv'
  OBVIOUS
<1>1. /\ header' = file.header /\ bam' = file.bam /\ dir' = Listing(file, file.header)
      /\ result' = "OK" /\ file' = file /\ disk' = disk /\ todo' = todo /\ damaged' = damaged
  BY DEF Reopen
<1>2. /\ TypeOK /\ Fits /\ file.header = header /\ file.bam \in SUBSET Block
  BY DEF IInv, Fits, TypeOK, File
<1>3. Fits'
  BY <1>1, <1>2 DEF Fits
<1>4. Left
  BY <1>1, <1>2, <1>3 DEF Left, TypeOK
<1>. QED
  BY <1>1, <1>4, ReadAnew

\* The emulator was killed, and what is on the disk is attached again.
LEMMA RestartStep == IInv /\ Restart => IInv'
<1>. SUFFICES ASSUME IInv, Restart PROVE IInv'
  OBVIOUS
<1>1. /\ header' = disk.header /\ bam' = disk.bam /\ dir' = Listing(disk, disk.header)
      /\ result' = "OK" /\ file' = disk /\ disk' = disk /\ todo' = <<>> /\ damaged' = FALSE
      /\ Sound(disk, disk.header, disk.bam)
  BY DEF Restart
<1>2. disk \in File /\ disk.header \in Header /\ disk.bam \in SUBSET Block
  BY DEF IInv, TypeOK, File
<1>3. \A p \in Used(disk.header) : EntryAt(disk, disk.header, p) \in Entry
  BY <1>1, <1>2, SoundFile
<1>4. Fits'
  BY <1>1, <1>3 DEF Fits
<1>5. Left
  <2>1. damaged' \in BOOLEAN /\ result' \in {"OK", "EXIST", "IO", "NOMEM"}
    BY <1>1 DEF TypeOK
  <2>2. header' \in Header /\ bam' \in SUBSET Block /\ todo' \in Seq(BlockWrite) /\ disk' \in File /\ file' \in File
    BY <1>1, <1>2
  <2>. QED
    BY <1>4, <2>1, <2>2 DEF Left
<1>. QED
  BY <1>1, <1>5, ReadAnew

-----------------------------------------------------------------------------

\* Every operation, every write that reaches the disk and every restart keeps
\* the invariant.
LEMMA NextStep == IInv /\ [Next]_vars => IInv'
<1>. SUFFICES ASSUME IInv, [Next]_vars PROVE IInv'
  OBVIOUS
<1>1. CASE Flush
  BY <1>1, FlushStep
<1>2. CASE \E n \in Names, len \in Lens, dialog \in Dialogs : Add(n, len, dialog)
  BY <1>2, AddStep
<1>3. CASE \E n \in Names : Remove(n)
  BY <1>3, RemoveStep
<1>4. CASE \E from, to \in Names : Rename(from, to)
  BY <1>4, RenameStep
<1>5. CASE Reopen
  BY <1>5, ReopenStep
<1>6. CASE Restart
  BY <1>6, RestartStep
<1>7. CASE UNCHANGED vars
  BY <1>7 DEF vars, IInv, TypeOK, Fits
<1>. QED
  BY <1>1, <1>2, <1>3, <1>4, <1>5, <1>6, <1>7 DEF Next

\* The invariant holds throughout.
THEOREM Invariance == Spec => []IInv
<1>. QED
  BY InitStep, NextStep, PTL DEF Spec

\* Whatever files are added, removed and renamed, and whenever the emulator is
\* killed: as long as no write ran out of blocks halfway, each entry of the
\* archive leads to its data, no block belongs to two files, and none of a
\* file's blocks is free (kct.cc, write and remove).
THEOREM ArchiveIsSound == Spec => []ArchiveSound
<1>1. IInv => ArchiveSound
  BY DEF IInv, Fits, ArchiveSound
<1>. QED
  BY <1>1, Invariance, PTL

-----------------------------------------------------------------------------
(***************************************************************************)
(* Where the entries are.                                                  *)
(***************************************************************************)

\* It finds each of them.
LEMMA AscendingAll ==
  ASSUME NEW S, NEW n \in Nat, NEW x \in S, x \in 0 .. n - 1
  PROVE  In(x, Ascending(S, n))
<1>1. PICK scan : Scan(S, n, scan) /\ Ascending(S, n) = scan[n]
  BY AscendingScan
<1>2. /\ \A k \in 0 .. n : scan[k] \in Seq(Int)
      /\ \A k \in 1 .. n : scan[k] = ScanStep(S, k, scan[k - 1])
  BY <1>1 DEF Scan
<1>. DEFINE T == {k \in 0 .. n : x < k => In(x, scan[k])}
<1>3. 0 \in T
  OBVIOUS
<1>4. ASSUME NEW k \in 1 .. n, k - 1 \in T
      PROVE  k \in T
  <2>. DEFINE s == scan[k - 1]
  <2>1. s \in Seq(Int) /\ k \in 0 .. n /\ (x < k - 1 => In(x, s))
    BY <1>2, <1>4
  <2>2. scan[k] = IF k - 1 \in S THEN Append(s, k - 1) ELSE s
    BY <1>2 DEF ScanStep
  <2>. HIDE DEF s
  <2>3. /\ Len(Append(s, k - 1)) = Len(s) + 1 /\ Len(s) \in Nat
        /\ Append(s, k - 1)[Len(s) + 1] = k - 1
        /\ \A i \in 1 .. Len(s) : Append(s, k - 1)[i] = s[i]
    BY <2>1
  <2>4. x < k - 1 => In(x, scan[k])
    BY <2>1, <2>2, <2>3 DEF In
  <2>5. x = k - 1 => In(x, scan[k])
    <3>1. Len(s) + 1 \in 1 .. Len(s) + 1
      BY <2>3
    <3>. QED
      BY <2>2, <2>3, <3>1 DEF In
  <2>. QED
    BY <2>1, <2>4, <2>5
<1>. HIDE DEF T
<1>5. n \in T
  <2>1. \A k \in 0 .. n : k \in T
    BY <1>3, <1>4, Induction
  <2>. QED
    BY <2>1
<1>. QED
  BY <1>1, <1>5 DEF T

\* Each used entry has its place.
LEMMA PlacesAll ==
  ASSUME NEW h \in Header, NEW p \in Used(h)
  PROVE  In(p, Places(h))
<1>1. PICK rows : Rows(h, rows) /\ Places(h) = rows[DirBlocks]
  BY PlacesRows
<1>2. DirBlocks \in Nat /\ Index = 1 .. DirBlocks
  BY SizeAssumption DEF Index
<1>3. /\ \A i \in 0 .. DirBlocks : rows[i] \in Seq(Index \X Slot)
      /\ \A i \in 1 .. DirBlocks : rows[i] = rows[i - 1] \o Row(h, i)
  BY <1>1, <1>2 DEF Rows
<1>4. In(p, Row(h, p[1]))
  <2>. DEFINE s == Ascending(h[p[1]].used, Slots)
  <2>1. /\ p[1] \in Index /\ p[2] \in Slot /\ p = <<p[1], p[2]>> /\ p[2] \in h[p[1]].used
    BY PlaceIs
  <2>2. Slots \in Nat /\ p[2] \in 0 .. Slots - 1
    BY <2>1, Sizes
  <2>3. PICK k \in 1 .. Len(s) : s[k] = p[2]
    BY <2>1, <2>2, AscendingAll DEF In
  <2>4. s \in Seq(Int)
    BY <2>2, AscendingIs
  <2>5. Row(h, p[1]) = [j \in 1 .. Len(s) |-> <<p[1], s[j]>>]
    BY <2>4 DEF Row
  <2>6. Len(Row(h, p[1])) = Len(s)
    BY <2>1, RowIs
  <2>. HIDE DEF s
  <2>7. Row(h, p[1])[k] = <<p[1], s[k]>>
    BY <2>3, <2>5
  <2>. QED
    BY <2>1, <2>3, <2>6, <2>7 DEF In
<1>. DEFINE T == {i \in 0 .. DirBlocks : p[1] <= i => In(p, rows[i])}
<1>5. 0 \in T
  BY <1>2, PlaceIs
<1>6. ASSUME NEW i \in 1 .. DirBlocks, i - 1 \in T
      PROVE  i \in T
  <2>1. i \in 0 .. DirBlocks /\ i - 1 \in 0 .. DirBlocks /\ i \in Index /\ p[1] \in 1 .. DirBlocks
    BY <1>2, PlaceIs
  <2>2. rows[i - 1] \in Seq(Index \X Slot) /\ Row(h, i) \in Seq(Index \X Slot)
    BY <1>3, <2>1, RowIs
  <2>3. In(p, rows[i]) <=> In(p, rows[i - 1]) \/ In(p, Row(h, i))
    <3>1. In(p, rows[i - 1] \o Row(h, i)) <=> In(p, rows[i - 1]) \/ In(p, Row(h, i))
      BY ONLY <2>2, InJoined
    <3>. QED
      BY <1>3, <3>1
  <2>4. p[1] <= i - 1 => In(p, rows[i - 1])
    BY <1>6
  <2>5. p[1] = i => In(p, Row(h, i))
    BY <1>4
  <2>6. p[1] <= i => p[1] <= i - 1 \/ p[1] = i
    BY <2>1
  <2>. QED
    BY <2>1, <2>3, <2>4, <2>5, <2>6
<1>. HIDE DEF T
<1>7. DirBlocks \in T
  <2>1. \A i \in 0 .. DirBlocks : i \in T
    BY <1>2, <1>5, <1>6, Induction
  <2>. QED
    BY <1>2, <2>1
<1>. QED
  BY <1>1, <1>2, <1>7, PlaceIs DEF T

\* Removing an entry leaves the others as they are.
LEMMA UsedWithout ==
  ASSUME NEW d, NEW h \in Header, NEW p \in Used(h)
  PROVE  /\ Used(Without(h, p)) = Used(h) \ {p}
         /\ \A q \in Used(Without(h, p)) : EntryAt(d, Without(h, p), q) = EntryAt(d, h, q)
<1>. DEFINE i == p[1]
            left == h[i].used \ {p[2]}
            new == IF left = {} THEN NoDirBlock ELSE [h[i] EXCEPT !.used = left]
            g == Without(h, p)
<1>1. /\ i \in Index /\ p[2] \in Slot /\ p = <<p[1], p[2]>> /\ p[2] \in h[i].used
      /\ h[i] \in [block : Block, used : SUBSET Slot]
  BY PlaceIs DEF Header
<1>2. g = [h EXCEPT ![i] = new]
  BY DEF Without
<1>3. new.used = left /\ (left # {} => new.block = h[i].block)
  BY <1>1 DEF NoDirBlock
<1>. HIDE DEF new
<1>4. g[i] = new /\ \A j \in Index : j # i => g[j] = h[j]
  BY <1>1, <1>2 DEF Header
<1>. HIDE DEF g
<1>5. ASSUME NEW q \in Index \X Slot
      PROVE  /\ q \in Used(g) <=> q \in Used(h) /\ q # p
             /\ q \in Used(g) => g[q[1]].block = h[q[1]].block
  <2>1. /\ q[1] \in Index /\ q = <<q[1], q[2]>>
        /\ (q \in Used(g) <=> q[2] \in g[q[1]].used)
        /\ (q \in Used(h) <=> q[2] \in h[q[1]].used)
    BY DEF Used
  <2>2. q = p <=> q[1] = i /\ q[2] = p[2]
    BY <1>1, <2>1
  <2>. QED
    BY <1>3, <1>4, <2>1, <2>2
<1>6. \A q \in Used(g) : EntryAt(d, g, q) = EntryAt(d, h, q)
  BY <1>5 DEF Used, EntryAt
<1>7. Used(g) = Used(h) \ {p}
  <2>1. Used(g) \subseteq Index \X Slot /\ Used(h) \subseteq Index \X Slot
    BY DEF Used
  <2>. QED
    BY <1>5, <2>1
<1>. QED
  BY <1>6, <1>7 DEF g
-----------------------------------------------------------------------------
(***************************************************************************)
(* The files under their names.                                            *)
(***************************************************************************)

\* Each used entry of the header h is an entry.
Filled(d, h) == h \in Header /\ \A p \in Used(h) : EntryAt(d, h, p) \in Entry

\* No two entries have the same name.
UniqueIn(d, h) ==
  \A p, q \in Used(h) : EntryAt(d, h, p).name = EntryAt(d, h, q).name => p = q

\* The entry p is that of a file n that can be read.
IsFile(d, h, n, p) == EntryAt(d, h, p).name = n /\ Readable(d, EntryAt(d, h, p))

FilesOf(d, h) ==
  LET whole == {e \in EntriesOf(d, h) : Readable(d, e)}
  IN  [n \in Names |-> IF \E e \in whole : e.name = n
                         THEN (CHOOSE e \in whole : e.name = n).len ELSE NoEntry]

\* What the files are when no two have the same name.
LEMMA FilesAre ==
  ASSUME NEW d, NEW h, UniqueIn(d, h), NEW n \in Names
  PROVE  /\ \A p \in Used(h) : IsFile(d, h, n, p) => FilesOf(d, h)[n] = EntryAt(d, h, p).len
         /\ (\A p \in Used(h) : ~IsFile(d, h, n, p)) => FilesOf(d, h)[n] = NoEntry
<1>. DEFINE whole == {e \in EntriesOf(d, h) : Readable(d, e)}
<1>1. FilesOf(d, h)[n] = IF \E e \in whole : e.name = n
                           THEN (CHOOSE e \in whole : e.name = n).len ELSE NoEntry
  BY DEF FilesOf
<1>2. \A e : e \in whole /\ e.name = n <=> \E p \in Used(h) : e = EntryAt(d, h, p) /\ IsFile(d, h, n, p)
  BY DEF EntriesOf, IsFile
<1>. HIDE DEF whole
<1>3. ASSUME NEW p \in Used(h), IsFile(d, h, n, p)
      PROVE  FilesOf(d, h)[n] = EntryAt(d, h, p).len
  <2>1. \E e \in whole : e.name = n
    BY <1>2, <1>3
  <2>. DEFINE e == CHOOSE x \in whole : x.name = n
  <2>2. e \in whole /\ e.name = n
    BY <2>1
  <2>. HIDE DEF e
  <2>3. PICK q \in Used(h) : e = EntryAt(d, h, q) /\ IsFile(d, h, n, q)
    BY <1>2, <2>2
  <2>4. q = p
    BY <1>3, <2>3 DEF UniqueIn, IsFile
  <2>. QED
    BY <1>1, <2>1, <2>3, <2>4 DEF e
<1>4. (\A p \in Used(h) : ~IsFile(d, h, n, p)) => FilesOf(d, h)[n] = NoEntry
  BY <1>1, <1>2
<1>. QED
  BY <1>3, <1>4

\* The same files.
LEMMA FilesSame ==
  ASSUME NEW d, NEW h, NEW d2, NEW h2,
         \A n \in Names : FilesOf(d2, h2)[n] = FilesOf(d, h)[n]
  PROVE  FilesOf(d2, h2) = FilesOf(d, h)
<1>1. /\ FilesOf(d, h) = [n \in Names |-> FilesOf(d, h)[n]]
      /\ FilesOf(d2, h2) = [n \in Names |-> FilesOf(d2, h2)[n]]
  BY DEF FilesOf
<1>. QED
  BY ONLY <1>1, Extensional, \A n \in Names : FilesOf(d2, h2)[n] = FilesOf(d, h)[n]

\* The names that readdir() lists are those of the entries.
LEMMA NamesListed ==
  ASSUME NEW d, NEW h, Filled(d, h)
  PROVE  /\ \A n : n \in Range(Listing(d, h)) <=> \E p \in Used(h) : EntryAt(d, h, p).name = n
         /\ IsInjective(Listing(d, h)) => UniqueIn(d, h)
<1>. DEFINE s == Places(h)
<1>1. /\ s \in Seq(Index \X Slot) /\ Len(s) \in Nat
      /\ \A k \in 1 .. Len(s) : s[k] \in Used(h)
      /\ \A p \in Used(h) : \E k \in 1 .. Len(s) : s[k] = p
  BY PlacesUsed, PlacesAll DEF Filled, In
<1>2. /\ Listing(d, h) = [k \in 1 .. Len(s) |-> EntryAt(d, h, s[k]).name]
  BY <1>1 DEF Listing
<1>. HIDE DEF s
<1>3. \A n : n \in Range(Listing(d, h)) <=> \E p \in Used(h) : EntryAt(d, h, p).name = n
  <2>1. DOMAIN Listing(d, h) = 1 .. Len(s)
        /\ \A k \in 1 .. Len(s) : Listing(d, h)[k] = EntryAt(d, h, s[k]).name
    BY <1>2
  <2>2. \A n : n \in Range(Listing(d, h)) <=> \E k \in 1 .. Len(s) : n = EntryAt(d, h, s[k]).name
    BY <2>1 DEF Range
  <2>. QED
    BY ONLY <1>1, <2>2
<1>4. ASSUME IsInjective(Listing(d, h)), NEW p \in Used(h), NEW q \in Used(h),
             EntryAt(d, h, p).name = EntryAt(d, h, q).name
      PROVE  p = q
  <2>1. PICK j \in 1 .. Len(s) : s[j] = p
    BY <1>1
  <2>2. PICK k \in 1 .. Len(s) : s[k] = q
    BY <1>1
  <2>3. Listing(d, h)[j] = Listing(d, h)[k] /\ DOMAIN Listing(d, h) = 1 .. Len(s)
    BY <1>2, <1>4, <2>1, <2>2
  <2>4. j = k
    BY <1>4, <2>3 DEF IsInjective
  <2>. QED
    BY <2>1, <2>2, <2>4
<1>. QED
  BY <1>3, <1>4 DEF UniqueIn

\* The deck's list of names is that of the archive, which has none twice.
NInv == dir = Listing(file, header) /\ UniqueIn(file, header)

\* A name that is listed leads to its entry.
LEMMA PlaceFound ==
  ASSUME IInv, NInv, NEW n, Listed(n)
  PROVE  PlaceOf(n) \in Used(header) /\ EntryAt(file, header, PlaceOf(n)).name = n
<1>. DEFINE K == {k \in DOMAIN dir : dir[k] = n}
            s == Places(header)
<1>1. dir \in Seq(Names) /\ DOMAIN dir = 1 .. Len(dir) /\ Len(dir) \in Nat
  BY DEF IInv, TypeOK
<1>2. K \subseteq 0 .. Len(dir) /\ K # {}
  BY <1>1 DEF Listed, Range
<1>3. Min(K) \in K
  <2>. HIDE DEF K
  <2>. QED
    BY <1>1, <1>2, MinIs
<1>4. PlaceOf(n) = s[Min(K)]
  BY DEF PlaceOf, NumberOf
<1>5. dir[Min(K)] = n /\ Min(K) \in DOMAIN dir
  BY <1>3
<1>. HIDE DEF K
<1>6. dir = [k \in DOMAIN s |-> EntryAt(file, header, s[k]).name]
  BY DEF NInv, Listing
<1>. HIDE DEF s
<1>7. EntryAt(file, header, s[Min(K)]).name = n
  BY <1>5, <1>6
<1>8. PlaceOf(n) \in Used(header)
  BY PlaceOfIs DEF IInv
<1>. QED
  BY <1>4, <1>7, <1>8

\* A name that is not listed is that of no entry.
LEMMA NotListed ==
  ASSUME IInv, NInv
  PROVE  /\ Filled(file, header)
         /\ \A n : Listed(n) <=> \E p \in Used(header) : EntryAt(file, header, p).name = n
<1>1. Filled(file, header)
  BY DEF IInv, TypeOK, Fits, Filled
<1>. QED
  BY <1>1, NamesListed DEF NInv, Listed
\* Every file can be found under its name and read.
Whole(d, h) ==
  Filled(d, h) /\ UniqueIn(d, h) /\ \A p \in Used(h) : Readable(d, EntryAt(d, h, p))

\* What its files are, then.
LEMMA WholeIs ==
  ASSUME NEW d, NEW h, Whole(d, h), NEW n \in Names
  PROVE  /\ \A p \in Used(h) : EntryAt(d, h, p).name = n =>
              FilesOf(d, h)[n] = EntryAt(d, h, p).len /\ FilesOf(d, h)[n] # NoEntry
         /\ (\A p \in Used(h) : EntryAt(d, h, p).name # n) => FilesOf(d, h)[n] = NoEntry
<1>1. UniqueIn(d, h)
  BY DEF Whole
<1>2. ASSUME NEW p \in Used(h), EntryAt(d, h, p).name = n
      PROVE  FilesOf(d, h)[n] = EntryAt(d, h, p).len /\ FilesOf(d, h)[n] # NoEntry
  <2>1. IsFile(d, h, n, p)
    BY <1>2 DEF Whole, IsFile
  <2>2. EntryAt(d, h, p).len \in Lens
    BY DEF Whole, Filled, Entry
  <2>. QED
    BY <1>1, <2>1, <2>2, FilesAre, NoEntryAssumption
<1>3. (\A p \in Used(h) : EntryAt(d, h, p).name # n) => FilesOf(d, h)[n] = NoEntry
  BY <1>1, FilesAre DEF IsFile
<1>. QED
  BY <1>2, <1>3

\* An archive that fits together is whole if no name is in it twice.
LEMMA SoundWhole ==
  ASSUME NEW d \in File, NEW h \in Header, NEW map \in SUBSET Block, Sound(d, h, map),
         UniqueIn(d, h)
  PROVE  Whole(d, h)
BY SoundFile DEF Whole, Filled

\* The files before and after a step.
LEMMA FilesHere ==
  /\ files = FilesOf(file, header) /\ files' = FilesOf(file', header')
  /\ files = [n \in Names |-> files[n]] /\ files' = [n \in Names |-> files'[n]]
BY DEF files, FilesOf

\* A file is put in the archive, under a name that was not there.
LEMMA NewFileStep ==
  ASSUME Whole(file, header), NEW n \in Names, NEW len \in Lens,
         \A p \in Used(header) : EntryAt(file, header, p).name # n,
         NewFile(n, len)
  PROVE  UniqueIn(file', header') /\ (A!Add(n, len) \/ files' = files)
<1>1. PICK q \in Used(header') :
        /\ EntryAt(file', header', q).name = n /\ EntryAt(file', header', q).len = len
        /\ \A p \in Used(header') : p \in Used(header) \/ p = q
        /\ \A p \in Used(header) : /\ p \in Used(header') /\ p # q
                                   /\ EntryAt(file', header', p) = EntryAt(file, header, p)
                                   /\ Readable(file', EntryAt(file, header, p))
  BY DEF NewFile
<1>2. UniqueIn(file', header')
  BY <1>1 DEF UniqueIn, Whole
<1>3. ASSUME NEW m \in Names, m # n
      PROVE  files'[m] = files[m]
  <2>1. CASE \E p \in Used(header) : EntryAt(file, header, p).name = m
    <3>1. PICK p \in Used(header) : EntryAt(file, header, p).name = m
      BY <2>1
    <3>2. p \in Used(header') /\ IsFile(file', header', m, p)
          /\ EntryAt(file', header', p) = EntryAt(file, header, p)
      BY <1>1, <3>1 DEF IsFile
    <3>3. FilesOf(file', header')[m] = EntryAt(file', header', p).len
      BY <1>2, <3>2, FilesAre
    <3>4. FilesOf(file, header)[m] = EntryAt(file, header, p).len
      BY <3>1, WholeIs
    <3>. QED
      BY <3>2, <3>3, <3>4, FilesHere
  <2>2. CASE \A p \in Used(header) : EntryAt(file, header, p).name # m
    <3>1. \A p \in Used(header') : ~IsFile(file', header', m, p)
      BY <1>1, <1>3, <2>2 DEF IsFile
    <3>2. FilesOf(file', header')[m] = NoEntry
      BY <1>2, <3>1, FilesAre
    <3>3. FilesOf(file, header)[m] = NoEntry
      BY <2>2, WholeIs
    <3>. QED
      BY <3>2, <3>3, FilesHere
  <2>. QED
    BY <2>1, <2>2
<1>4. files[n] = NoEntry
  BY WholeIs, FilesHere
<1>5. files'[n] = len \/ files'[n] = NoEntry
  <2>1. CASE IsFile(file', header', n, q)
    <3>1. FilesOf(file', header')[n] = EntryAt(file', header', q).len
      BY <1>2, <2>1, FilesAre
    <3>. QED
      BY <1>1, <3>1, FilesHere
  <2>2. CASE ~IsFile(file', header', n, q)
    <3>1. \A p \in Used(header') : ~IsFile(file', header', n, p)
      BY <1>1, <2>2 DEF IsFile
    <3>2. FilesOf(file', header')[n] = NoEntry
      BY <1>2, <3>1, FilesAre
    <3>. QED
      BY <3>2, FilesHere
  <2>. QED
    BY <2>1, <2>2
<1>6. CASE files'[n] = len
  <2>1. \A m \in Names : files'[m] = [files EXCEPT ![n] = len][m]
    BY <1>3, <1>6, FilesHere
  <2>2. [files EXCEPT ![n] = len] = [m \in Names |-> [files EXCEPT ![n] = len][m]]
    BY FilesHere
  <2>3. files' = [m \in Names |-> files'[m]]
    BY FilesHere
  <2>4. files' = [files EXCEPT ![n] = len]
    BY ONLY <2>1, <2>2, <2>3, Extensional
  <2>. QED
    BY <1>2, <1>4, <2>4 DEF A!Add
<1>7. CASE files'[n] = NoEntry
  <2>1. \A m \in Names : files'[m] = files[m]
    BY <1>3, <1>4, <1>7
  <2>2. files = [m \in Names |-> files[m]] /\ files' = [m \in Names |-> files'[m]]
    BY FilesHere
  <2>3. files' = files
    BY ONLY <2>1, <2>2, Extensional
  <2>. QED
    BY <1>2, <2>3
<1>. QED
  BY <1>5, <1>6, <1>7
\* An archive that goes on is whole.
LEMMA WholeHere ==
  ASSUME IInv, NInv, ~damaged
  PROVE  Whole(file, header)
<1>1. file \in File /\ header \in Header /\ bam \in SUBSET Block /\ Sound(file, header, bam)
  BY DEF IInv, TypeOK, Fits
<1>. QED
  BY <1>1, SoundWhole DEF NInv

\* Tape::add() adds the file, or nothing.
LEMMA AddFiles ==
  ASSUME IInv, NInv, NEW n \in Names, NEW len \in Lens, Add(n, len, FALSE)
  PROVE  NInv' /\ (A!Add(n, len) \/ files' = files)
<1>1. /\ TypeOK /\ Fits /\ Ready /\ Write(n, len)
      /\ dir' = Listing(file', header')
  BY DEF IInv, Add
<1>2. CASE UNCHANGED <<header, file>>
  <2>1. files' = files
    BY <1>2, FilesHere
  <2>. QED
    BY <1>1, <1>2, <2>1 DEF NInv
<1>3. CASE ~Exists(n) /\ NewFile(n, len)
  <2>1. Whole(file, header)
    BY <1>1, WholeHere DEF Ready
  <2>2. \A p \in Used(header) : EntryAt(file, header, p).name # n
    BY <1>3, NotListed, NamesListed DEF Exists
  <2>3. UniqueIn(file', header') /\ (A!Add(n, len) \/ files' = files)
    BY <1>3, <2>1, <2>2, NewFileStep
  <2>. QED
    BY <1>1, <2>3 DEF NInv
<1>4. CASE Exists(n)
  <2>1. UNCHANGED <<header, file>>
    BY <1>1, <1>4 DEF Write, Refused
  <2>. QED
    BY <1>2, <2>1
<1>5. CASE ~Exists(n)
  <2>1. UNCHANGED <<header, file>> \/ NewFile(n, len)
    BY <1>1, <1>5, WriteNewStep DEF Write, Refusal
  <2>. QED
    BY <1>2, <1>3, <1>5, <2>1
<1>. QED
  BY <1>4, <1>5

\* Tape::remove() removes the file it is given.
LEMMA RemoveFiles ==
  ASSUME IInv, NInv, NEW n \in Names, Remove(n)
  PROVE  NInv' /\ A!Remove(n)
<1>. DEFINE p == PlaceOf(n)
<1>1. Listed(n) /\ ~damaged /\ ~damaged' /\ dir' = Listing(file, header')
  BY DEF Remove, Ready
<1>2. p \in Used(header) /\ EntryAt(file, header, p).name = n
  BY <1>1, PlaceFound
<1>3. IInv' /\ header' = Without(header, p) /\ file'.block = file.block
  BY RemoveStep
<1>. HIDE DEF p
<1>4. header \in Header /\ Whole(file, header)
  BY <1>1, WholeHere DEF IInv, TypeOK
<1>5. /\ Used(header') = Used(header) \ {p}
      /\ \A q \in Used(header') : EntryAt(file', header', q) = EntryAt(file, header, q)
  <2>1. \A q : EntryAt(file', header', q) = EntryAt(file, header', q)
    BY <1>3 DEF EntryAt
  <2>. QED
    BY <1>2, <1>3, <1>4, <2>1, UsedWithout
<1>6. UniqueIn(file', header')
  BY <1>4, <1>5 DEF UniqueIn, Whole
<1>7. dir' = Listing(file', header')
  BY <1>1, <1>3 DEF Listing, EntryAt
<1>8. NInv'
  BY <1>6, <1>7 DEF NInv
<1>9. Whole(file', header')
  <2>1. (file' \in File /\ header' \in Header /\ bam' \in SUBSET Block /\ Sound(file', header', bam'))
    BY <1>1, <1>3 DEF IInv, TypeOK, Fits
  <2>. QED
    BY <1>6, <2>1, SoundWhole
<1>10. files[n] # NoEntry
  BY <1>2, <1>4, WholeIs, FilesHere
<1>11. files'[n] = NoEntry
  <2>1. \A q \in Used(header') : EntryAt(file', header', q).name # n
    BY <1>2, <1>4, <1>5 DEF Whole, UniqueIn
  <2>. QED
    BY <1>9, <2>1, WholeIs, FilesHere
<1>12. ASSUME NEW m \in Names, m # n
       PROVE  files'[m] = files[m]
  <2>1. CASE \E q \in Used(header) : EntryAt(file, header, q).name = m
    <3>1. PICK q \in Used(header) : EntryAt(file, header, q).name = m
      BY <2>1
    <3>2. q \in Used(header') /\ EntryAt(file', header', q) = EntryAt(file, header, q)
      BY <1>2, <1>5, <1>12, <3>1
    <3>. QED
      BY <1>4, <1>9, <3>1, <3>2, WholeIs, FilesHere
  <2>2. CASE \A q \in Used(header) : EntryAt(file, header, q).name # m
    <3>1. \A q \in Used(header') : EntryAt(file', header', q).name # m
      BY <1>5, <2>2
    <3>. QED
      BY <1>4, <1>9, <2>2, <3>1, WholeIs, FilesHere
  <2>. QED
    BY <2>1, <2>2
<1>13. files' = [files EXCEPT ![n] = NoEntry]
  <2>1. \A m \in Names : files'[m] = [files EXCEPT ![n] = NoEntry][m]
    BY <1>11, <1>12, FilesHere
  <2>2. [files EXCEPT ![n] = NoEntry] = [m \in Names |-> [files EXCEPT ![n] = NoEntry][m]]
    BY FilesHere
  <2>3. files' = [m \in Names |-> files'[m]]
    BY FilesHere
  <2>. QED
    BY ONLY <2>1, <2>2, <2>3, Extensional
<1>. QED
  BY <1>8, <1>10, <1>13 DEF A!Remove

\* Tape::rename() gives the file another name.
LEMMA RenameFiles ==
  ASSUME IInv, NInv, NEW from \in Names, NEW to \in Names, Rename(from, to)
  PROVE  NInv' /\ A!Rename(from, to)
<1>. DEFINE p == PlaceOf(from)
<1>1. Listed(from) /\ ~Listed(to) /\ ~damaged /\ ~damaged' /\ dir' = Listing(file', header)
  BY DEF Rename, Ready
<1>2. p \in Used(header) /\ EntryAt(file, header, p).name = from
  BY <1>1, PlaceFound
<1>3. \A q \in Used(header) : EntryAt(file, header, q).name # to
  BY <1>1, NotListed
<1>4. IInv' /\ header' = header /\ Retitled(file, header, p, to, file')
  BY RenameStep
<1>. HIDE DEF p
<1>5. Whole(file, header)
  BY <1>1, WholeHere
<1>6. /\ EntryAt(file', header', p).name = to
      /\ EntryAt(file', header', p).len = EntryAt(file, header, p).len
      /\ \A q \in Used(header) : q # p => EntryAt(file', header', q) = EntryAt(file, header, q)
  BY <1>4 DEF Retitled
<1>7. UniqueIn(file', header')
  BY <1>3, <1>4, <1>5, <1>6 DEF UniqueIn, Whole
<1>8. NInv'
  BY <1>1, <1>4, <1>7 DEF NInv
<1>9. Whole(file', header')
  <2>1. (file' \in File /\ header' \in Header /\ bam' \in SUBSET Block /\ Sound(file', header', bam'))
    BY <1>1, <1>4 DEF IInv, TypeOK, Fits
  <2>. QED
    BY <1>7, <2>1, SoundWhole
<1>10. files[from] # NoEntry /\ files[from] = EntryAt(file, header, p).len
  BY <1>2, <1>5, WholeIs, FilesHere
<1>11. files[to] = NoEntry
  BY <1>3, <1>5, WholeIs, FilesHere
<1>12. files'[to] = files[from]
  <2>1. p \in Used(header')
    BY <1>2, <1>4
  <2>. QED
    BY <1>6, <1>9, <1>10, <2>1, WholeIs, FilesHere
<1>13. files'[from] = NoEntry
  <2>1. \A q \in Used(header') : EntryAt(file', header', q).name # from
    BY <1>2, <1>3, <1>4, <1>5, <1>6 DEF Whole, UniqueIn
  <2>. QED
    BY <1>9, <2>1, WholeIs, FilesHere
<1>14. ASSUME NEW m \in Names, m # from, m # to
       PROVE  files'[m] = files[m]
  <2>1. CASE \E q \in Used(header) : EntryAt(file, header, q).name = m
    <3>1. PICK q \in Used(header) : EntryAt(file, header, q).name = m
      BY <2>1
    <3>2. q \in Used(header') /\ EntryAt(file', header', q) = EntryAt(file, header, q)
      BY <1>2, <1>4, <1>6, <1>14, <3>1
    <3>. QED
      BY <1>5, <1>9, <3>1, <3>2, WholeIs, FilesHere
  <2>2. CASE \A q \in Used(header) : EntryAt(file, header, q).name # m
    <3>1. \A q \in Used(header') : EntryAt(file', header', q).name # m
      BY <1>4, <1>6, <1>14, <2>2
    <3>. QED
      BY <1>5, <1>9, <2>2, <3>1, WholeIs, FilesHere
  <2>. QED
    BY <2>1, <2>2
<1>15. files' = [files EXCEPT ![to] = files[from], ![from] = NoEntry]
  <2>. DEFINE new == [files EXCEPT ![to] = files[from], ![from] = NoEntry]
  <2>1. /\ new = [m \in Names |-> new[m]]
        /\ \A m \in Names : new[m] = IF m = from THEN NoEntry
                                     ELSE IF m = to THEN files[from] ELSE files[m]
    BY FilesHere
  <2>. HIDE DEF new
  <2>2. \A m \in Names : files'[m] = new[m]
    BY <1>10, <1>11, <1>12, <1>13, <1>14, <2>1
  <2>3. files' = [m \in Names |-> files'[m]]
    BY FilesHere
  <2>4. files' = new
    BY ONLY <2>1, <2>2, <2>3, Extensional
  <2>. QED
    BY <2>4 DEF new
<1>. QED
  BY <1>8, <1>10, <1>11, <1>15 DEF A!Rename
-----------------------------------------------------------------------------

\* At first there is no file, and no name.
LEMMA NoFiles == Init => NInv /\ A!Init
<1>. SUFFICES ASSUME Init PROVE NInv /\ A!Init
  OBVIOUS
<1>. DEFINE s == Places(header)
<1>1. dir = <<>> /\ header = [i \in Index |-> NoDirBlock] /\ header \in Header
  BY InitStep DEF Init, IInv, TypeOK
<1>2. Used(header) = {}
  BY <1>1 DEF Used, NoDirBlock
<1>3. s \in Seq(Index \X Slot) /\ \A k \in 1 .. Len(s) : s[k] \in Used(header)
  BY <1>1, PlacesUsed
<1>4. s = <<>>
  <2>. HIDE DEF s
  <2>1. Len(s) = 0
    BY <1>2, <1>3
  <2>. QED
    BY <1>3, <2>1, EmptySeq
<1>5. Listing(file, header) = <<>>
  BY <1>4 DEF Listing
<1>6. UniqueIn(file, header)
  BY <1>2 DEF UniqueIn
<1>7. files = [n \in Names |-> NoEntry]
  <2>1. \A n \in Names : files[n] = NoEntry
    BY <1>2, <1>6, FilesAre, FilesHere
  <2>. QED
    BY <2>1, FilesHere
<1>. QED
  BY <1>1, <1>5, <1>6, <1>7 DEF NInv, A!Init

\* A restart is followed up when no name is on the disk twice.
LEMMA RestartFiles == IInv /\ Restart => NInv'
<1>. SUFFICES ASSUME IInv, Restart PROVE NInv'
  OBVIOUS
<1>1. /\ header' = disk.header /\ file' = disk /\ dir' = Listing(disk, disk.header)
      /\ IsInjective(Listing(disk, disk.header))
  BY DEF Restart
<1>2. IInv'
  BY RestartStep
<1>3. Filled(file', header')
  BY <1>2 DEF IInv, TypeOK, Fits, Filled
<1>4. UniqueIn(file', header')
  BY <1>1, <1>3, NamesListed
<1>. QED
  BY <1>1, <1>4 DEF NInv

\* Without the dialog, each step is one of the files under their names, a
\* restart, or changes none of them.
LEMMA FilesStep ==
  ASSUME RenameDialog = FALSE
  PROVE  IInv /\ NInv /\ [Next]_vars =>
           NInv' /\ [UNCHANGED <<header, file>> \/ A!Next \/ Restart]_files
<1>. SUFFICES ASSUME IInv, NInv, [Next]_vars
              PROVE  NInv' /\ [UNCHANGED <<header, file>> \/ A!Next \/ Restart]_files
  OBVIOUS
<1>1. CASE UNCHANGED <<header, file, dir>>
  BY <1>1 DEF NInv
<1>2. CASE Flush
  BY <1>1, <1>2 DEF Flush
<1>3. CASE \E n \in Names, len \in Lens, dialog \in Dialogs : Add(n, len, dialog)
  <2>1. PICK n \in Names, len \in Lens : Add(n, len, FALSE)
    BY <1>3 DEF Dialogs
  <2>. QED
    BY <2>1, AddFiles DEF A!Next
<1>4. CASE \E n \in Names : Remove(n)
  BY <1>4, RemoveFiles DEF A!Next
<1>5. CASE \E from, to \in Names : Rename(from, to)
  BY <1>5, RenameFiles DEF A!Next
<1>6. CASE Reopen
  <2>1. header' = header /\ file' = file /\ dir' = Listing(file', header')
    BY <1>6 DEF Reopen, IInv, Fits
  <2>. QED
    BY <2>1 DEF NInv
<1>7. CASE Restart
  BY <1>7, RestartFiles
<1>8. CASE UNCHANGED vars
  BY <1>1, <1>8 DEF vars
<1>. QED
  BY <1>2, <1>3, <1>4, <1>5, <1>6, <1>7, <1>8 DEF Next

\* The blocks implement the files under their names (kct.cc as tape.cc uses
\* it): a file is added under a name that is free, remove() and rename()
\* concern the file they are given and no other, and nothing but an operation
\* changes any, until the emulator is killed.  Not so with the dialog, for the
\* deck's list of names goes stale then.
THEOREM ArchiveIsFiles ==
  ASSUME RenameDialog = FALSE
  PROVE  Spec => IsArchive
<1>1. Init => IInv /\ NInv /\ A!Init
  BY InitStep, NoFiles
<1>2. IInv /\ NInv /\ [Next]_vars =>
        IInv' /\ NInv' /\ [UNCHANGED <<header, file>> \/ A!Next \/ Restart]_files
  BY NextStep, FilesStep
<1>. QED
  BY <1>1, <1>2, PTL DEF Spec, IsArchive

\* So remove(name) removes the file with that name and no other one (man page
\* kctape.1), unless files are added through the dialog.
THEOREM RemovesNamed ==
  ASSUME RenameDialog = FALSE
  PROVE  Spec => RemoveTakesNamed
<1>1. Init => IInv /\ NInv
  BY InitStep, NoFiles
<1>2. IInv /\ NInv /\ [Next]_vars => IInv' /\ NInv'
  BY NextStep, FilesStep
<1>3. IInv /\ NInv => \A n, m \in Names : Remove(n) /\ m # n => files'[m] = files[m]
  <2>. SUFFICES ASSUME IInv, NInv, NEW n \in Names, NEW m \in Names, Remove(n), m # n
                PROVE  files'[m] = files[m]
    OBVIOUS
  <2>1. files' = [files EXCEPT ![n] = NoEntry]
    BY RemoveFiles DEF A!Remove
  <2>. QED
    BY <2>1, FilesHere
<1>. QED
  BY <1>1, <1>2, <1>3, PTL DEF Spec, RemoveTakesNamed
-----------------------------------------------------------------------------
(***************************************************************************)
(* Where blocks are lost.                                                  *)
(***************************************************************************)

\* Owned names the blocks of the directory and the files.
LEMMA OwnedIs ==
  ASSUME NEW d, NEW h, Filled(d, h)
  PROVE  BlocksOf(d, h) = Owned(d, h)
<1>1. NoEntry \notin Entry
  BY NoEntryAssumption, Sizes DEF Entry
<1>2. EntriesOf(d, h) \ {NoEntry} = EntriesOf(d, h)
  BY <1>1 DEF EntriesOf, Filled
<1>3. UNION {Chain(d, e.first) : e \in EntriesOf(d, h)} = UNION {DataOf(d, h, p) : p \in Used(h)}
  BY DEF EntriesOf, DataOf
<1>. QED
  BY <1>2, <1>3 DEF BlocksOf, Owned

\* The map in the file marks no block that the copy in memory does not.
MapInv == ~damaged => file.bam \subseteq bam

Lost(d, h, map) == map \ BlocksOf(d, h)

\* What a step says of lost space: it loses none, or it is one of the two cases.
SpaceStep ==
  \/ UNCHANGED <<header, bam, file>>
  \/ damaged' \/ result' = "NOMEM" \/ Restart
  \/ Lost(file', header', bam') \subseteq Lost(file, header, bam)

\* Tape::add().
LEMMA AddSpace ==
  ASSUME IInv, MapInv, NEW n \in Names, NEW len \in Lens, NEW dialog, Add(n, len, dialog)
  PROVE  MapInv' /\ SpaceStep
<1>1. TypeOK /\ Fits /\ Ready /\ Write(n, len) /\ IInv' /\ file.bam \subseteq bam
  BY AddStep DEF IInv, Add, MapInv, Ready
<1>2. \/ UNCHANGED <<header, file>> /\ bam' = bam
      \/ Refusal \/ (NewFile(n, len) /\ (damaged' \/ SpaceUsed))
  <2>1. CASE Refused("EXIST", bam)
    BY <2>1 DEF Refused
  <2>2. CASE WriteNew(n, len)
    BY <1>1, <2>2, WriteNewStep
  <2>. QED
    BY <1>1, <2>1, <2>2 DEF Write
<1>3. CASE UNCHANGED <<header, file>> /\ bam' = bam
  BY <1>1, <1>3 DEF MapInv, SpaceStep
<1>4. CASE Refusal
  BY <1>1, <1>4 DEF Refusal, MapInv, SpaceStep
<1>5. CASE damaged'
  BY <1>5 DEF MapInv, SpaceStep
<1>6. CASE SpaceUsed
  <2>1. Filled(file, header) /\ Filled(file', header')
    BY <1>1 DEF IInv, TypeOK, Fits, Filled
  <2>2. BlocksOf(file, header) = Owned(file, header) /\ BlocksOf(file', header') = Owned(file', header')
    BY <2>1, OwnedIs
  <2>3. Lost(file', header', bam') \subseteq Lost(file, header, bam)
    BY <1>6, <2>2 DEF SpaceUsed, Lost
  <2>. QED
    BY <1>6, <2>3 DEF SpaceUsed, MapInv, SpaceStep
<1>. QED
  BY <1>2, <1>3, <1>4, <1>5, <1>6

\* Tape::remove().
LEMMA RemoveSpace ==
  ASSUME IInv, NEW n \in Names, Remove(n)
  PROVE  MapInv' /\ SpaceStep
<1>. DEFINE p == PlaceOf(n)
<1>1. /\ IInv' /\ header' = Without(header, p) /\ file'.block = file.block /\ file'.bam = bam'
      /\ bam' = bam \ (GivenUp(header, p) \cup DataOf(file, header, p))
  BY RemoveStep
<1>2. header \in Header /\ p \in Used(header) /\ Filled(file, header) /\ Filled(file', header')
  BY <1>1, PlaceOfIs DEF IInv, TypeOK, Fits, Filled, Remove
<1>. HIDE DEF p
<1>3. /\ Used(header') = Used(header) \ {p}
      /\ \A q \in Used(header') : EntryAt(file', header', q) = EntryAt(file, header, q)
  <2>1. \A q : EntryAt(file', header', q) = EntryAt(file, header', q)
    BY <1>1 DEF EntryAt
  <2>. QED
    BY <1>1, <1>2, <2>1, UsedWithout
<1>4. \A b \in Block : Chain(file', b) = Chain(file, b)
  BY <1>1 DEF Chain, Walk, Links, EndOfFile
<1>5. \A q \in Used(header') : DataOf(file', header', q) = DataOf(file, header, q)
  BY <1>2, <1>3, <1>4 DEF DataOf, Filled, Entry
<1>6. DirBlocksOf(header) \subseteq DirBlocksOf(header') \cup GivenUp(header, p)
  <2>1. p[1] \in Index
    BY <1>2, PlaceIs
  <2>2. /\ \A j \in Index : j # p[1] => header'[j] = header[j]
        /\ GivenUp(header, p) = {header[p[1]].block} \/ header'[p[1]].block = header[p[1]].block
    BY <1>1, <1>2, WithoutIs
  <2>. QED
    BY <2>1, <2>2 DEF DirBlocksOf
<1>7. BlocksOf(file, header) \subseteq
        BlocksOf(file', header') \cup GivenUp(header, p) \cup DataOf(file, header, p)
  <2>1. Owned(file, header) \subseteq
          Owned(file', header') \cup GivenUp(header, p) \cup DataOf(file, header, p)
    BY <1>3, <1>5, <1>6 DEF Owned
  <2>. QED
    BY <1>2, <2>1, OwnedIs
<1>8. Lost(file', header', bam') \subseteq Lost(file, header, bam)
  BY <1>1, <1>7 DEF Lost
<1>. QED
  BY <1>1, <1>8 DEF MapInv, SpaceStep

\* Tape::rename().
LEMMA RenameSpace ==
  ASSUME IInv, MapInv, NEW from \in Names, NEW to \in Names, Rename(from, to)
  PROVE  MapInv' /\ SpaceStep
<1>1. /\ IInv' /\ header' = header /\ Retitled(file, header, PlaceOf(from), to, file')
      /\ bam' = bam /\ file'.bam = file.bam /\ damaged' = damaged
  BY RenameStep DEF Rename
<1>2. Filled(file, header) /\ Filled(file', header')
  BY <1>1 DEF IInv, TypeOK, Fits, Filled
<1>3. Owned(file', header') = Owned(file, header)
  <2>1. \A r \in Used(header) : DataOf(file', header, r) = DataOf(file, header, r)
    BY <1>1 DEF Retitled
  <2>. QED
    BY <1>1, <2>1 DEF Owned
<1>4. Lost(file', header', bam') \subseteq Lost(file, header, bam)
  BY <1>1, <1>2, <1>3, OwnedIs DEF Lost
<1>. QED
  BY <1>1, <1>4 DEF MapInv, SpaceStep

\* Every step.
LEMMA SpaceNext == IInv /\ MapInv /\ [Next]_vars => MapInv' /\ [SpaceStep]_vars
<1>. SUFFICES ASSUME IInv, MapInv, [Next]_vars PROVE MapInv' /\ [SpaceStep]_vars
  OBVIOUS
<1>1. CASE UNCHANGED <<header, bam, file, damaged>>
  BY <1>1 DEF MapInv, SpaceStep
<1>2. CASE Flush
  BY <1>1, <1>2 DEF Flush
<1>3. CASE \E n \in Names, len \in Lens, dialog \in Dialogs : Add(n, len, dialog)
  BY <1>3, AddSpace
<1>4. CASE \E n \in Names : Remove(n)
  BY <1>4, RemoveSpace
<1>5. CASE \E from, to \in Names : Rename(from, to)
  BY <1>5, RenameSpace
<1>6. CASE Reopen
  <2>1. /\ header' = header /\ file' = file /\ bam' = file.bam /\ damaged' = damaged
    BY <1>6 DEF Reopen, IInv, Fits
  <2>. QED
    BY <2>1 DEF MapInv, SpaceStep, Lost
<1>7. CASE Restart
  <2>1. file' = disk /\ bam' = disk.bam
    BY <1>7 DEF Restart
  <2>. QED
    BY <1>7, <2>1 DEF MapInv, SpaceStep
<1>8. CASE UNCHANGED vars
  BY <1>1, <1>8 DEF vars
<1>. QED
  BY <1>2, <1>3, <1>4, <1>5, <1>6, <1>7, <1>8 DEF Next

\* Space is lost only when a file finds no room in the directory (kct.cc,
\* dirent_allocate returns after write has taken the first block), when a write
\* runs out of blocks, or when the emulator is killed: every other operation
\* gives each block it takes to the directory or a file, and frees each it
\* takes away.
THEOREM SpaceIsKept == Spec => LostSpaceOnlyOnNoMem
<1>1. Init => IInv /\ MapInv
  BY InitStep DEF Init, MapInv
<1>2. IInv /\ MapInv /\ [Next]_vars => IInv' /\ MapInv' /\ [SpaceStep]_vars
  BY NextStep, SpaceNext
<1>3. Spec => [][SpaceStep]_vars
  BY <1>1, <1>2, PTL DEF Spec
<1>. QED
  BY <1>3, PTL DEF LostSpaceOnlyOnNoMem, SpaceStep, Lost

-----------------------------------------------------------------------------
(***************************************************************************)
(* The hard disk.  First the places of its sectors.                        *)
(***************************************************************************)

\* A number below n and a multiple of n are found again in their sum.
LEMMA DigitsApart ==
  ASSUME NEW n \in Nat, NEW a \in Nat, NEW c \in Nat,
         NEW b \in 0 .. (n - 1), NEW d \in 0 .. (n - 1), a * n + b = c * n + d
  PROVE  a = c /\ b = d
<1>1. ASSUME NEW x \in Nat, NEW y \in Nat, NEW u \in 0 .. (n - 1), NEW v \in 0 .. (n - 1), x < y
      PROVE  x * n + u < y * n + v
  <2>1. PICK k \in Nat : y = x + 1 + k
    <3>1. y - x - 1 \in Nat /\ y = x + 1 + (y - x - 1)
      BY <1>1
    <3>. QED
      BY <3>1
  <2>2. y * n = x * n + n + k * n
    BY <2>1
  <2>3. k * n >= 0 /\ x * n \in Nat /\ k * n \in Nat
    OBVIOUS
  <2>. QED
    BY <2>2, <2>3
<1>2. ~(a < c) /\ ~(c < a)
  <2>1. a * n \in Nat /\ c * n \in Nat
    OBVIOUS
  <2>. QED
    BY <1>1, <2>1
<1>3. a = c
  BY <1>2
<1>4. a * n = c * n /\ a * n \in Nat
  BY <1>3
<1>. QED
  BY <1>3, <1>4

\* Two sectors of a drive do not share a place in its image, and each has one.
LEMMA PlacesDiffer ==
  ASSUME Gide!GIDEAssumption, NEW p \in Gide!Valid, NEW q \in Gide!Valid, p.drive = q.drive
  PROVE  /\ Gide!Place(p) \in Nat
         /\ Gide!Place(p) = Gide!Place(q) => p = q
<1>. DEFINE H == Heads[p.drive]
            S == Sectors[p.drive]
<1>1. ASSUME NEW r \in {p, q}
      PROVE  /\ r.cylinder \in Nat /\ r.head \in 0 .. (H - 1) /\ r.sector - 1 \in 0 .. (S - 1)
             /\ H \in Nat /\ S \in Nat /\ r.sector \in Int
  <2>1. /\ r \in [drive : Gide!Drives, head : HeadNumbers, sector : SectorNumbers,
                   cylinder : {l + 256 * h : l \in CylinderLow, h \in CylinderHigh}]
        /\ r.head < H /\ r.sector \in 1 .. S
    BY DEF Gide!Valid
  <2>2. H \in 1 .. 16 /\ S \in 1 .. 16
    <3>1. p.drive \in Gide!Drives
      BY DEF Gide!Valid
    <3>. QED
      BY <3>1 DEF Gide!GIDEAssumption
  <2>3. r.head \in 0 .. 15 /\ r.cylinder \in {l + 256 * h : l \in CylinderLow, h \in CylinderHigh}
    BY <2>1 DEF Gide!GIDEAssumption
  <2>4. r.cylinder \in Nat
    <3>1. PICK l \in CylinderLow, h \in CylinderHigh : r.cylinder = l + 256 * h
      BY <2>3
    <3>2. l \in 0 .. 255 /\ h \in 0 .. 255
      BY DEF Gide!GIDEAssumption
    <3>. QED
      BY ONLY <3>1, <3>2
  <2>. HIDE DEF H, S
  <2>. QED
    BY <2>1, <2>2, <2>3, <2>4
<1>2. /\ p \in [drive : Gide!Drives, head : HeadNumbers, sector : SectorNumbers,
                cylinder : {l + 256 * h : l \in CylinderLow, h \in CylinderHigh}]
      /\ q \in [drive : Gide!Drives, head : HeadNumbers, sector : SectorNumbers,
                cylinder : {l + 256 * h : l \in CylinderLow, h \in CylinderHigh}]
  BY DEF Gide!Valid
<1>. DEFINE track(r) == r.cylinder * H + r.head
<1>3. \A r \in {p, q} : track(r) \in Nat /\ Gide!Place(r) = track(r) * S + (r.sector - 1)
  <2>. SUFFICES ASSUME NEW r \in {p, q}
                PROVE  track(r) \in Nat /\ Gide!Place(r) = track(r) * S + (r.sector - 1)
    OBVIOUS
  <2>1. Gide!Place(r) = (r.sector - 1) + r.head * S + r.cylinder * H * S
    BY DEF Gide!Place
  <2>2. \A c, h, s, m, n \in Int : (s - 1) + h * n + c * m * n = (c * m + h) * n + (s - 1)
    OBVIOUS
  <2>3. \A c, h, m \in Nat : c * m + h \in Nat
    OBVIOUS
  <2>4. r.cylinder \in Nat /\ r.head \in Nat /\ H \in Nat /\ S \in Nat /\ r.sector \in Int
    BY <1>1
  <2>. HIDE DEF H, S
  <2>. QED
    BY <2>1, <2>2, <2>3, <2>4
<1>4. track(p) * S \in Nat
  <2>. HIDE DEF H, S, track
  <2>1. \A m, n \in Nat : m * n \in Nat
    OBVIOUS
  <2>. QED
    BY <1>1, <1>3, <2>1
<1>5. Gide!Place(p) \in Nat
  <2>. HIDE DEF H, S, track
  <2>. QED
    BY <1>1, <1>3, <1>4
<1>6. ASSUME Gide!Place(p) = Gide!Place(q)
      PROVE  p = q
  <2>1. track(p) = track(q) /\ p.sector - 1 = q.sector - 1
    <3>. DEFINE u == p.sector - 1
                v == q.sector - 1
    <3>1. track(p) * S + u = track(q) * S + v
      BY <1>3, <1>6
    <3>2. /\ u \in 0 .. (S - 1) /\ v \in 0 .. (S - 1) /\ S \in Nat
          /\ track(p) \in Nat /\ track(q) \in Nat
      BY <1>1, <1>3
    <3>3. track(p) = track(q) /\ u = v
      <4>. HIDE DEF H, S, track, u, v
      <4>. QED
        BY ONLY <3>1, <3>2, DigitsApart
    <3>. QED
      BY <3>3
  <2>2. p.cylinder = q.cylinder /\ p.head = q.head
    <3>1. p.cylinder * H + p.head = q.cylinder * H + q.head
      BY <2>1
    <3>2. /\ p.head \in 0 .. (H - 1) /\ q.head \in 0 .. (H - 1) /\ H \in Nat
          /\ p.cylinder \in Nat /\ q.cylinder \in Nat
      BY <1>1
    <3>. HIDE DEF H, S, track
    <3>. QED
      BY ONLY <3>1, <3>2, DigitsApart
  <2>3. p.sector = q.sector
    <3>. HIDE DEF H, S, track
    <3>. QED
      BY <1>1, <2>1
  <2>. HIDE DEF H, S, track
  <2>. QED
    BY <1>2, <2>2, <2>3
<1>. QED
  BY <1>5, <1>6

-----------------------------------------------------------------------------
(* Transfers.                                                              *)

Sector   == [1 .. Size -> Nat]
Register == [drive : Gide!Drives, cylinder : Nat, head : Nat, sector : Nat]

DiskTyped ==
  /\ image \subseteq Gide!Drives /\ sectors \in [Gide!Drives -> Seq(Sector)]
  /\ reg \in Register
  /\ buffer \in Sector

\* Between transfers both indices are where the next one begins.
Idle == program = Gide!None /\ inx = 0 /\ outx = 0

\* Within one, the index of its direction counts the bytes, which are those of the buffer;
\* the buffer of a read is the sector of the image, and a write is for the address in the
\* registers.
Busy ==
  /\ program \in [cmd : {"READ", "WRITE", "IDENTIFY"}, at : Register, bytes : Seq(Nat)]
  /\ Len(program.bytes) < Size
  /\ program.cmd \in {"READ", "IDENTIFY"} => inx = Len(program.bytes) /\ outx = 0
  /\ program.cmd = "WRITE" => /\ outx = Len(program.bytes) /\ inx = 0
                              /\ program.at = reg /\ program.bytes \in Seq(Data)
  /\ program.cmd \in {"READ", "WRITE"} =>
       /\ program.at \in Gide!Valid
       /\ \A i \in 1 .. Len(program.bytes) : program.bytes[i] = buffer[i]
  /\ program.cmd = "READ" => buffer = Gide!FileRead(program.at)

DiskInv == DiskTyped /\ (Idle \/ Busy)

LEMMA ReadIsSector ==
  ASSUME Gide!GIDEAssumption, DiskTyped, NEW r \in Gide!Valid
  PROVE  Gide!FileRead(r) \in Sector
<1>1. r.drive \in Gide!Drives /\ Size \in Nat \ {0}
  BY DEF Gide!Valid, Gide!GIDEAssumption
<1>2. Gide!All(Gide!Filler) \in Sector
  BY DEF Gide!All, Gide!Filler, Sector
<1>3. ASSUME Gide!Place(r) + 1 \in DOMAIN sectors[r.drive]
      PROVE  sectors[r.drive][Gide!Place(r) + 1] \in Sector
  <2>1. sectors[r.drive] \in Seq(Sector)
    BY <1>1 DEF DiskTyped
  <2>. QED
    BY <1>3, <2>1
<1>. QED
  BY <1>2, <1>3 DEF Gide!FileRead

\* The file with a sector written: that one is found there, every other one as before, but
\* for filler that became zeros.
LEMMA SectorWritten ==
  ASSUME Gide!GIDEAssumption, NEW f \in Seq(Sector), NEW r, Gide!Place(r) \in Nat, NEW content \in Sector
  PROVE  LET g == Gide!FileWritten(f, r, content)
         IN  /\ g \in Seq(Sector)
             /\ Gide!Place(r) + 1 \in DOMAIN g /\ g[Gide!Place(r) + 1] = content
             /\ \A n \in Nat : n # Gide!Place(r) =>
                  \/ n + 1 \in DOMAIN f /\ n + 1 \in DOMAIN g /\ g[n + 1] = f[n + 1]
                  \/ n + 1 \notin DOMAIN f /\ n + 1 \in DOMAIN g /\ g[n + 1] = Gide!All(0)
                  \/ n + 1 \notin DOMAIN f /\ n + 1 \notin DOMAIN g
<1>. DEFINE n == Gide!Place(r) + 1
            len == IF n > Len(f) THEN n ELSE Len(f)
            grown == [i \in 1 .. len |-> IF i \in DOMAIN f THEN f[i] ELSE Gide!All(0)]
            g == [grown EXCEPT ![n] = content]
<1>1. n \in Nat \ {0} /\ Len(f) \in Nat /\ DOMAIN f = 1 .. Len(f)
  OBVIOUS
<1>2. Gide!FileWritten(f, r, content) = g
  BY <1>1 DEF Gide!FileWritten
<1>. HIDE DEF n
<1>3. len \in Nat /\ n \in 1 .. len /\ 1 .. Len(f) \subseteq 1 .. len
  BY <1>1
<1>4. Gide!All(0) \in Sector
  BY DEF Gide!All, Sector
<1>5. \A i \in 1 .. Len(f) : f[i] \in Sector
  BY <1>1
<1>. HIDE DEF len
<1>6. grown \in [1 .. len -> Sector]
  BY <1>1, <1>4, <1>5
<1>7. g \in [1 .. len -> Sector] /\ g[n] = content
  BY <1>3, <1>6
<1>8. \A i \in 1 .. len : i # n => g[i] = IF i \in 1 .. Len(f) THEN f[i] ELSE Gide!All(0)
  BY <1>1
<1>9. DOMAIN g = 1 .. len
  OBVIOUS
<1>. HIDE DEF grown, g
<1>10. g \in Seq(Sector)
  BY <1>3, <1>7
<1>11. ASSUME NEW k \in Nat, k # Gide!Place(r)
       PROVE  \/ k + 1 \in DOMAIN f /\ k + 1 \in DOMAIN g /\ g[k + 1] = f[k + 1]
              \/ k + 1 \notin DOMAIN f /\ k + 1 \in DOMAIN g /\ g[k + 1] = Gide!All(0)
              \/ k + 1 \notin DOMAIN f /\ k + 1 \notin DOMAIN g
  <2>1. k + 1 # n
    BY <1>11 DEF n
  <2>. QED
    BY <1>1, <1>3, <1>8, <1>9, <2>1
<1>. QED
  BY <1>2, <1>3, <1>7, <1>9, <1>10, <1>11 DEF n

-----------------------------------------------------------------------------
(* The invariant.                                                          *)

\* The registers may change while nothing is written.
LEMMA RegistersKeep ==
  ASSUME Gide!GIDEAssumption, DiskInv, Gide!Settled, reg' \in Register,
         UNCHANGED <<Gide!disk, buffer, inx, outx, program>>
  PROVE  DiskInv'
<1>. USE DEF Gide!disk
<1>1. DiskTyped'
  BY DEF DiskInv, DiskTyped
<1>2. CASE Idle
  BY <1>1, <1>2 DEF DiskInv, Idle
<1>3. CASE Busy
  <2>1. \A r : Gide!FileRead(r)' = Gide!FileRead(r)
    BY DEF Gide!FileRead
  <2>2. program.cmd # "WRITE" /\ program' = program
    BY DEF Gide!Settled
  <2>3. Busy'
    BY <1>3, <2>1, <2>2 DEF Busy
  <2>. QED
    BY <1>1, <2>3 DEF DiskInv
<1>. QED
  BY <1>2, <1>3 DEF DiskInv

\* A command begins a transfer.
LEMMA TransferBegins ==
  ASSUME Gide!GIDEAssumption, DiskInv, NEW c \in {"READ", "WRITE", "IDENTIFY"}, Gide!Given(c),
         UNCHANGED <<Gide!disk, reg, inx, outx>>, buffer' \in Sector,
         c \in {"READ", "WRITE"} => reg \in Gide!Valid, c = "READ" => buffer' = Gide!FileRead(reg)
  PROVE  DiskInv'
<1>1. DiskTyped'
  BY DEF DiskInv, DiskTyped, Gide!disk
<1>2. inx = 0 /\ outx = 0 /\ reg \in Register
  BY DEF Gide!Given, DiskInv, Idle, Busy, Gide!None, DiskTyped
<1>3. program' = [cmd |-> c, at |-> reg, bytes |-> <<>>] /\ <<>> \in Seq(Nat) /\ <<>> \in Seq(Data)
  BY DEF Gide!Given
<1>4. Len(<<>>) = 0 /\ 0 < Size
  BY DEF Gide!GIDEAssumption
<1>5. /\ program'.cmd = c /\ program'.at = reg /\ program'.bytes = <<>>
      /\ program' \in [cmd : {"READ", "WRITE", "IDENTIFY"}, at : Register, bytes : Seq(Nat)]
  BY <1>2, <1>3
<1>6. Gide!FileRead(reg)' = Gide!FileRead(reg)
  BY DEF Gide!FileRead, Gide!disk
<1>7. Busy'
  BY <1>2, <1>3, <1>4, <1>5, <1>6 DEF Busy
<1>. QED
  BY <1>1, <1>7 DEF DiskInv

\* A byte joins those of the transfer; the last one ends it.
LEMMA TransferGoesOn ==
  ASSUME Gide!GIDEAssumption, Busy, NEW cmds, NEW b \in Nat, Gide!Moves(cmds, b)
  PROVE  LET bytes == Append(program.bytes, b)
         IN  /\ program.cmd \in cmds
             /\ bytes \in Seq(Nat) /\ Len(bytes) = Len(program.bytes) + 1 /\ Len(bytes) <= Size
             /\ \A i \in 1 .. Len(program.bytes) : bytes[i] = program.bytes[i]
             /\ bytes[Len(bytes)] = b
             /\ Len(bytes) < Size => /\ done' = done
                                     /\ program' = [cmd |-> program.cmd, at |-> program.at,
                                                    bytes |-> bytes]
             /\ Len(bytes) = Size =>
                  /\ program' = Gide!None
                  /\ program.cmd = "READ" =>
                       done' = [done |-> "read", at |-> program.at, content |-> bytes]
                  /\ program.cmd = "WRITE" =>
                       done' = [done |-> "write", at |-> program.at, content |-> bytes]
                  /\ program.cmd = "IDENTIFY" => done' = done
<1>. DEFINE bytes == Append(program.bytes, b)
<1>1. /\ program \in [cmd : {"READ", "WRITE", "IDENTIFY"}, at : Register, bytes : Seq(Nat)]
      /\ Len(program.bytes) < Size /\ Size \in Nat
  BY DEF Busy, Gide!GIDEAssumption
<1>2. /\ bytes \in Seq(Nat) /\ Len(bytes) = Len(program.bytes) + 1 /\ Len(bytes) <= Size
      /\ \A i \in 1 .. Len(program.bytes) : bytes[i] = program.bytes[i]
      /\ bytes[Len(bytes)] = b
  BY <1>1
<1>. HIDE DEF bytes
<1>3. [program EXCEPT !.bytes = bytes] = [cmd |-> program.cmd, at |-> program.at, bytes |-> bytes]
  BY <1>1
<1>4. /\ program.cmd \in cmds
      /\ Len(bytes) < Size => done' = done /\ program' = [program EXCEPT !.bytes = bytes]
      /\ ~(Len(bytes) < Size) =>
           /\ program' = Gide!None
           /\ program.cmd = "READ" =>
                done' = [done |-> "read", at |-> program.at, content |-> bytes]
           /\ program.cmd = "WRITE" =>
                done' = [done |-> "write", at |-> program.at, content |-> bytes]
           /\ program.cmd = "IDENTIFY" => done' = done
  BY DEF Gide!Moves, bytes
<1>. QED
  BY <1>1, <1>2, <1>3, <1>4 DEF bytes

LEMMA InDataKeeps ==
  ASSUME Gide!GIDEAssumption, DiskInv, Gide!InData
  PROVE  DiskInv'
<1>. DEFINE b == buffer[inx + 1]
            bytes == Append(program.bytes, b)
<1>1. Busy /\ program.cmd \in {"READ", "IDENTIFY"}
  BY DEF Gide!InData, Gide!Moves, DiskInv, Idle, Gide!None
<1>2. inx = Len(program.bytes) /\ outx = 0 /\ inx \in Nat /\ inx < Size /\ Size \in Nat
  BY <1>1 DEF Busy, Gide!GIDEAssumption
<1>3. b \in Nat
  BY <1>2 DEF DiskInv, DiskTyped, Sector
<1>4. Gide!Moves({"READ", "IDENTIFY"}, b)
  BY DEF Gide!InData
<1>5. DiskTyped' /\ UNCHANGED <<buffer, reg, outx>> /\ inx' = IF inx + 1 = Size THEN 0 ELSE inx + 1
  BY DEF Gide!InData, DiskInv, DiskTyped, Gide!disk, Gide!registers, Gide!Advanced
<1>6. CASE inx + 1 = Size
  <2>1. program' = Gide!None
    BY <1>1, <1>2, <1>3, <1>4, <1>6, TransferGoesOn
  <2>. QED
    BY <1>2, <1>5, <1>6, <2>1 DEF DiskInv, Idle
<1>7. CASE inx + 1 # Size
  <2>1. /\ program' = [cmd |-> program.cmd, at |-> program.at, bytes |-> bytes]
        /\ bytes \in Seq(Nat) /\ Len(bytes) = inx + 1
        /\ \A i \in 1 .. Len(program.bytes) : bytes[i] = program.bytes[i]
        /\ bytes[Len(bytes)] = buffer[inx + 1]
    <3>. HIDE DEF b
    <3>1. Len(bytes) = Len(program.bytes) + 1
      BY <1>1, <1>3, <1>4, TransferGoesOn
    <3>2. Len(bytes) < Size
      BY <1>2, <1>7, <3>1
    <3>3. /\ program' = [cmd |-> program.cmd, at |-> program.at, bytes |-> bytes]
          /\ bytes \in Seq(Nat)
          /\ \A i \in 1 .. Len(program.bytes) : bytes[i] = program.bytes[i]
          /\ bytes[Len(bytes)] = b
      BY <1>1, <1>3, <1>4, <3>2, TransferGoesOn
    <3>. QED
      BY <1>2, <3>1, <3>3 DEF b
  <2>. HIDE DEF bytes
  <2>2. program' \in [cmd : {"READ", "WRITE", "IDENTIFY"}, at : Register, bytes : Seq(Nat)]
    BY <1>1, <2>1 DEF Busy
  <2>3. program'.cmd = program.cmd /\ program'.at = program.at /\ program'.bytes = bytes
    BY <2>1
  <2>4. Gide!FileRead(program.at)' = Gide!FileRead(program'.at)
    BY <2>3 DEF Gide!FileRead, Gide!InData, Gide!disk
  <2>5. program.cmd = "READ" => program.at \in Gide!Valid /\ buffer' = Gide!FileRead(program.at)'
    BY <1>1, <1>5, <2>3 DEF Busy, Gide!InData, Gide!disk, Gide!FileRead
  <2>6. program.cmd = "READ" => \A i \in 1 .. Len(bytes) : bytes[i] = buffer[i]
    BY <1>1, <1>2, <2>1, SMTT(60) DEF Busy
  <2>7. Len(bytes) < Size /\ inx' = Len(bytes) /\ outx' = 0
    BY <1>2, <1>5, <1>7, <2>1
  <2>8. Busy'
    BY <1>1, <1>5, <2>2, <2>3, <2>5, <2>6, <2>7 DEF Busy
  <2>. QED
    BY <1>5, <2>8 DEF DiskInv
<1>. QED
  BY <1>6, <1>7

\* A byte of a write: the buffer holds what was sent, and after the last one so does the sector.
LEMMA OutDataDoes ==
  ASSUME Gide!GIDEAssumption, DiskInv, Gide!OutData
  PROVE  /\ DiskInv'
         /\ program.cmd = "WRITE" /\ program.at \in Gide!Valid /\ program.at = reg
         /\ outx + 1 # Size => done' = done /\ sectors' = sectors
         /\ outx + 1 = Size =>
              /\ buffer' \in [1 .. Size -> Data]
              /\ done' = [done |-> "write", at |-> reg, content |-> buffer']
<1>1. PICK b \in Data : Gide!Moves({"WRITE"}, b) /\ buffer' = [buffer EXCEPT ![outx + 1] = b]
  BY DEF Gide!OutData
<1>. DEFINE bytes == Append(program.bytes, b)
<1>2. Busy /\ program.cmd = "WRITE"
  BY <1>1 DEF Gide!Moves, DiskInv, Idle, Gide!None
<1>3. /\ outx = Len(program.bytes) /\ inx = 0 /\ outx \in Nat /\ outx < Size /\ Size \in Nat
      /\ program.at \in Gide!Valid /\ program.at = reg /\ program.bytes \in Seq(Data)
  BY <1>2 DEF Busy, Gide!GIDEAssumption
<1>4. b \in Nat /\ Data \subseteq Nat
  BY DEF Gide!GIDEAssumption
<1>5. buffer' \in Sector /\ buffer \in Sector
  BY <1>1, <1>3, <1>4 DEF DiskInv, DiskTyped, Sector
<1>6. /\ bytes \in Seq(Data) /\ bytes \in Seq(Nat) /\ Len(bytes) = outx + 1
      /\ \A i \in 1 .. Len(program.bytes) : bytes[i] = program.bytes[i]
      /\ bytes[outx + 1] = b
  BY <1>2, <1>3, <1>4 DEF Busy
<1>7. \A i \in 1 .. Len(bytes) : bytes[i] = buffer'[i]
  <2>1. \A i \in 1 .. outx : bytes[i] = buffer[i]
    BY <1>2, <1>3, <1>6 DEF Busy
  <2>. HIDE DEF bytes
  <2>2. \A i \in 1 .. outx : buffer'[i] = buffer[i]
    BY <1>1, <1>3, <1>5 DEF Sector
  <2>3. buffer'[outx + 1] = b
    BY <1>1, <1>3, <1>5 DEF Sector
  <2>. QED
    BY <1>3, <1>6, <2>1, <2>2, <2>3, SMTT(60)
<1>8. UNCHANGED <<reg, inx, image>> /\ outx' = IF outx + 1 = Size THEN 0 ELSE outx + 1
  BY DEF Gide!OutData, Gide!registers, Gide!Advanced
<1>9. DiskTyped'
  <2>1. CASE outx + 1 = Size /\ reg.drive \in image
    <3>1. reg.drive \in Gide!Drives /\ sectors[reg.drive] \in Seq(Sector)
      BY <2>1 DEF DiskInv, DiskTyped
    <3>2. sectors' = [sectors EXCEPT ![reg.drive] = Gide!FileWritten(sectors[reg.drive], reg, buffer')]
      BY <2>1 DEF Gide!OutData
    <3>3. Gide!Place(reg) \in Nat
      BY <1>3, PlacesDiffer
    <3>4. Gide!FileWritten(sectors[reg.drive], reg, buffer') \in Seq(Sector)
      BY <1>5, <3>1, <3>3, SectorWritten
    <3>. QED
      BY <1>5, <1>8, <3>2, <3>4 DEF DiskInv, DiskTyped
  <2>2. CASE ~(outx + 1 = Size /\ reg.drive \in image)
    BY <1>5, <1>8, <2>2 DEF Gide!OutData, DiskInv, DiskTyped
  <2>. QED
    BY <2>1, <2>2
<1>10. CASE outx + 1 = Size
  <2>. HIDE DEF bytes
  <2>1. program' = Gide!None /\ done' = [done |-> "write", at |-> program.at, content |-> bytes]
    <3>1. Len(bytes) = Size
      BY <1>6, <1>10
    <3>. QED
      BY <1>1, <1>2, <1>4, <3>1, TransferGoesOn DEF bytes
  <2>2. DiskInv'
    BY <1>3, <1>8, <1>9, <1>10, <2>1 DEF DiskInv, Idle
  <2>3. bytes = buffer' /\ bytes \in [1 .. Size -> Data]
    <3>1. bytes \in [1 .. Size -> Data] /\ Len(bytes) = Size
      BY <1>6, <1>10
    <3>. QED
      BY <1>5, <1>7, <3>1 DEF Sector
  <2>. QED
    BY <1>2, <1>3, <1>10, <2>1, <2>2, <2>3
<1>11. CASE outx + 1 # Size
  <2>1. sectors' = sectors
    BY <1>11 DEF Gide!OutData
  <2>. HIDE DEF bytes
  <2>2. /\ program' = [cmd |-> program.cmd, at |-> program.at, bytes |-> bytes]
        /\ done' = done /\ Len(bytes) < Size
    <3>1. Len(bytes) < Size
      BY <1>3, <1>6, <1>11
    <3>. QED
      BY <1>1, <1>2, <1>4, <3>1, TransferGoesOn DEF bytes
  <2>3. program' \in [cmd : {"READ", "WRITE", "IDENTIFY"}, at : Register, bytes : Seq(Nat)]
    BY <1>2, <1>6, <2>2 DEF Busy
  <2>4. program'.cmd = "WRITE" /\ program'.at = reg' /\ program'.bytes = bytes
    BY <1>2, <1>3, <1>8, <2>2
  <2>5. outx' = Len(bytes) /\ inx' = 0 /\ program'.at \in Gide!Valid
    BY <1>3, <1>6, <1>8, <1>11, <2>4
  <2>6. Busy'
    BY <1>6, <1>7, <2>2, <2>3, <2>4, <2>5 DEF Busy
  <2>. QED
    BY <1>2, <1>3, <1>9, <1>11, <2>1, <2>2, <2>6 DEF DiskInv
<1>. QED
  BY <1>10, <1>11

LEMMA InvKept ==
  ASSUME Gide!GIDEAssumption, DiskInv, [Gide!Next]_(Gide!vars)
  PROVE  DiskInv'
<1>1. CASE Gide!OutSectorNumber \/ Gide!OutDriveHead
  <2>1. reg' \in Register
    <3>1. /\ reg \in Register
          /\ \A n \in SectorNumbers \cup HeadNumbers : n \in Nat
      <4>1. \A n \in SectorNumbers : n \in 0 .. 255
        BY DEF Gide!GIDEAssumption
      <4>2. \A n \in HeadNumbers : n \in 0 .. 15
        BY DEF Gide!GIDEAssumption
      <4>3. \A n \in SectorNumbers \cup HeadNumbers : n \in Nat
        BY <4>1, <4>2
      <4>. QED
        BY <4>3 DEF DiskInv, DiskTyped
    <3>2. CASE Gide!OutSectorNumber
      BY <3>1, <3>2 DEF Gide!OutSectorNumber, Register
    <3>3. CASE Gide!OutDriveHead
      BY <3>1, <3>3 DEF Gide!OutDriveHead, Register
    <3>. QED
      BY <1>1, <3>2, <3>3
  <2>. QED
    BY <1>1, <2>1, RegistersKeep DEF Gide!OutSectorNumber, Gide!OutDriveHead, Gide!history
<1>2. CASE Gide!OutCylinderLow \/ Gide!OutCylinderHigh
  <2>1. PICK c : reg' = [reg EXCEPT !.cylinder = c] /\ c \in Nat
    <3>1. reg \in Register
      BY DEF DiskInv, DiskTyped
    <3>2. reg.cylinder \in Nat
      BY <3>1 DEF Register
    <3>. DEFINE c == reg.cylinder
    <3>3. (c \div 256) * 256 \in Nat /\ c % 256 \in Nat
      <4>. HIDE DEF c
      <4>1. \A k \in Nat : (k \div 256) * 256 \in Nat /\ k % 256 \in Nat
        OBVIOUS
      <4>. QED
        BY <3>2, <4>1 DEF c
    <3>4. CASE Gide!OutCylinderLow
      <4>1. PICK v \in CylinderLow : reg' = [reg EXCEPT !.cylinder = (c \div 256) * 256 + v]
        BY <3>4 DEF Gide!OutCylinderLow
      <4>2. v \in Nat
        BY DEF Gide!GIDEAssumption
      <4>. HIDE DEF c
      <4>3. (c \div 256) * 256 + v \in Nat
        BY ONLY <3>3, <4>2
      <4>. QED
        BY ONLY <4>1, <4>3
    <3>5. CASE Gide!OutCylinderHigh
      <4>1. PICK v \in CylinderHigh : reg' = [reg EXCEPT !.cylinder = (c % 256) + 256 * v]
        BY <3>5 DEF Gide!OutCylinderHigh
      <4>2. v \in Nat
        BY DEF Gide!GIDEAssumption
      <4>. HIDE DEF c
      <4>3. (c % 256) + 256 * v \in Nat
        BY ONLY <3>3, <4>2
      <4>. QED
        BY ONLY <4>1, <4>3
    <3>. QED
      BY <1>2, <3>4, <3>5
  <2>2. reg' \in Register
    BY <2>1 DEF DiskInv, DiskTyped, Register
  <2>. QED
    BY <1>2, <2>2, RegistersKeep DEF Gide!OutCylinderLow, Gide!OutCylinderHigh, Gide!history
<1>3. CASE Gide!ReadSectors
  BY <1>3, ReadIsSector, TransferBegins DEF Gide!ReadSectors, Gide!registers, DiskInv
<1>4. CASE Gide!WriteSectors
  BY <1>4, TransferBegins DEF Gide!WriteSectors, Gide!registers, DiskInv, DiskTyped
<1>5. CASE Gide!IdentifyDrive
  <2>1. buffer' \in Sector
    BY <1>5 DEF Gide!IdentifyDrive, Gide!All, Sector, DiskInv, DiskTyped, Register, Gide!Drives
  <2>. QED
    BY <1>5, <2>1, TransferBegins DEF Gide!IdentifyDrive
<1>6. CASE Gide!ExecuteDiagnostics \/ UNCHANGED Gide!vars
  <2>1. UNCHANGED <<image, sectors, reg, buffer, inx, outx, program>>
    BY <1>6 DEF Gide!ExecuteDiagnostics, Gide!vars, Gide!disk, Gide!registers, Gide!history
  <2>2. \A r : Gide!FileRead(r)' = Gide!FileRead(r)
    BY <2>1 DEF Gide!FileRead
  <2>. QED
    BY <2>1, <2>2 DEF DiskInv, DiskTyped, Idle, Busy
<1>. QED
  BY <1>1, <1>2, <1>3, <1>4, <1>5, <1>6, InDataKeeps, OutDataDoes DEF Gide!Next

-----------------------------------------------------------------------------
(* The refinement.                                                         *)

\* The sectors as a program sees them, and a step that leaves the images alone.
Seen == [r \in Gide!Valid |-> Gide!Meaning(Gide!FileRead(r))]
Last == IF done.done = "read" THEN [done EXCEPT !.content = Gide!Meaning(@)] ELSE done
Keeping == {r \in Gide!Valid : r.drive \in image}

LEMMA DiskKept ==
  ASSUME UNCHANGED Gide!disk
  PROVE  Seen' = Seen /\ Keeping' = Keeping
BY DEF Seen, Keeping, Gide!disk, Gide!FileRead

\* The last byte of a write changes one sector, if there is an image.
LEMMA WriteSeen ==
  ASSUME Gide!GIDEAssumption, DiskInv, Gide!OutData, outx + 1 = Size
  PROVE  Seen' = IF reg \in Keeping THEN [Seen EXCEPT ![reg] = buffer'] ELSE Seen
<1>1. /\ reg \in Gide!Valid /\ UNCHANGED <<image, reg>>
      /\ buffer' \in [1 .. Size -> Data] /\ buffer' \in Sector
  BY OutDataDoes DEF Gide!OutData, Gide!registers, DiskInv, DiskTyped
<1>2. CASE reg.drive \notin image
  BY <1>2, DiskKept DEF Gide!OutData, Gide!disk, Keeping
<1>3. CASE reg.drive \in image
  <2>0. PICK a \in Gide!Valid : a = reg
    BY <1>1
  <2>. DEFINE f == sectors[a.drive]
              g == Gide!FileWritten(f, a, buffer')
  <2>1. f \in Seq(Sector) /\ a.drive \in Gide!Drives /\ sectors \in [Gide!Drives -> Seq(Sector)]
    BY <1>3, <2>0 DEF DiskInv, DiskTyped
  <2>2. Gide!Place(a) \in Nat /\ buffer' \in Sector
    BY <1>1, PlacesDiffer
  <2>. HIDE DEF f
  <2>3. /\ Gide!Place(a) + 1 \in DOMAIN g /\ g[Gide!Place(a) + 1] = buffer'
        /\ \A n \in Nat : n # Gide!Place(a) =>
             \/ n + 1 \in DOMAIN f /\ n + 1 \in DOMAIN g /\ g[n + 1] = f[n + 1]
             \/ n + 1 \notin DOMAIN f /\ n + 1 \in DOMAIN g /\ g[n + 1] = Gide!All(0)
             \/ n + 1 \notin DOMAIN f /\ n + 1 \notin DOMAIN g
    BY ONLY Gide!GIDEAssumption, <2>1, <2>2, SectorWritten
  <2>. HIDE DEF g
  <2>4. /\ sectors'[a.drive] = g
        /\ \A d \in Gide!Drives : d # a.drive => sectors'[d] = sectors[d]
    BY <1>3, <2>0, <2>1 DEF Gide!OutData, f, g
  <2>5. Gide!Meaning(Gide!FileRead(a))' = buffer'
    <3>1. Gide!FileRead(a)' = buffer'
      BY <1>1, <1>3, <2>0, <2>3, <2>4 DEF Gide!FileRead
    <3>2. buffer' # Gide!All(Gide!Filler)
      <4>1. 1 \in 1 .. Size
        BY DEF Gide!GIDEAssumption
      <4>2. buffer'[1] \in Data
        BY <1>1, <4>1
      <4>3. Gide!Filler \notin Data
        BY Zenon DEF Gide!GIDEAssumption
      <4>. QED
        BY <4>1, <4>2, <4>3 DEF Gide!All
    <3>. QED
      BY <3>1, <3>2 DEF Gide!Meaning
  <2>6. ASSUME NEW r \in Gide!Valid, r # a
        PROVE  Gide!Meaning(Gide!FileRead(r))' = Gide!Meaning(Gide!FileRead(r))
    <3>1. CASE r.drive # a.drive
      BY <1>1, <2>4, <2>6, <3>1 DEF Gide!FileRead, Gide!Meaning, Gide!Valid
    <3>2. CASE r.drive = a.drive
      <4>1. Gide!Place(r) \in Nat /\ Gide!Place(r) # Gide!Place(a)
        BY <1>1, <2>6, <3>2, PlacesDiffer
      <4>2. /\ Gide!FileRead(r)  = IF Gide!Place(r) + 1 \in DOMAIN f THEN f[Gide!Place(r) + 1]
                                      ELSE Gide!All(Gide!Filler)
            /\ Gide!FileRead(r)' = IF Gide!Place(r) + 1 \in DOMAIN g THEN g[Gide!Place(r) + 1]
                                      ELSE Gide!All(Gide!Filler)
        BY <1>1, <1>3, <2>0, <2>4, <3>2 DEF Gide!FileRead, f
      <4>. QED
        BY <2>3, <4>1, <4>2 DEF Gide!Meaning
    <3>. QED
      BY <3>1, <3>2
  <2>7. a \in Keeping
    BY <1>1, <1>3, <2>0 DEF Keeping
  <2>8. Seen' = [Seen EXCEPT ![a] = buffer']
    BY <2>5, <2>6 DEF Seen
  <2>. QED
    BY <2>0, <2>7, <2>8
<1>. QED
  BY <1>2, <1>3

\* Every byte but the last of a transfer, every command and every register is a stutter of
\* the abstract disk; the last byte is the read or the write.
LEMMA StepsOfDisk ==
  ASSUME Gide!GIDEAssumption, DiskInv, [Gide!Next]_(Gide!vars)
  PROVE  [Disk!Next]_(Disk!vars)
<1>1. ASSUME UNCHANGED <<done, image, sectors>>
      PROVE  [Disk!Next]_(Disk!vars)
  BY <1>1, DiskKept DEF Disk!vars, Gide!disk, Seen, Last, Keeping
<1>2. CASE Gide!InData
  <2>1. Busy /\ program.cmd \in {"READ", "IDENTIFY"}
    BY <1>2 DEF Gide!InData, Gide!Moves, DiskInv, Idle, Gide!None
  <2>. DEFINE b == buffer[inx + 1]
              bytes == Append(program.bytes, b)
  <2>2. /\ inx = Len(program.bytes) /\ inx \in Nat /\ inx < Size /\ Size \in Nat
        /\ b \in Nat /\ Gide!Moves({"READ", "IDENTIFY"}, b) /\ UNCHANGED Gide!disk
    BY <1>2, <2>1 DEF Busy, Gide!GIDEAssumption, Gide!InData, DiskInv, DiskTyped, Sector
  <2>. HIDE DEF b
  <2>3. /\ bytes \in Seq(Nat) /\ Len(bytes) = inx + 1
        /\ \A i \in 1 .. Len(program.bytes) : bytes[i] = program.bytes[i]
        /\ bytes[Len(bytes)] = b
        /\ Len(bytes) < Size => done' = done
        /\ Len(bytes) = Size =>
             /\ program.cmd = "READ" =>
                  done' = [done |-> "read", at |-> program.at, content |-> bytes]
             /\ program.cmd = "IDENTIFY" => done' = done
    BY <2>1, <2>2, TransferGoesOn
  <2>. HIDE DEF bytes
  <2>4. CASE inx + 1 # Size \/ program.cmd = "IDENTIFY"
    <3>1. done' = done
      BY <2>1, <2>2, <2>3, <2>4
    <3>. QED
      BY <1>1, <2>2, <3>1 DEF Gide!disk
  <2>5. CASE inx + 1 = Size /\ program.cmd = "READ"
    <3>. DEFINE a == program.at
    <3>1. a \in Gide!Valid /\ buffer = Gide!FileRead(a)
      BY <2>5 DEF Busy, DiskInv, Idle, Gide!None
    <3>2. bytes = buffer
      <4>1. \A i \in 1 .. Size : bytes[i] = buffer[i]
        <5>1. \A i \in 1 .. inx : bytes[i] = buffer[i]
          BY <2>1, <2>2, <2>3, <2>5 DEF Busy
        <5>2. bytes[inx + 1] = buffer[inx + 1]
          BY <2>3 DEF b
        <5>3. \A i \in 1 .. Size : i \in 1 .. inx \/ i = inx + 1
          BY <2>2, <2>5
        <5>. QED
          BY <5>1, <5>2, <5>3
      <4>2. bytes \in [1 .. Size -> Nat] /\ buffer \in [1 .. Size -> Nat]
        BY <2>3, <2>5 DEF DiskInv, DiskTyped, Sector
      <4>3. bytes = [i \in 1 .. Size |-> bytes[i]] /\ buffer = [i \in 1 .. Size |-> buffer[i]]
        BY ONLY <4>2
      <4>. QED
        BY ONLY <4>1, <4>3, Zenon
    <3>3. done' = [done |-> "read", at |-> a, content |-> Gide!FileRead(a)]
      BY <2>3, <2>5, <3>1, <3>2
    <3>4. Last' = [done |-> "read", at |-> a, content |-> Gide!Meaning(Gide!FileRead(a))]
      <4>. HIDE DEF a
      <4>. QED
        BY <3>3 DEF Gide!Meaning, Last
    <3>5. Disk!Read(a)
      BY <2>2, <3>1, <3>4, DiskKept DEF Disk!Read, Seen, Last, Keeping
    <3>. QED
      BY <3>1, <3>5 DEF Disk!Next
  <2>. QED
    BY <2>1, <2>4, <2>5
<1>3. CASE Gide!OutData
  <2>1. image' = image /\ reg \in Gide!Valid
    BY <1>3, OutDataDoes DEF Gide!OutData
  <2>2. CASE outx + 1 # Size
    BY <1>1, <1>3, <2>1, <2>2, OutDataDoes
  <2>3. CASE outx + 1 = Size
    <3>1. buffer' \in [1 .. Size -> Data]
      BY <1>3, <2>3, OutDataDoes
    <3>2. Last' = [done |-> "write", at |-> reg, content |-> buffer']
      BY <1>3, <2>3, OutDataDoes DEF Last
    <3>3. Keeping' = Keeping
      BY <2>1 DEF Keeping
    <3>4. Disk!Write(reg, buffer')
      BY <1>3, <2>3, <3>2, <3>3, WriteSeen DEF Disk!Write, Seen, Last, Keeping
    <3>. QED
      BY <2>1, <3>1, <3>4 DEF Disk!Next
  <2>. QED
    BY <2>2, <2>3
<1>4. CASE Gide!OutSectorNumber \/ Gide!OutCylinderLow \/ Gide!OutCylinderHigh \/ Gide!OutDriveHead
  BY <1>1, <1>4 DEF Gide!OutSectorNumber, Gide!OutCylinderLow, Gide!OutCylinderHigh,
    Gide!OutDriveHead, Gide!disk, Gide!history
<1>5. CASE Gide!ReadSectors \/ Gide!WriteSectors \/ Gide!IdentifyDrive \/ Gide!ExecuteDiagnostics
  BY <1>1, <1>5 DEF Gide!ReadSectors, Gide!WriteSectors, Gide!IdentifyDrive,
    Gide!ExecuteDiagnostics, Gide!Given, Gide!disk, Gide!history
<1>6. CASE UNCHANGED Gide!vars
  BY <1>1, <1>6 DEF Gide!vars, Gide!disk, Gide!history
<1>. QED
  BY <1>2, <1>3, <1>4, <1>5, <1>6 DEF Gide!Next

\* A sector of the hard disk reads as it was written last, whatever the program did to other
\* sectors, in the same image or the other, and to the registers in between.
THEOREM GIDEIsDisk == StorageSpec => ImplementsDisk
<1>. USE DiskAssumption
<1>1. StorageInit => DiskInv
  <2>. SUFFICES ASSUME StorageInit
                PROVE  DiskInv
    OBVIOUS
  <2>0. Gide!Init
    BY DEF StorageInit
  <2>1. sectors \in [Gide!Drives -> Seq(Sector)] /\ image \subseteq Gide!Drives
    BY <2>0 DEF Gide!Init, Gide!GIDEAssumption
  <2>2. reg \in Register
    BY <2>0 DEF Gide!Init, Register, Gide!Drives
  <2>3. buffer \in Sector
    <3>1. PICK b \in Data : buffer = Gide!All(b)
      BY <2>0 DEF Gide!Init
    <3>2. b \in Nat
      BY DEF Gide!GIDEAssumption
    <3>. QED
      BY <3>1, <3>2 DEF Gide!All, Sector
  <2>. QED
    BY <2>0, <2>1, <2>2, <2>3 DEF Gide!Init, DiskInv, DiskTyped, Idle
<1>2. [StorageNext]_storage => [Gide!Next]_(Gide!vars)
  BY DEF StorageNext, storage, gide, Gide!vars, Gide!disk, Gide!registers, Gide!history
<1>3. DiskInv /\ [StorageNext]_storage => DiskInv'
  BY <1>2, InvKept
<1>4. StorageInit => Disk!Init
  <2>. SUFFICES ASSUME StorageInit
                PROVE  Disk!Init
    OBVIOUS
  <2>0. Gide!Init
    BY DEF StorageInit
  <2>1. \A r \in Gide!Valid : Gide!Meaning(Gide!FileRead(r)) = Gide!All(0)
    BY <2>0 DEF Gide!Init, Gide!FileRead, Gide!Meaning, Gide!Valid
  <2>2. Last = [done |-> "nothing"]
    BY <2>0 DEF Gide!Init, Last
  <2>. QED
    BY <2>1, <2>2 DEF Disk!Init, Last
<1>5. DiskInv /\ [StorageNext]_storage => [Disk!Next]_(Disk!vars)
  BY <1>2, StepsOfDisk
<1>. QED
  BY <1>1, <1>3, <1>4, <1>5, PTL DEF StorageSpec, ImplementsDisk, Disk!Spec
=============================================================================
