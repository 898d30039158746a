----------------------------- MODULE M052Proofs -----------------------------
(***************************************************************************)
(* Proofs about the two halves of the module M052.                         *)
(*                                                                         *)
(* The port of the KCNET (module KCNETCommand): between the commands of a  *)
(* program, and however a reset cuts one off, the memory, the pointer and  *)
(* the answer are those that each command promises as a whole; for any     *)
(* bytes, any counts that the port takes and any size of the memory.       *)
(*                                                                         *)
(* The invariant PortInv says where a command is: sent and not begun,      *)
(* taking its arguments, moving its bytes one by one, or answering; and in *)
(* each of these what is promised is what is there already, and what the   *)
(* bytes still to come will do.                                            *)
(*                                                                         *)
(* USB (module VDIP), at the end: while a file is open, what a WRF wrote   *)
(* to it is there; for any root of the host, any commands, and a user who  *)
(* changes the root or switches the module at any time.                    *)
(*                                                                         *)
(* The invariant FileInv adds to the types what the history variable wrf   *)
(* rests on: the device has one open file, which is the one the WRF found  *)
(* open; and while a WRF goes on, its bytes are at the file's end or where *)
(* a seek put them.  The steps of the device that only answer are Keeps.   *)
(***************************************************************************)
EXTENDS MCM052, FiniteSetTheorems, SequenceTheorems, WellFoundedInduction, TLAPS

-----------------------------------------------------------------------------
(* Sequences and numbers.                                                  *)

\* A function on 1 .. n is a sequence of that length.
LEMMA FunctionIsSeq ==
  ASSUME NEW S, NEW n \in Nat, NEW f \in [1 .. n -> S]
  PROVE  f \in Seq(S) /\ Len(f) = n /\ DOMAIN f = 1 .. n
<1>1. f \in Seq(S)
  BY SeqDef
<1>2. DOMAIN f = 1 .. n /\ DOMAIN f = 1 .. Len(f) /\ Len(f) \in Nat
  BY <1>1, LenProperties
<1>. QED
  BY <1>1, <1>2

\* Counting around the memory.
LEMMA ModularTurn ==
  ASSUME NEW c \in Nat \ {0}, NEW k \in Nat
  PROVE  (k + c) % c = k % c
<1>1. k = c * (k \div c) + (k % c)
  OBVIOUS
<1>2. k % c \in 0 .. c - 1
  OBVIOUS
<1>3. k \div c \in Int
  OBVIOUS
<1>4. \A n \in Nat : n = c * (n \div c) + (n % c) /\ n % c \in 0 .. c - 1 /\ n \div c \in Int
  OBVIOUS
<1>5. /\ k + c = c * ((k + c) \div c) + ((k + c) % c)
      /\ (k + c) % c \in 0 .. c - 1 /\ (k + c) \div c \in Int
  <2>1. k + c \in Nat
    OBVIOUS
  <2>. QED
    BY <1>4, <2>1
<1>6. \A q \in Int, s \in Int, r \in 0 .. c - 1, t \in 0 .. c - 1 :
        c * q + r = c * s + t => q = s
  OBVIOUS
<1>. DEFINE q == k \div c
            s == (k + c) \div c
            r == k % c
            t == (k + c) % c
<1>. HIDE DEF q, s, r, t
<1>7. q \in Int /\ s \in Int /\ r \in 0 .. c - 1 /\ t \in 0 .. c - 1
  BY <1>2, <1>3, <1>5 DEF q, s, r, t
<1>8. c * (q + 1) + r = c * s + t
  <2>1. k = c * q + r
    BY <1>1 DEF q, r
  <2>2. k + c = c * s + t
    BY <1>5 DEF s, t
  <2>3. c * (q + 1) = c * q + c
    BY <1>7
  <2>. QED
    BY <1>7, <2>1, <2>2, <2>3
<1>9. q + 1 = s
  BY <1>6, <1>7, <1>8
<1>10. r = t
  BY <1>7, <1>8, <1>9
<1>. QED
  BY <1>10 DEF r, t

LEMMA ModularNext ==
  ASSUME NEW c \in Nat \ {0}, NEW x \in 0 .. c - 1, NEW k \in Nat
  PROVE  /\ (x + 1) % c \in 0 .. c - 1 /\ (x + k) % c \in 0 .. c - 1
         /\ x % c = x
         /\ (((x + 1) % c) + k) % c = (x + k + 1) % c
<1>. DEFINE y == (x + 1) % c
<1>1. (x + 1) % c \in 0 .. c - 1 /\ (x + k) % c \in 0 .. c - 1 /\ x % c = x
  <2>1. \A n \in Nat : n % c \in 0 .. c - 1
    OBVIOUS
  <2>2. x + 1 \in Nat /\ x + k \in Nat
    OBVIOUS
  <2>3. x % c = x
    OBVIOUS
  <2>. QED
    BY <2>1, <2>2, <2>3
<1>2. CASE x + 1 < c
  <2>1. x + 1 \in 0 .. c - 1
    BY <1>2
  <2>2. y = x + 1
    BY <2>1
  <2>3. y + k = x + k + 1
    BY <2>2
  <2>. QED
    BY <1>1, <2>3
<1>3. CASE x + 1 = c
  <2>1. y = 0
    BY <1>3
  <2>2. y + k = k
    BY <2>1
  <2>3. (k + c) % c = k % c
    BY ModularTurn
  <2>. QED
    BY <1>1, <1>3, <2>2, <2>3
<1>. QED
  BY <1>2, <1>3

\* A sequence whose first element went over to the end of another.
LEMMA HandedOver ==
  ASSUME NEW S, NEW s \in Seq(S), NEW t \in Seq(S), t # <<>>
  PROVE  /\ Append(s, Head(t)) \o Tail(t) = s \o t
         /\ Head(t) = t[1] /\ Head(t) \in S /\ Tail(t) \in Seq(S) /\ Len(Tail(t)) = Len(t) - 1
         /\ \A k \in 1 .. Len(t) - 1 : Tail(t)[k] = t[k + 1]
<1>1. /\ Head(t) = t[1] /\ Head(t) \in S /\ Tail(t) \in Seq(S) /\ Len(Tail(t)) = Len(t) - 1
      /\ \A k \in 1 .. Len(t) - 1 : Tail(t)[k] = t[k + 1]
      /\ Len(t) \in Nat \ {0}
  <2>1. Len(t) \in Nat \ {0}
    BY EmptySeq, LenProperties
  <2>. QED
    BY <2>1, HeadTailProperties
<1>. DEFINE a == Append(s, Head(t))
            b == Tail(t)
<1>2. /\ a \in Seq(S) /\ Len(a) = Len(s) + 1 /\ Len(s) \in Nat
      /\ \A k \in 1 .. Len(s) : a[k] = s[k]
      /\ a[Len(s) + 1] = t[1]
  BY <1>1, AppendProperties, LenProperties
<1>3. b \in Seq(S) /\ Len(b) = Len(t) - 1 /\ \A k \in 1 .. Len(t) - 1 : b[k] = t[k + 1]
  BY <1>1
<1>. HIDE DEF a, b
<1>4. /\ a \o b \in Seq(S) /\ Len(a \o b) = Len(a) + Len(b)
      /\ \A i \in 1 .. Len(a) + Len(b) : (a \o b)[i] = IF i <= Len(a) THEN a[i] ELSE b[i - Len(a)]
  BY <1>2, <1>3, ConcatProperties
<1>5. /\ s \o t \in Seq(S) /\ Len(s \o t) = Len(s) + Len(t)
      /\ \A i \in 1 .. Len(s) + Len(t) : (s \o t)[i] = IF i <= Len(s) THEN s[i] ELSE t[i - Len(s)]
  BY ConcatProperties
<1>6. Len(a \o b) = Len(s \o t)
  BY <1>1, <1>2, <1>3, <1>4, <1>5
<1>7. ASSUME NEW i \in 1 .. Len(s) + Len(t)
      PROVE  (a \o b)[i] = (s \o t)[i]
  <2>0. i \in Nat /\ Len(s) \in Nat
    BY <1>2
  <2>1. CASE i <= Len(s)
    BY <1>1, <1>2, <1>3, <1>4, <1>5, <2>1
  <2>2. CASE i = Len(s) + 1
    BY <1>1, <1>2, <1>3, <1>4, <1>5, <2>2
  <2>3. CASE i > Len(s) + 1
    <3>1. i - Len(a) \in 1 .. Len(t) - 1 /\ i - Len(a) + 1 = i - Len(s)
      BY <1>1, <1>2, <2>3
    <3>2. (a \o b)[i] = b[i - Len(a)]
      BY <1>1, <1>2, <1>3, <1>4, <2>3
    <3>3. (s \o t)[i] = t[i - Len(s)]
      BY <1>1, <1>2, <1>5, <2>3
    <3>. QED
      BY <1>3, <3>1, <3>2, <3>3
  <2>4. i <= Len(s) \/ i = Len(s) + 1 \/ i > Len(s) + 1
    BY <2>0
  <2>. QED
    BY <2>1, <2>2, <2>3, <2>4, Zenon
<1>8. a \o b = s \o t
  BY <1>4, <1>5, <1>6, <1>7, SeqEqual
<1>. QED
  BY <1>1, <1>8 DEF a, b

-----------------------------------------------------------------------------
\* Bytes laid down from a place on, around the memory: Stored of the model, over any memory.
Hits(p, data, a) == {k \in 1 .. Len(data) : (p + k - 1) % Cells = a}
Laid(m, p, data) ==
  [a \in Port!Addresses |->
     IF \E k \in DOMAIN data : (p + k - 1) % Cells = a
     THEN data[CHOOSE k \in DOMAIN data :
                 (p + k - 1) % Cells = a /\ \A l \in DOMAIN data : (p + l - 1) % Cells = a => l <= k]
     ELSE m[a]]

\* The last byte of those that go to a cell is there.
LEMMA LastHit ==
  ASSUME NEW n \in Nat, NEW T, T \subseteq 1 .. n, T # {}
  PROVE  \E k \in T : \A l \in T : l <= k
<1>. DEFINE S == 1 .. n
            R == StrictSubsetOrdering(S)
            Q == {k .. n : k \in T}
<1>1. IsWellFoundedOn(R, FiniteSubsetsOf(S))
  BY FS_StrictSubsetOrderingWellFounded
<1>2. Q \subseteq FiniteSubsetsOf(S) /\ Q # {}
  <2>1. \A k \in T : k .. n \in SUBSET S /\ k \in Int
    OBVIOUS
  <2>2. \A k \in T : IsFiniteSet(k .. n)
    BY <2>1, FS_Interval
  <2>. QED
    BY <2>1, <2>2 DEF FiniteSubsetsOf
<1>. HIDE DEF R, Q
<1>3. \E a \in Q : \A b \in Q : <<b, a>> \notin R
  BY <1>1, <1>2, WFMin
<1>4. PICK k \in T : \A b \in Q : <<b, k .. n>> \notin R
  BY <1>3 DEF Q
<1>5. ASSUME NEW l \in T, l > k
      PROVE  FALSE
  <2>1. l .. n \in Q
    BY DEF Q
  <2>2. k \in k .. n /\ k \notin l .. n /\ l .. n \subseteq k .. n /\ k .. n \subseteq S
    BY <1>5
  <2>3. <<l .. n, k .. n>> \in R
    BY <2>2 DEF R, StrictSubsetOrdering
  <2>. QED
    BY <1>4, <2>1, <2>3
<1>. QED
  BY <1>5

LEMMA CellsCount == Cells \in Nat \ {0} /\ Port!Addresses = 0 .. Cells - 1
BY PortAssumption DEF Port!KCNETCommandAssumption, Port!Addresses

LEMMA LaidAt ==
  ASSUME NEW S, NEW data \in Seq(S), NEW p \in Port!Addresses, NEW m, NEW a \in Port!Addresses
  PROVE  /\ Hits(p, data, a) = {} => Laid(m, p, data)[a] = m[a]
         /\ \A k \in Hits(p, data, a) :
              (\A l \in Hits(p, data, a) : l <= k) => Laid(m, p, data)[a] = data[k]
<1>. DEFINE last == CHOOSE k \in DOMAIN data :
                      (p + k - 1) % Cells = a
                      /\ \A l \in DOMAIN data : (p + l - 1) % Cells = a => l <= k
<1>1. DOMAIN data = 1 .. Len(data) /\ Len(data) \in Nat
  BY LenProperties
<1>2. Laid(m, p, data)[a] = IF \E k \in DOMAIN data : (p + k - 1) % Cells = a
                            THEN data[last] ELSE m[a]
  BY DEF Laid
<1>3. Hits(p, data, a) = {k \in DOMAIN data : (p + k - 1) % Cells = a}
  BY <1>1 DEF Hits
<1>4. ASSUME NEW k \in Hits(p, data, a), \A l \in Hits(p, data, a) : l <= k
      PROVE  last = k
  <2>1. k \in DOMAIN data /\ (p + k - 1) % Cells = a
        /\ \A l \in DOMAIN data : (p + l - 1) % Cells = a => l <= k
    BY <1>3, <1>4
  <2>2. last \in DOMAIN data /\ (p + last - 1) % Cells = a
        /\ \A l \in DOMAIN data : (p + l - 1) % Cells = a => l <= last
    BY <2>1
  <2>. HIDE DEF last
  <2>3. k <= last /\ last <= k
    BY <2>1, <2>2
  <2>. QED
    BY <1>1, <2>1, <2>2, <2>3
<1>. HIDE DEF last
<1>. QED
  BY <1>2, <1>3, <1>4

\* The first byte is laid down, and then the others.
LEMMA LaidNext ==
  ASSUME NEW S, NEW data \in Seq(S), data # <<>>, NEW p \in Port!Addresses,
         NEW V, NEW m \in [Port!Addresses -> V]
  PROVE  Laid(m, p, data) = Laid([m EXCEPT ![p] = data[1]], (p + 1) % Cells, Tail(data))
<1>. DEFINE t == Tail(data)
            q == (p + 1) % Cells
            m1 == [m EXCEPT ![p] = data[1]]
<1>1. /\ t \in Seq(S) /\ Len(t) = Len(data) - 1 /\ Len(data) \in Nat \ {0}
      /\ \A k \in 1 .. Len(data) - 1 : t[k] = data[k + 1]
  <2>1. Len(data) \in Nat \ {0}
    BY EmptySeq, LenProperties
  <2>. QED
    BY <2>1, HeadTailProperties
<1>2. /\ q \in Port!Addresses /\ p % Cells = p
      /\ \A k \in Nat : (q + k) % Cells = (p + k + 1) % Cells
  BY CellsCount, ModularNext
<1>3. p \in Nat /\ q \in Nat
  BY <1>2, CellsCount
<1>6. \A a \in Port!Addresses : m1[a] = IF a = p THEN data[1] ELSE m[a]
  OBVIOUS
<1>. HIDE DEF t, q, m1
<1>4. ASSUME NEW a \in Port!Addresses
      PROVE  Laid(m, p, data)[a] = Laid(m1, q, t)[a]
  <2>. DEFINE H == Hits(p, data, a)
              I == Hits(q, t, a)
  <2>1. ASSUME NEW k \in Nat \ {0}
        PROVE  k \in I <=> k + 1 \in H
    <3>1. k - 1 \in Nat /\ q + k - 1 = q + (k - 1) /\ p + (k + 1) - 1 = p + (k - 1) + 1
      BY <1>3
    <3>2. (q + k - 1) % Cells = (p + (k + 1) - 1) % Cells
      BY <1>2, <3>1
    <3>. QED
      BY <1>1, <3>2 DEF Hits
  <2>2. 1 \in H <=> a = p
    <3>1. p + 1 - 1 = p
      BY <1>3
    <3>. QED
      BY <1>1, <1>2, <3>1 DEF Hits
  <2>3. H \subseteq 1 .. Len(data) /\ I \subseteq 1 .. Len(t)
    BY DEF Hits
  <2>. HIDE DEF H, I
  <2>4. CASE H = {}
    <3>1. I = {}
      BY <1>1, <2>1, <2>3, <2>4
    <3>2. a # p
      BY <2>2, <2>4
    <3>3. Laid(m, p, data)[a] = m[a]
      BY <2>4, LaidAt DEF H
    <3>4. Laid(m1, q, t)[a] = m1[a]
      BY <1>1, <1>2, <3>1, LaidAt DEF I
    <3>. QED
      BY <1>6, <3>2, <3>3, <3>4
  <2>5. CASE H # {}
    <3>1. PICK k \in H : \A l \in H : l <= k
      BY <1>1, <2>3, <2>5, LastHit
    <3>2. Laid(m, p, data)[a] = data[k]
      BY <3>1, LaidAt DEF H
    <3>3. CASE k = 1
      <4>1. I = {}
        <5>1. ASSUME NEW l \in I
              PROVE  FALSE
          <6>1. l \in Nat \ {0}
            BY <1>1, <2>3
          <6>2. l + 1 \in H
            BY <2>1, <6>1
          <6>. QED
            BY <3>1, <3>3, <6>1, <6>2
        <5>. QED
          BY <5>1
      <4>2. Laid(m1, q, t)[a] = m1[a]
        BY <1>1, <1>2, <4>1, LaidAt DEF I
      <4>3. a = p /\ m1[a] = data[1]
        BY <1>6, <2>2, <3>1, <3>3
      <4>. QED
        BY <3>2, <3>3, <4>2, <4>3
    <3>4. CASE k # 1
      <4>1. k - 1 \in Nat \ {0} /\ k - 1 + 1 = k /\ k - 1 \in 1 .. Len(data) - 1
        BY <1>1, <2>3, <3>1, <3>4
      <4>2. k - 1 \in I
        BY <2>1, <3>1, <4>1
      <4>3. ASSUME NEW l \in I
            PROVE  l <= k - 1
        <5>1. l \in Nat \ {0}
          BY <1>1, <2>3
        <5>2. l + 1 \in H
          BY <2>1, <5>1
        <5>. QED
          BY <3>1, <4>1, <5>1, <5>2
      <4>4. Laid(m1, q, t)[a] = t[k - 1]
        BY <1>1, <1>2, <4>2, <4>3, LaidAt DEF I
      <4>5. t[k - 1] = data[k]
        BY <1>1, <4>1
      <4>. QED
        BY <3>2, <4>4, <4>5
    <3>. QED
      BY <3>3, <3>4
  <2>. QED
    BY <2>4, <2>5
<1>5. Laid(m, p, data) = Laid(m1, q, t)
  <2>1. Laid(m, p, data) = [a \in Port!Addresses |-> Laid(m, p, data)[a]]
        /\ Laid(m1, q, t) = [a \in Port!Addresses |-> Laid(m1, q, t)[a]]
    BY DEF Laid
  <2>. QED
    BY <1>4, <2>1
<1>. QED
  BY <1>5 DEF t, q, m1

-----------------------------------------------------------------------------
\* What is still to come of a command: its bytes m after the code op are those that a
\* program sends.
Octet == 0 .. 255
Coded == Port!Codes \cup Octet
Counted == {"write_bytes", "read_bytes", "set_pointer", "write_byte", "read_byte"}
Fits(op, m) ==
  /\ op \in Port!Codes /\ m \in Seq(Octet)
  /\ IF op = "write_bytes" THEN Len(m) > 2 /\ m[1] = Len(m) - 2
     ELSE Len(m) = Port!Arguments(op)
  /\ op \in Counted => m[2] = 0
  /\ op = "read_bytes" => m[1] > 0
  /\ op \in {"set_pointer", "write_byte", "read_byte"} => m[1] \in Port!Addresses
  /\ op \in {"write_ipaddr", "read_ipaddr"} => m[1] = 0

\* What is promised for it, and how many bytes will be read.
Promise(op, m) ==
  LET same == [mem |-> memory, pointer |-> pointer, ip |-> ip, answer |-> <<>>] IN
  CASE op = "write_bytes" ->
         [same EXCEPT !.mem = Laid(memory, pointer, SubSeq(m, 3, Len(m))),
                      !.pointer = (pointer + (Len(m) - 2)) % Cells]
    [] op = "read_bytes" ->
         [same EXCEPT !.answer = [k \in 1 .. m[1] |-> memory[(pointer + k - 1) % Cells]],
                      !.pointer = (pointer + m[1]) % Cells]
    [] op = "set_pointer" -> [same EXCEPT !.pointer = m[1]]
    [] op = "write_byte" ->
         IF m[1] = 0 /\ m[3] >= 128
         THEN [same EXCEPT !.mem = Port!Cleared, !.pointer = 0]
         ELSE [same EXCEPT !.mem = [memory EXCEPT ![m[1]] = m[3]]]
    [] op = "read_byte" -> [same EXCEPT !.answer = <<memory[m[1]]>>]
    [] op = "write_ipaddr" -> [same EXCEPT !.ip = SubSeq(m, 2, 5)]
    [] op = "read_ipaddr" -> [same EXCEPT !.answer = ip]
    [] OTHER -> [same EXCEPT !.answer = Port!Constant(op)]
Expected(op, m) ==
  CASE op = "read_bytes" -> m[1]
    [] op = "read_byte" -> 1
    [] op = "read_ipaddr" -> 4
    [] op \in {"read_link", "read_timer"} -> Len(Port!Constant(op))
    [] OTHER -> 0

\* The command's bytes are on their way.
Coming(op, m) ==
  /\ Fits(op, m) /\ promised = Promise(op, m) /\ caller.in = Expected(op, m) /\ read = <<>>
Called ==
  /\ command.phase = "finished" /\ caller.out # <<>>
  /\ Coming(caller.out[1], Tail(caller.out))
Arguing ==
  /\ command.phase = "args" /\ command.left = 0 /\ command.result = <<>>
  /\ command.args \in Seq(Octet) /\ caller.out \in Seq(Octet)
  /\ Len(command.args) < Port!Arguments(command.op)
  /\ Coming(command.op, command.args \o caller.out)

\* The data are on their way in, or out; or the answer; or nothing.
Writing ==
  /\ command.phase = "write" /\ command.op = "write_bytes"
  /\ caller.out \in Seq(Octet) /\ caller.out # <<>> /\ caller.in = 0 /\ read = <<>>
  /\ command.left = Len(caller.out)
  /\ promised = [mem |-> Laid(memory, pointer, caller.out),
                 pointer |-> (pointer + Len(caller.out)) % Cells, ip |-> ip, answer |-> <<>>]
Reading ==
  /\ command.phase = "read" /\ command.op = "read_bytes"
  /\ caller.out = <<>> /\ caller.in > 0 /\ command.left = caller.in
  /\ promised = [mem |-> memory, pointer |-> (pointer + caller.in) % Cells, ip |-> ip,
                 answer |-> read \o [k \in 1 .. caller.in |->
                                       memory[(pointer + k - 1) % Cells]]]
Answering ==
  /\ command.phase = "read" /\ command.op # "read_bytes"
  /\ command.result \in Seq(Octet) /\ command.result # <<>>
  /\ caller.out = <<>> /\ caller.in = Len(command.result)
  /\ promised = [mem |-> memory, pointer |-> pointer, ip |-> ip,
                 answer |-> read \o command.result]
Idle ==
  /\ command.phase = "finished" /\ caller = [out |-> <<>>, in |-> 0]
  /\ promised = [mem |-> memory, pointer |-> pointer, ip |-> ip, answer |-> read]

PortTyped ==
  /\ command \in [op : Port!Codes \cup {"none"}, phase : {"finished", "args", "write", "read"},
                  args : Seq(Octet), left : Nat, result : Seq(Octet)]
  /\ memory \in [Port!Addresses -> Octet] /\ pointer \in Port!Addresses
  /\ ip \in Seq(Octet) /\ Len(ip) = 4
  /\ caller \in [out : Seq(Coded), in : Nat]
  /\ read \in Seq(Octet)
PortInv == PortTyped /\ (Called \/ Arguing \/ Writing \/ Reading \/ Answering \/ Idle)

-----------------------------------------------------------------------------
\* The program sends a command when nothing is on its way.
LEMMA ArgumentsAre ==
  ASSUME NEW op \in Port!Codes
  PROVE  /\ Port!Arguments(op) \in 0 .. 5
         /\ op \in {"write_bytes", "read_bytes", "set_pointer", "read_byte"} => Port!Arguments(op) = 2
         /\ op = "write_byte" => Port!Arguments(op) = 3
         /\ op = "write_ipaddr" => Port!Arguments(op) = 5
         /\ op = "read_ipaddr" => Port!Arguments(op) = 1
         /\ op \in {"read_link", "read_timer"} => Port!Arguments(op) = 0
BY DEF Port!Arguments, Port!Codes

LEMMA BetweenCommands ==
  ASSUME PortInv, caller = [out |-> <<>>, in |-> 0]
  PROVE  Idle
<1>1. ~Called /\ ~Writing /\ ~Reading
  BY DEF Called, Writing, Reading
<1>2. ~Answering
  <2>. SUFFICES ASSUME Answering
                PROVE  FALSE
    OBVIOUS
  <2>1. command.result \in Seq(Octet) /\ command.result # <<>> /\ Len(command.result) = 0
    BY DEF Answering
  <2>. QED
    BY <2>1, EmptySeq
<1>3. ~Arguing
  <2>. SUFFICES ASSUME Arguing
                PROVE  FALSE
    OBVIOUS
  <2>1. /\ Fits(command.op, command.args \o <<>>) /\ command.args \in Seq(Octet)
        /\ Len(command.args) < Port!Arguments(command.op)
    BY DEF Arguing, Coming
  <2>2. command.args \o <<>> = command.args
    BY <2>1
  <2>3. Len(command.args) >= Port!Arguments(command.op)
    <3>1. command.op = "write_bytes" => Port!Arguments(command.op) = 2
      BY <2>1, ArgumentsAre DEF Fits
    <3>. QED
      BY <2>1, <2>2, <3>1 DEF Fits
  <2>4. Len(command.args) \in Nat /\ Port!Arguments(command.op) \in Nat
    BY <2>1, ArgumentsAre DEF Fits
  <2>. QED
    BY <2>1, <2>3, <2>4
<1>. QED
  BY <1>1, <1>2, <1>3 DEF PortInv

LEMMA CallKeeps ==
  ASSUME PortInv, NEW out \in Seq(Coded), out # <<>>, NEW in, NEW q, Port!Send(out, in, q),
         NEW op, NEW m, op = out[1], m = Tail(out),
         Fits(op, m), q = Promise(op, m), in = Expected(op, m), in \in Nat
  PROVE  PortInv'
<1>1. Idle
  BY BetweenCommands DEF Port!Send
<1>2. /\ caller' = [out |-> out, in |-> in] /\ promised' = q /\ read' = <<>>
      /\ UNCHANGED <<command, pointer, memory, ip>>
  BY DEF Port!Send, Port!chip
<1>3. <<>> \in Seq(Octet)
  OBVIOUS
<1>4. PortTyped'
  BY <1>2, <1>3 DEF PortInv, PortTyped, Port!Addresses
<1>5. Promise(op, m)' = Promise(op, m)
  BY <1>2 DEF Promise, Laid, Port!Addresses, Port!Cleared, Port!Constant
<1>6. Called'
  BY <1>1, <1>2, <1>5 DEF Called, Coming, Idle, Fits, Expected, Port!Addresses, Port!Codes,
     Port!Arguments, Port!Constant
<1>. QED
  BY <1>4, <1>6 DEF PortInv

\* A sequence of two numbers and data, after the code of a command.
Message(op, a, b, data) == <<op, a, b>> \o data
Body(a, b, data) == <<a, b>> \o data

LEMMA MessageIs ==
  ASSUME NEW op \in Port!Codes, NEW a \in Octet, NEW b \in Octet, NEW data \in Seq(Octet)
  PROVE  /\ Message(op, a, b, data) \in Seq(Coded) /\ Message(op, a, b, data) # <<>>
         /\ Message(op, a, b, data)[1] = op /\ Tail(Message(op, a, b, data)) = Body(a, b, data)
         /\ Body(a, b, data) \in Seq(Octet) /\ Len(Body(a, b, data)) = Len(data) + 2
         /\ Body(a, b, data)[1] = a /\ Body(a, b, data)[2] = b
         /\ SubSeq(Body(a, b, data), 3, Len(Body(a, b, data))) = data
         /\ data # <<>> => Body(a, b, data)[3] = data[1]
<1>. DEFINE out == <<op, a, b>> \o data
            m == <<a, b>> \o data
<1>1. data \in Seq(Coded)
  <2>1. data \in [1 .. Len(data) -> Octet] /\ Len(data) \in Nat
    BY LenProperties
  <2>2. data \in [1 .. Len(data) -> Coded]
    BY <2>1 DEF Coded
  <2>. QED
    BY <2>1, <2>2, FunctionIsSeq
<1>2. <<op, a, b>> \in Seq(Coded)
  BY DEF Coded
<1>3. out \in Seq(Coded)
  BY <1>1, <1>2, ConcatProperties
<1>4. Len(out) = 3 + Len(data) /\ Len(data) \in Nat
  BY <1>1, <1>2
<1>5. out # <<>>
  <2>. HIDE DEF out
  <2>. QED
    BY <1>3, <1>4, EmptySeq
<1>6. out[1] = op /\ Tail(out) = m
  OBVIOUS
<1>7. m \in Seq(Octet) /\ Len(m) = Len(data) + 2 /\ m[1] = a /\ m[2] = b
  OBVIOUS
<1>8. SubSeq(m, 3, Len(m)) = data
  OBVIOUS
<1>9. data # <<>> => m[3] = data[1]
  OBVIOUS
<1>. HIDE DEF out, m
<1>10. out = Message(op, a, b, data) /\ m = Body(a, b, data)
  BY DEF out, m, Message, Body
<1>. QED
  BY <1>3, <1>5, <1>6, <1>7, <1>8, <1>9, <1>10

LEMMA SendWriteKeeps ==
  ASSUME PortInv, Port!SendWrite
  PROVE  PortInv'
<1>0. PICK n \in 1 .. MaxCount : \E data \in Port!DataOf(n) :
        Port!Send(<<"write_bytes", n, 0>> \o data, 0,
          [Port!Quiet EXCEPT !.mem = Port!Stored(promised.pointer, data),
                             !.pointer = (@ + n) % Cells])
  BY DEF Port!SendWrite
<1>1. PICK data \in Port!DataOf(n) :
        Port!Send(<<"write_bytes", n, 0>> \o data, 0,
          [Port!Quiet EXCEPT !.mem = Port!Stored(promised.pointer, data),
                             !.pointer = (@ + n) % Cells])
  BY <1>0
<1>. DEFINE out == Message("write_bytes", n, 0, data)
            m == Body(n, 0, data)
            q == [Port!Quiet EXCEPT !.mem = Port!Stored(promised.pointer, data),
                                    !.pointer = (@ + n) % Cells]
<1>2. n \in Octet /\ 0 \in Octet /\ n \in Nat \ {0}
  BY PortAssumption DEF Port!KCNETCommandAssumption, Octet
<1>3. data \in Seq(Octet) /\ Len(data) = n
  <2>1. data \in [1 .. n -> Octet]
    BY PortAssumption DEF Port!KCNETCommandAssumption, Octet, Port!DataOf
  <2>. QED
    BY <1>2, <2>1, FunctionIsSeq
<1>4. Idle
  BY <1>1, BetweenCommands DEF Port!Send
<1>5. "write_bytes" \in Port!Codes
  BY DEF Port!Codes
<1>6. /\ out \in Seq(Coded) /\ out # <<>> /\ out[1] = "write_bytes" /\ Tail(out) = m
      /\ m \in Seq(Octet) /\ Len(m) = Len(data) + 2 /\ m[1] = n /\ m[2] = 0
      /\ SubSeq(m, 3, Len(m)) = data
  BY <1>2, <1>3, <1>5, MessageIs
<1>. HIDE DEF out, m
<1>7. Fits("write_bytes", m)
  BY <1>2, <1>3, <1>5, <1>6 DEF Fits
<1>8. q = Promise("write_bytes", m)
  <2>1. promised = [mem |-> memory, pointer |-> pointer, ip |-> ip, answer |-> read]
    BY <1>4 DEF Idle
  <2>2. Port!Stored(promised.pointer, data) = Laid(memory, pointer, data)
    BY <2>1 DEF Port!Stored, Laid
  <2>3. q = [mem |-> Laid(memory, pointer, data), pointer |-> (pointer + n) % Cells,
             ip |-> ip, answer |-> <<>>]
    <3>1. Port!Quiet = [mem |-> memory, pointer |-> pointer, ip |-> ip, answer |-> <<>>]
      BY <2>1 DEF Port!Quiet
    <3>. DEFINE s == Port!Stored(promised.pointer, data)
    <3>2. s = Laid(memory, pointer, data)
      BY <2>2
    <3>3. q = [Port!Quiet EXCEPT !.mem = s, !.pointer = (Port!Quiet.pointer + n) % Cells]
      BY <3>1
    <3>. HIDE DEF s, q
    <3>. QED
      BY <3>1, <3>2, <3>3
  <2>4. Len(m) - 2 = n
    BY <1>2, <1>3, <1>6
  <2>. HIDE DEF q
  <2>. QED
    BY <1>6, <2>3, <2>4 DEF Promise
<1>9. Expected("write_bytes", m) = 0
  BY DEF Expected
<1>. HIDE DEF q
<1>. QED
  BY <1>1, <1>6, <1>7, <1>8, <1>9, CallKeeps DEF out, q, Message

LEMMA ShortMessage ==
  ASSUME NEW op \in Port!Codes, NEW a \in Octet
  PROVE  LET out == <<op, a, 0>> IN
         /\ out \in Seq(Coded) /\ out # <<>> /\ out[1] = op /\ Tail(out) = <<a, 0>>
         /\ <<a, 0>> \in Seq(Octet) /\ Len(<<a, 0>>) = 2
<1>1. <<op, a, 0>> \in Seq(Coded)
  BY DEF Coded, Octet
<1>2. <<a, 0>> \in Seq(Octet)
  BY DEF Octet
<1>3. /\ <<op, a, 0>> # <<>> /\ <<op, a, 0>>[1] = op /\ Tail(<<op, a, 0>>) = <<a, 0>>
      /\ Len(<<a, 0>>) = 2
  OBVIOUS
<1>. QED
  BY <1>1, <1>2, <1>3

LEMMA QuietIs ==
  ASSUME PortInv, caller = [out |-> <<>>, in |-> 0]
  PROVE  /\ promised = [mem |-> memory, pointer |-> pointer, ip |-> ip, answer |-> read]
         /\ Port!Quiet = [mem |-> memory, pointer |-> pointer, ip |-> ip, answer |-> <<>>]
<1>1. promised = [mem |-> memory, pointer |-> pointer, ip |-> ip, answer |-> read]
  BY BetweenCommands DEF Idle
<1>. QED
  BY <1>1 DEF Port!Quiet

LEMMA CellIsOctet ==
  /\ Port!Addresses \subseteq Octet /\ 1 .. MaxCount \subseteq Octet /\ Values \subseteq Octet
  /\ {0, 1} \subseteq Octet
BY PortAssumption DEF Port!KCNETCommandAssumption, Port!Addresses, Octet

LEMMA SendReadKeeps ==
  ASSUME PortInv, Port!SendRead
  PROVE  PortInv'
<1>1. PICK n \in 1 .. MaxCount :
        Port!Send(<<"read_bytes", n, 0>>, n,
          [promised EXCEPT
             !.answer = [k \in 1 .. n |-> promised.mem[(promised.pointer + k - 1) % Cells]],
             !.pointer = (@ + n) % Cells])
  BY DEF Port!SendRead
<1>. DEFINE op == "read_bytes"
            out == <<op, n, 0>>
            m == <<n, 0>>
            q == [promised EXCEPT
                    !.answer = [k \in 1 .. n |-> promised.mem[(promised.pointer + k - 1) % Cells]],
                    !.pointer = (@ + n) % Cells]
<1>2. op \in Port!Codes /\ n \in Octet /\ n \in Nat \ {0}
  BY CellIsOctet DEF Port!Codes
<1>3. /\ out \in Seq(Coded) /\ out # <<>> /\ out[1] = op /\ Tail(out) = m
      /\ m \in Seq(Octet) /\ Len(m) = 2
  BY <1>2, ShortMessage
<1>4. Fits(op, m)
  BY <1>2, <1>3, ArgumentsAre DEF Fits
<1>5. q = Promise(op, m)
  <2>1. promised = [mem |-> memory, pointer |-> pointer, ip |-> ip, answer |-> read]
    BY <1>1, QuietIs DEF Port!Send
  <2>2. q = [mem |-> memory, pointer |-> (pointer + n) % Cells, ip |-> ip,
             answer |-> [k \in 1 .. n |-> memory[(pointer + k - 1) % Cells]]]
    <3>. DEFINE f == [k \in 1 .. n |-> promised.mem[(promised.pointer + k - 1) % Cells]]
                g == [k \in 1 .. n |-> memory[(pointer + k - 1) % Cells]]
    <3>1. f = g
      BY <2>1
    <3>2. q = [promised EXCEPT !.answer = f, !.pointer = (promised.pointer + n) % Cells]
      BY <2>1
    <3>. HIDE DEF f, g, q
    <3>3. q = [mem |-> memory, pointer |-> (pointer + n) % Cells, ip |-> ip, answer |-> g]
      BY <2>1, <3>1, <3>2
    <3>. QED
      BY <3>3 DEF g
  <2>. HIDE DEF q
  <2>. QED
    BY <2>2 DEF Promise
<1>6. Expected(op, m) = n
  BY DEF Expected
<1>. HIDE DEF q
<1>. QED
  BY <1>1, <1>2, <1>3, <1>4, <1>5, <1>6, CallKeeps DEF q

LEMMA SendPointerKeeps ==
  ASSUME PortInv, Port!SendPointer
  PROVE  PortInv'
<1>1. PICK a \in Port!Addresses :
        Port!Send(<<"set_pointer", a, 0>>, 0, [Port!Quiet EXCEPT !.pointer = a])
  BY DEF Port!SendPointer
<1>. DEFINE op == "set_pointer"
            out == <<op, a, 0>>
            m == <<a, 0>>
            q == [Port!Quiet EXCEPT !.pointer = a]
<1>2. op \in Port!Codes /\ a \in Octet
  BY CellIsOctet DEF Port!Codes
<1>3. /\ out \in Seq(Coded) /\ out # <<>> /\ out[1] = op /\ Tail(out) = m
      /\ m \in Seq(Octet) /\ Len(m) = 2
  BY <1>2, ShortMessage
<1>4. Fits(op, m)
  BY <1>2, <1>3, ArgumentsAre DEF Fits
<1>5. q = Promise(op, m)
  BY <1>1, QuietIs DEF Port!Send, Promise
<1>6. Expected(op, m) = 0
  BY DEF Expected
<1>. HIDE DEF q
<1>. QED
  BY <1>1, <1>2, <1>3, <1>4, <1>5, <1>6, CallKeeps DEF q

LEMMA SendReadByteKeeps ==
  ASSUME PortInv, Port!SendReadByte
  PROVE  PortInv'
<1>1. PICK a \in Port!Addresses :
        Port!Send(<<"read_byte", a, 0>>, 1, [promised EXCEPT !.answer = <<promised.mem[a]>>])
  BY DEF Port!SendReadByte
<1>. DEFINE op == "read_byte"
            out == <<op, a, 0>>
            m == <<a, 0>>
            q == [promised EXCEPT !.answer = <<promised.mem[a]>>]
<1>2. op \in Port!Codes /\ a \in Octet
  BY CellIsOctet DEF Port!Codes
<1>3. /\ out \in Seq(Coded) /\ out # <<>> /\ out[1] = op /\ Tail(out) = m
      /\ m \in Seq(Octet) /\ Len(m) = 2
  BY <1>2, ShortMessage
<1>4. Fits(op, m)
  BY <1>2, <1>3, ArgumentsAre DEF Fits
<1>5. q = Promise(op, m)
  BY <1>1, QuietIs DEF Port!Send, Promise
<1>6. Expected(op, m) = 1
  BY DEF Expected
<1>. HIDE DEF q
<1>. QED
  BY <1>1, <1>2, <1>3, <1>4, <1>5, <1>6, CallKeeps DEF q

LEMMA SendWriteByteKeeps ==
  ASSUME PortInv, Port!SendWriteByte
  PROVE  PortInv'
<1>1. PICK a \in Port!Addresses, v \in Values :
        Port!Send(<<"write_byte", a, 0, v>>, 0,
          IF a = 0 /\ v >= 128 THEN [Port!Quiet EXCEPT !.mem = Port!Cleared, !.pointer = 0]
          ELSE [Port!Quiet EXCEPT !.mem[a] = v])
  BY DEF Port!SendWriteByte
<1>. DEFINE op == "write_byte"
            out == <<op, a, 0, v>>
            m == <<a, 0, v>>
            q == IF a = 0 /\ v >= 128 THEN [Port!Quiet EXCEPT !.mem = Port!Cleared, !.pointer = 0]
                 ELSE [Port!Quiet EXCEPT !.mem[a] = v]
<1>2. op \in Port!Codes /\ a \in Octet /\ v \in Octet /\ 0 \in Octet
  BY CellIsOctet DEF Port!Codes
<1>3. /\ out \in Seq(Coded) /\ out # <<>> /\ out[1] = op /\ Tail(out) = m
      /\ m \in Seq(Octet) /\ Len(m) = 3
  <2>1. out \in Seq(Coded)
    BY <1>2 DEF Coded
  <2>2. m \in Seq(Octet)
    BY <1>2
  <2>3. out # <<>> /\ out[1] = op /\ Tail(out) = m /\ Len(m) = 3
    OBVIOUS
  <2>. QED
    BY <2>1, <2>2, <2>3
<1>4. Fits(op, m)
  BY <1>2, <1>3, ArgumentsAre DEF Fits
<1>5. q = Promise(op, m)
  <2>1. Port!Quiet = [mem |-> memory, pointer |-> pointer, ip |-> ip, answer |-> <<>>]
    BY <1>1, QuietIs DEF Port!Send
  <2>. QED
    BY <2>1 DEF Promise
<1>6. Expected(op, m) = 0
  BY DEF Expected
<1>. HIDE DEF q
<1>. QED
  BY <1>1, <1>2, <1>3, <1>4, <1>5, <1>6, CallKeeps DEF q

LEMMA SendAddressKeeps ==
  ASSUME PortInv, Port!SendAddress
  PROVE  PortInv'
<1>1. PICK v \in Values :
        Port!Send(<<"write_ipaddr", 0>> \o <<v, 0, 0, 1>>, 0,
                  [Port!Quiet EXCEPT !.ip = <<v, 0, 0, 1>>])
  BY DEF Port!SendAddress
<1>. DEFINE op == "write_ipaddr"
            addr == <<v, 0, 0, 1>>
            out == <<op, 0>> \o addr
            m == <<0>> \o addr
            q == [Port!Quiet EXCEPT !.ip = addr]
<1>2. op \in Port!Codes /\ v \in Octet /\ 0 \in Octet /\ 1 \in Octet
  BY CellIsOctet DEF Port!Codes
<1>3. addr \in Seq(Octet) /\ Len(addr) = 4
  BY <1>2
<1>4. addr \in Seq(Coded)
  BY <1>2 DEF Coded
<1>5. q = [mem |-> memory, pointer |-> pointer, ip |-> addr, answer |-> <<>>]
  BY <1>1, QuietIs DEF Port!Send
<1>. HIDE DEF addr
<1>6. /\ out \in Seq(Coded) /\ out # <<>> /\ out[1] = op /\ Tail(out) = m
  <2>1. <<op, 0>> \in Seq(Coded)
    BY <1>2 DEF Coded
  <2>2. out \in Seq(Coded) /\ Len(out) = 6
    <3>1. out \in Seq(Coded)
      BY <1>4, <2>1, ConcatProperties
    <3>2. Len(<<op, 0>>) = 2
      OBVIOUS
    <3>3. Len(out) = Len(<<op, 0>>) + Len(addr)
      BY <1>4, <2>1, ConcatProperties
    <3>. QED
      BY <1>3, <3>1, <3>2, <3>3
  <2>3. out[1] = op /\ Tail(out) = m
    BY <1>4
  <2>. HIDE DEF out
  <2>4. out # <<>>
    BY <2>2, EmptySeq
  <2>. QED
    BY <2>2, <2>3, <2>4
<1>7. m \in Seq(Octet) /\ Len(m) = 5 /\ m[1] = 0 /\ SubSeq(m, 2, 5) = addr
  <2>1. <<0>> \in Seq(Octet)
    BY <1>2
  <2>2. m \in Seq(Octet)
    BY <1>3, <2>1, ConcatProperties
  <2>3. /\ Len(m) = Len(<<0>>) + Len(addr)
        /\ \A i \in 1 .. Len(<<0>>) + Len(addr) :
             m[i] = IF i <= Len(<<0>>) THEN <<0>>[i] ELSE addr[i - Len(<<0>>)]
    BY <1>3, <2>1, ConcatProperties
  <2>4. Len(<<0>>) = 1 /\ <<0>>[1] = 0
    OBVIOUS
  <2>. HIDE DEF m
  <2>5. Len(m) = 5 /\ m[1] = 0 /\ \A i \in 1 .. 4 : m[i + 1] = addr[i]
    BY <1>3, <2>3, <2>4
  <2>6. SubSeq(m, 2, 5) = addr
    <3>. DEFINE t == SubSeq(m, 2, 5)
    <3>0. \A i \in 2 .. 5 : m[i] \in Octet
      <4>1. \A i \in 1 .. 5 : m[i] \in Octet
        BY <2>2, <2>5, ElementOfSeq
      <4>2. 2 .. 5 \subseteq 1 .. 5
        OBVIOUS
      <4>. QED
        BY <4>1, <4>2
    <3>1. /\ t \in Seq(Octet) /\ Len(t) = 4 /\ \A i \in 1 .. 4 : t[i] = m[2 + i - 1]
      <4>1. 2 \in Int /\ 5 \in Int /\ 5 - 2 + 1 = 4 /\ 2 <= 5
        OBVIOUS
      <4>. QED
        BY <3>0, <4>1, SubSeqProperties
    <3>. HIDE DEF t
    <3>2. \A i \in 1 .. 4 : t[i] = addr[i]
      <4>1. \A i \in 1 .. 4 : 2 + i - 1 = i + 1
        OBVIOUS
      <4>. QED
        BY <2>5, <3>1, <4>1
    <3>3. t = addr
      BY <1>3, <3>1, <3>2, SeqEqual
    <3>. QED
      BY <3>3 DEF t
  <2>. QED
    BY <2>2, <2>5, <2>6
<1>. HIDE DEF m, out
<1>8. Fits(op, m)
  BY <1>2, <1>7, ArgumentsAre DEF Fits, Counted
<1>. HIDE DEF q
<1>9. q = Promise(op, m)
  BY <1>5, <1>7 DEF Promise
<1>10. Expected(op, m) = 0
  BY DEF Expected
<1>. QED
  BY <1>1, <1>2, <1>6, <1>8, <1>9, <1>10, CallKeeps DEF q, out, addr

LEMMA SendAskKeeps ==
  ASSUME PortInv, Port!SendAsk
  PROVE  PortInv'
<1>1. CASE Port!Send(<<"read_ipaddr", 0>>, 4, [promised EXCEPT !.answer = promised.ip])
  <2>. DEFINE op == "read_ipaddr"
              out == <<op, 0>>
              m == <<0>>
              q == [promised EXCEPT !.answer = promised.ip]
  <2>1. op \in Port!Codes /\ 0 \in Octet
    BY CellIsOctet DEF Port!Codes
  <2>2. out \in Seq(Coded)
    BY <2>1 DEF Coded
  <2>3. m \in Seq(Octet)
    BY <2>1
  <2>4. out # <<>> /\ out[1] = op /\ Tail(out) = m /\ Len(m) = 1 /\ m[1] = 0
    OBVIOUS
  <2>5. Fits(op, m)
    BY <2>1, <2>3, <2>4, ArgumentsAre DEF Fits, Counted
  <2>6. q = Promise(op, m)
    BY <1>1, QuietIs DEF Port!Send, Promise
  <2>7. Expected(op, m) = 4
    BY DEF Expected
  <2>. HIDE DEF q
  <2>. QED
    BY <1>1, <2>1, <2>2, <2>4, <2>5, <2>6, <2>7, CallKeeps DEF q
<1>2. ASSUME NEW op \in {"read_link", "read_timer"},
             Port!Send(<<op>>, Len(Port!Constant(op)),
                       [promised EXCEPT !.answer = Port!Constant(op)])
      PROVE  PortInv'
  <2>. DEFINE out == <<op>>
              m == <<>>
              q == [promised EXCEPT !.answer = Port!Constant(op)]
  <2>1. op \in Port!Codes
    BY DEF Port!Codes
  <2>2. out \in Seq(Coded)
    BY <2>1 DEF Coded
  <2>3. m \in Seq(Octet)
    OBVIOUS
  <2>4. out # <<>> /\ out[1] = op /\ Tail(out) = m /\ Len(m) = 0
    OBVIOUS
  <2>5. Fits(op, m)
    BY <2>1, <2>3, <2>4, ArgumentsAre DEF Fits, Counted
  <2>6. q = Promise(op, m)
    <3>1. promised = [mem |-> memory, pointer |-> pointer, ip |-> ip, answer |-> read]
      BY <1>2, QuietIs DEF Port!Send
    <3>. QED
      BY <3>1 DEF Promise
  <2>7. Expected(op, m) = Len(Port!Constant(op)) /\ Len(Port!Constant(op)) \in Nat
    <3>1. Len(<<1>>) = 1 /\ Len(<<0, 0>>) = 2
      OBVIOUS
    <3>. QED
      BY <3>1 DEF Expected, Port!Constant
  <2>. HIDE DEF q, m
  <2>. QED
    BY <1>2, <2>1, <2>2, <2>4, <2>5, <2>6, <2>7, CallKeeps DEF q
<1>. QED
  BY <1>1, <1>2 DEF Port!SendAsk

LEMMA ModularSame ==
  ASSUME NEW c \in Nat \ {0}, NEW x \in 0 .. c - 1
  PROVE  x % c = x
OBVIOUS

\* The arguments of a command when they are there, and what comes after them.
LEMMA ArgumentsThere ==
  ASSUME NEW op, NEW args \in Seq(Octet), NEW t \in Seq(Octet), Fits(op, args \o t),
         Len(args) = Port!Arguments(op)
  PROVE  /\ op \in Port!Codes
         /\ op # "write_bytes" => t = <<>> /\ args \o t = args
         /\ op = "write_bytes" =>
              /\ t # <<>> /\ Len(t) = args[1] /\ Len(args \o t) - 2 = Len(t)
              /\ SubSeq(args \o t, 3, Len(args \o t)) = t
         /\ op \in Counted => args[1] + 256 * args[2] = args[1] /\ args[1] \in Octet
         /\ op = "read_bytes" => args[1] > 0
         /\ op \in {"set_pointer", "write_byte", "read_byte"} => args[1] \in Port!Addresses
         /\ op = "write_byte" => args[3] \in Octet
         /\ op \in {"write_ipaddr", "read_ipaddr"} => args[1] = 0
         /\ op = "write_ipaddr" => SubSeq(args, 2, 5) \in Seq(Octet) /\ Len(SubSeq(args, 2, 5)) = 4
<1>. DEFINE m == args \o t
<1>0. op \in Port!Codes
  BY DEF Fits
<1>1. /\ m \in Seq(Octet) /\ Len(m) = Len(args) + Len(t)
      /\ \A i \in 1 .. Len(args) + Len(t) : m[i] = IF i <= Len(args) THEN args[i] ELSE t[i - Len(args)]
      /\ Len(args) \in Nat /\ Len(t) \in Nat
  BY ConcatProperties, LenProperties
<1>2. op # "write_bytes" => t = <<>> /\ m = args
  <2>. SUFFICES ASSUME op # "write_bytes"
                PROVE  t = <<>> /\ m = args
    OBVIOUS
  <2>1. Len(m) = Port!Arguments(op)
    BY DEF Fits
  <2>2. Len(t) = 0
    BY <1>1, <2>1
  <2>3. t = <<>>
    BY <2>2, EmptySeq
  <2>. QED
    BY <2>3
<1>. HIDE DEF m
<1>3. Fits(op, m)
  BY DEF m
<1>4. op \in Counted => args[1] + 256 * args[2] = args[1] /\ args[1] \in Octet /\ m[1] = args[1]
  <2>. SUFFICES ASSUME op \in Counted
                PROVE  args[1] + 256 * args[2] = args[1] /\ args[1] \in Octet /\ m[1] = args[1]
    OBVIOUS
  <2>1. Len(args) >= 2
    BY <1>0, ArgumentsAre DEF Counted
  <2>2. m[1] = args[1] /\ m[2] = args[2] /\ args[1] \in Octet
    BY <1>1, <2>1, ElementOfSeq
  <2>3. args[2] = 0
    BY <1>3, <2>2 DEF Fits
  <2>4. \A a \in 0 .. 255 : a + 256 * 0 = a
    OBVIOUS
  <2>. QED
    BY <2>2, <2>3, <2>4 DEF Octet
<1>5. op = "write_bytes" =>
        /\ t # <<>> /\ Len(t) = args[1] /\ Len(m) - 2 = Len(t) /\ SubSeq(m, 3, Len(m)) = t
  <2>. SUFFICES ASSUME op = "write_bytes"
                PROVE  /\ t # <<>> /\ Len(t) = args[1] /\ Len(m) - 2 = Len(t)
                       /\ SubSeq(m, 3, Len(m)) = t
    OBVIOUS
  <2>1. Len(args) = 2 /\ Len(m) = 2 + Len(t) /\ Len(m) > 2 /\ m[1] = Len(m) - 2
    BY <1>0, <1>1, <1>3, ArgumentsAre DEF Fits
  <2>2. Len(t) = args[1] /\ Len(t) # 0
    BY <1>1, <1>4, <2>1 DEF Counted
  <2>3. t # <<>>
    BY <2>2, EmptySeq
  <2>4. SubSeq(m, 3, Len(m)) = t
    <3>. DEFINE s == SubSeq(m, 3, Len(m))
    <3>0. \A i \in 3 .. Len(m) : m[i] \in Octet
      <4>1. \A i \in 1 .. Len(m) : m[i] \in Octet
        BY <1>1, ElementOfSeq
      <4>. QED
        BY <4>1
    <3>1. s \in Seq(Octet) /\ Len(s) = Len(t) /\ \A i \in 1 .. Len(t) : s[i] = m[3 + i - 1]
      <4>1. 3 \in Int /\ Len(m) \in Int /\ Len(m) - 3 + 1 = Len(t) /\ 3 <= Len(m)
        BY <1>1, <2>1
      <4>. QED
        BY <3>0, <4>1, SubSeqProperties
    <3>. HIDE DEF s
    <3>2. \A i \in 1 .. Len(t) : m[3 + i - 1] = t[i]
      BY <1>1, <2>1
    <3>3. s = t
      BY <3>1, <3>2, SeqEqual
    <3>. QED
      BY <3>3 DEF s
  <2>. QED
    BY <2>1, <2>2, <2>3, <2>4, <1>1
<1>6. op = "read_bytes" => args[1] > 0
  BY <1>3, <1>4 DEF Fits, Counted
<1>7. op \in {"set_pointer", "write_byte", "read_byte"} => args[1] \in Port!Addresses
  BY <1>3, <1>4 DEF Fits, Counted
<1>8. op = "write_byte" => args[3] \in Octet
  BY <1>0, ArgumentsAre, ElementOfSeq
<1>9. op \in {"write_ipaddr", "read_ipaddr"} => args[1] = 0
  BY <1>2, <1>3 DEF Fits
<1>10. op = "write_ipaddr" => SubSeq(args, 2, 5) \in Seq(Octet) /\ Len(SubSeq(args, 2, 5)) = 4
  <2>. SUFFICES ASSUME op = "write_ipaddr"
                PROVE  SubSeq(args, 2, 5) \in Seq(Octet) /\ Len(SubSeq(args, 2, 5)) = 4
    OBVIOUS
  <2>1. \A i \in 1 .. 5 : args[i] \in Octet
    BY <1>0, ArgumentsAre, ElementOfSeq
  <2>2. \A i \in 2 .. 5 : args[i] \in Octet
    BY <2>1
  <2>3. 2 \in Int /\ 5 \in Int /\ 5 - 2 + 1 = 4 /\ 2 <= 5
    OBVIOUS
  <2>. QED
    BY <2>2, <2>3, SubSeqProperties
<1>. QED
  BY <1>0, <1>2, <1>4, <1>5, <1>6, <1>7, <1>8, <1>9, <1>10 DEF m

\* The last argument is there: what execute() does goes on with the rest of the command.
LEMMA ExecuteKeeps ==
  ASSUME PortTyped, command.phase = "args", command.result = <<>>, command.left = 0,
         NEW args \in Seq(Octet), NEW t \in Seq(Octet), Len(args) = Port!Arguments(command.op), Len(args) > 0,
         Coming(command.op, args \o t), Port!Execute(command.op, args),
         caller' = [caller EXCEPT !.out = t], UNCHANGED <<read, promised>>
  PROVE  PortInv'
<1>. DEFINE op == command.op
            m == args \o t
<1>0. /\ Fits(op, m) /\ promised = Promise(op, m) /\ caller.in = Expected(op, m) /\ read = <<>>
      /\ Port!Execute(op, args) /\ Len(args) = Port!Arguments(op)
  BY DEF Coming
<1>1. /\ op \in Port!Codes
      /\ op # "write_bytes" => t = <<>> /\ m = args
      /\ op = "write_bytes" =>
           /\ t # <<>> /\ Len(t) = args[1] /\ Len(m) - 2 = Len(t) /\ SubSeq(m, 3, Len(m)) = t
      /\ op \in Counted => args[1] + 256 * args[2] = args[1] /\ args[1] \in Octet
      /\ op = "read_bytes" => args[1] > 0
      /\ op \in {"set_pointer", "write_byte", "read_byte"} => args[1] \in Port!Addresses
      /\ op = "write_byte" => args[3] \in Octet
      /\ op \in {"write_ipaddr", "read_ipaddr"} => args[1] = 0
      /\ op = "write_ipaddr" => SubSeq(args, 2, 5) \in Seq(Octet) /\ Len(SubSeq(args, 2, 5)) = 4
  BY <1>0, ArgumentsThere
<1>2. /\ command \in [op : Port!Codes \cup {"none"}, phase : {"finished", "args", "write", "read"},
                      args : Seq(Octet), left : Nat, result : Seq(Octet)]
      /\ memory \in [Port!Addresses -> Octet] /\ pointer \in Port!Addresses
      /\ ip \in Seq(Octet) /\ Len(ip) = 4 /\ caller \in [out : Seq(Coded), in : Nat]
  BY DEF PortTyped
<1>3. t \in Seq(Coded) /\ <<>> \in Seq(Octet)
  <2>1. t \in [1 .. Len(t) -> Octet] /\ Len(t) \in Nat
    BY LenProperties
  <2>2. t \in [1 .. Len(t) -> Coded]
    BY <2>1 DEF Coded
  <2>. QED
    BY <2>1, <2>2, FunctionIsSeq
<1>4. op \in {"set_pointer", "write_byte", "read_byte"} =>
        (args[1] + 256 * args[2]) % Cells = args[1]
  <2>. SUFFICES ASSUME op \in {"set_pointer", "write_byte", "read_byte"}
                PROVE  (args[1] + 256 * args[2]) % Cells = args[1]
    OBVIOUS
  <2>1. args[1] + 256 * args[2] = args[1] /\ args[1] \in Port!Addresses
    BY <1>1 DEF Counted
  <2>2. args[1] % Cells = args[1]
    BY <2>1, CellsCount, ModularSame
  <2>. QED
    BY <2>1, <2>2
<1>5. caller' = [out |-> t, in |-> Expected(op, m)] /\ Expected(op, m) \in Nat
      /\ caller' \in [out : Seq(Coded), in : Nat] /\ read' = <<>> /\ read' \in Seq(Octet)
  <2>1. caller' = [out |-> t, in |-> caller.in] /\ caller.in \in Nat
    BY <1>2
  <2>. QED
    BY <1>0, <1>3, <2>1
<1>6. promised' = Promise(op, m)
  BY <1>0
<1>. HIDE DEF op, m
<1>11. op \in {"write_bytes", "read_bytes"} => args[1] \in Nat
  <2>1. op \in {"write_bytes", "read_bytes"} => op \in Counted
    BY DEF Counted
  <2>2. Octet \subseteq Nat
    BY DEF Octet
  <2>. QED
    BY <1>1, <2>1, <2>2
<1>7. CASE op = "write_bytes"
  <2>1. /\ command' = [command EXCEPT !.phase = "write", !.args = args, !.left = args[1]]
        /\ UNCHANGED <<pointer, memory, ip>>
    BY <1>0, <1>1, <1>7 DEF Port!Execute, Port!chip, Counted
  <2>2. promised' = [mem |-> Laid(memory, pointer, t), pointer |-> (pointer + Len(t)) % Cells,
                     ip |-> ip, answer |-> <<>>]
    BY <1>1, <1>6, <1>7 DEF Promise
  <2>3. Expected(op, m) = 0
    BY <1>7 DEF Expected
  <2>4. PortTyped'
    BY <1>2, <1>5, <1>7, <1>11, <2>1 DEF PortTyped, Port!Addresses
  <2>5. Writing'
    BY <1>1, <1>2, <1>5, <1>7, <2>1, <2>2, <2>3 DEF Writing, Laid, Port!Addresses, op
  <2>. QED
    BY <2>4, <2>5 DEF PortInv
<1>8. CASE op = "read_bytes"
  <2>1. /\ command' = [command EXCEPT !.phase = "read", !.args = args, !.left = args[1]]
        /\ UNCHANGED <<pointer, memory, ip>>
    BY <1>0, <1>1, <1>8 DEF Port!Execute, Counted
  <2>. DEFINE f == [k \in 1 .. args[1] |-> memory[(pointer + k - 1) % Cells]]
  <2>2. promised' = [mem |-> memory, pointer |-> (pointer + args[1]) % Cells, ip |-> ip,
                     answer |-> f]
    BY <1>1, <1>6, <1>8 DEF Promise
  <2>3. Expected(op, m) = args[1]
    BY <1>1, <1>8 DEF Expected
  <2>4. PortTyped'
    BY <1>2, <1>5, <1>8, <1>11, <2>1 DEF PortTyped, Port!Addresses
  <2>5. <<>> \o f = f
    <3>1. \A k \in 1 .. args[1] : (pointer + k - 1) % Cells \in Port!Addresses
      <4>1. args[1] \in Nat
        BY <1>8, <1>11
      <4>2. \A k \in 1 .. args[1] : k - 1 \in Nat /\ pointer + k - 1 = pointer + (k - 1)
        BY <1>2, <4>1, CellsCount
      <4>. QED
        BY <1>2, <4>2, CellsCount, ModularNext
    <3>2. f \in [1 .. args[1] -> Octet]
      BY <1>2, <3>1
    <3>3. args[1] \in Nat
      BY <1>8, <1>11
    <3>4. f \in Seq(Octet)
      BY <3>2, <3>3, FunctionIsSeq
    <3>. HIDE DEF f
    <3>. QED
      BY <3>4, ConcatEmptySeq
  <2>6. read' \o f = f
    BY <1>5, <2>5
  <2>7. Reading'
    <3>1. command'.phase = "read" /\ command'.op = "read_bytes" /\ command'.left = args[1]
      BY <1>2, <1>8, <2>1 DEF op
    <3>2. caller' = [out |-> <<>>, in |-> args[1]]
      BY <1>1, <1>5, <1>8, <2>3
    <3>3. f = [k \in 1 .. caller'.in |-> memory'[(pointer' + k - 1) % Cells]]
      BY <2>1, <3>2
    <3>4. args[1] > 0
      BY <1>1, <1>8
    <3>. HIDE DEF f
    <3>5. promised' = [mem |-> memory', pointer |-> (pointer' + caller'.in) % Cells, ip |-> ip',
                       answer |-> read' \o f]
      BY <2>1, <2>2, <2>6, <3>2
    <3>6. caller'.in > 0 /\ caller'.out = <<>> /\ command'.left = caller'.in
      BY <3>1, <3>2, <3>4
    <3>. QED
      BY <3>1, <3>3, <3>5, <3>6 DEF Reading
  <2>. QED
    BY <2>4, <2>7 DEF PortInv
<1>9. CASE op = "set_pointer"
  <2>1. /\ command' = [command EXCEPT !.phase = "finished", !.args = args]
        /\ pointer' = args[1] /\ UNCHANGED <<memory, ip>>
    BY <1>0, <1>4, <1>9 DEF Port!Execute
  <2>2. promised' = [mem |-> memory, pointer |-> args[1], ip |-> ip, answer |-> <<>>]
    BY <1>1, <1>6, <1>9 DEF Promise
  <2>3. Expected(op, m) = 0
    BY <1>9 DEF Expected
  <2>4. args[1] \in Port!Addresses
    BY <1>1, <1>9
  <2>5. PortTyped'
    BY <1>2, <1>5, <2>1, <2>4 DEF PortTyped, Port!Addresses
  <2>6. Idle'
    BY <1>1, <1>2, <1>5, <1>9, <2>1, <2>2, <2>3 DEF Idle
  <2>. QED
    BY <2>5, <2>6 DEF PortInv
<1>10. CASE op = "write_byte"
  <2>. DEFINE clears == args[1] = 0 /\ args[3] >= 128
  <2>1. /\ IF clears THEN memory' = Port!Cleared /\ pointer' = 0 /\ command' = Port!None
           ELSE /\ memory' = [memory EXCEPT ![args[1]] = args[3]] /\ pointer' = pointer
                /\ command' = [command EXCEPT !.phase = "finished", !.args = args]
        /\ UNCHANGED ip
    BY <1>0, <1>4, <1>10 DEF Port!Execute, Port!Store, Port!Clears
  <2>2. promised' = IF clears
                    THEN [mem |-> Port!Cleared, pointer |-> 0, ip |-> ip, answer |-> <<>>]
                    ELSE [mem |-> [memory EXCEPT ![args[1]] = args[3]], pointer |-> pointer,
                          ip |-> ip, answer |-> <<>>]
    BY <1>1, <1>6, <1>10 DEF Promise
  <2>3. Expected(op, m) = 0
    BY <1>10 DEF Expected
  <2>4. args[1] \in Port!Addresses /\ args[3] \in Octet
    BY <1>1, <1>10
  <2>. HIDE DEF clears
  <2>5. CASE clears
    <3>1. memory' = Port!Cleared /\ pointer' = 0 /\ command' = Port!None /\ ip' = ip
          /\ promised' = [mem |-> Port!Cleared, pointer |-> 0, ip |-> ip, answer |-> <<>>]
      BY <2>1, <2>2, <2>5
    <3>2. /\ 0 \in Port!Addresses /\ Port!Cleared \in [Port!Addresses -> Octet]
          /\ Port!None \in [op : Port!Codes \cup {"none"},
                            phase : {"finished", "args", "write", "read"},
                            args : Seq(Octet), left : Nat, result : Seq(Octet)]
      BY <1>3, CellsCount, CellIsOctet DEF Port!Cleared, Port!None
    <3>3. PortTyped'
      BY <1>2, <1>5, <3>1, <3>2 DEF PortTyped, Port!Addresses
    <3>4. Idle'
      BY <1>1, <1>5, <1>10, <2>3, <3>1 DEF Idle, Port!None
    <3>. QED
      BY <3>3, <3>4 DEF PortInv
  <2>6. CASE ~clears
    <3>1. /\ memory' = [memory EXCEPT ![args[1]] = args[3]] /\ pointer' = pointer /\ ip' = ip
          /\ command' = [command EXCEPT !.phase = "finished", !.args = args]
          /\ promised' = [mem |-> [memory EXCEPT ![args[1]] = args[3]], pointer |-> pointer,
                          ip |-> ip, answer |-> <<>>]
      BY <2>1, <2>2, <2>6
    <3>2. PortTyped'
      BY <1>2, <1>5, <2>4, <3>1 DEF PortTyped, Port!Addresses
    <3>3. Idle'
      BY <1>1, <1>2, <1>5, <1>10, <2>3, <3>1 DEF Idle
    <3>. QED
      BY <3>2, <3>3 DEF PortInv
  <2>. QED
    BY <2>5, <2>6
<1>12. CASE op = "write_ipaddr"
  <2>. DEFINE addr == SubSeq(args, 2, 5)
  <2>1. args[1] = 0 /\ addr \in Seq(Octet) /\ Len(addr) = 4
    BY <1>1, <1>12
  <2>2. /\ command' = [command EXCEPT !.phase = "finished", !.args = args]
        /\ ip' = addr /\ UNCHANGED <<pointer, memory>>
    BY <1>0, <1>12, <2>1 DEF Port!Execute
  <2>3. promised' = [mem |-> memory, pointer |-> pointer, ip |-> addr, answer |-> <<>>]
    BY <1>1, <1>6, <1>12 DEF Promise
  <2>. HIDE DEF addr
  <2>4. Expected(op, m) = 0
    BY <1>12 DEF Expected
  <2>5. PortTyped'
    BY <1>2, <1>5, <2>1, <2>2 DEF PortTyped, Port!Addresses
  <2>6. Idle'
    BY <1>1, <1>2, <1>5, <1>12, <2>2, <2>3, <2>4 DEF Idle
  <2>. QED
    BY <2>5, <2>6 DEF PortInv
<1>13. CASE op \in {"read_byte", "read_ipaddr"}
  <2>. DEFINE r == IF op = "read_byte" THEN <<memory[args[1]]>> ELSE ip
  <2>1. /\ command' = [command EXCEPT !.phase = "read", !.args = args, !.result = r]
        /\ UNCHANGED <<pointer, memory, ip>>
    <3>1. CASE op = "read_byte"
      BY <1>0, <1>4, <3>1 DEF Port!Execute
    <3>2. CASE op = "read_ipaddr"
      <4>1. args[1] = 0
        BY <1>1, <3>2
      <4>. QED
        BY <1>0, <3>2, <4>1 DEF Port!Execute
    <3>. QED
      BY <1>13, <3>1, <3>2
  <2>2. promised' = [mem |-> memory, pointer |-> pointer, ip |-> ip, answer |-> r]
    BY <1>1, <1>6, <1>13 DEF Promise
  <2>3. r \in Seq(Octet) /\ Len(r) = Expected(op, m) /\ Len(r) # 0
    <3>1. CASE op = "read_byte"
      <4>1. memory[args[1]] \in Octet
        BY <1>1, <1>2, <3>1
      <4>2. <<memory[args[1]]>> \in Seq(Octet) /\ Len(<<memory[args[1]]>>) = 1
        BY <4>1
      <4>. QED
        BY <3>1, <4>2 DEF Expected
    <3>2. CASE op = "read_ipaddr"
      <4>1. r = ip /\ Expected(op, m) = 4
        BY <3>2 DEF Expected
      <4>2. ip \in Seq(Octet) /\ Len(ip) = 4
        BY <1>2
      <4>. HIDE DEF r
      <4>. QED
        BY <4>1, <4>2
    <3>. QED
      BY <1>13, <3>1, <3>2
  <2>. HIDE DEF r
  <2>4. r # <<>>
    BY <2>3, EmptySeq
  <2>5. PortTyped'
    BY <1>2, <1>5, <2>1, <2>3 DEF PortTyped, Port!Addresses
  <2>6. read' \o r = r
    BY <1>5, <2>3, ConcatEmptySeq
  <2>7. Answering'
    <3>1. command'.phase = "read" /\ command'.op # "read_bytes" /\ command'.result = r
      BY <1>2, <1>13, <2>1 DEF op
    <3>2. caller' = [out |-> <<>>, in |-> Len(r)]
      BY <1>1, <1>5, <1>13, <2>3
    <3>. QED
      <4>1. caller'.out = <<>> /\ caller'.in = Len(command'.result)
        BY <3>1, <3>2
      <4>2. promised' = [mem |-> memory', pointer |-> pointer', ip |-> ip',
                         answer |-> read' \o command'.result]
        BY <2>1, <2>2, <2>6, <3>1
      <4>. QED
        BY <2>3, <2>4, <3>1, <4>1, <4>2 DEF Answering
  <2>. QED
    BY <2>5, <2>7 DEF PortInv
<1>14. op \notin {"read_link", "read_timer"}
  BY <1>0, <1>1, ArgumentsAre
<1>. QED
  BY <1>1, <1>7, <1>8, <1>9, <1>10, <1>12, <1>13, <1>14 DEF Port!Codes

\* The code of a command.
LEMMA NewCommandKeeps ==
  ASSUME PortInv, Called, Port!WriteByte
  PROVE  PortInv'
<1>0. PICK op, m : op = caller.out[1] /\ m = Tail(caller.out)
  OBVIOUS
<1>1. /\ caller.out \in Seq(Coded) /\ caller.out # <<>> /\ command.phase = "finished"
      /\ caller \in [out : Seq(Coded), in : Nat]
      /\ Fits(op, m) /\ promised = Promise(op, m) /\ caller.in = Expected(op, m) /\ read = <<>>
      /\ op \in Port!Codes /\ m \in Seq(Octet)
      /\ memory \in [Port!Addresses -> Octet] /\ pointer \in Port!Addresses
      /\ ip \in Seq(Octet) /\ Len(ip) = 4
  BY <1>0 DEF PortInv, PortTyped, Called, Coming, Fits
<1>2. /\ Head(caller.out) = op
  BY <1>0, <1>1, HandedOver
<1>3. /\ Port!NewCommand(op)
      /\ caller' = [caller EXCEPT !.out = m] /\ UNCHANGED <<read, promised>>
  BY <1>0, <1>1, <1>2 DEF Port!WriteByte, Port!Write
<1>4. <<>> \in Seq(Octet) /\ m \in Seq(Coded)
  <2>1. m \in Seq(Coded)
    BY <1>0, <1>1, HandedOver
  <2>. QED
    BY <2>1
<1>5. caller' = [out |-> m, in |-> Expected(op, m)] /\ Expected(op, m) \in Nat
      /\ caller' \in [out : Seq(Coded), in : Nat] /\ read' = <<>> /\ read' \in Seq(Octet)
  BY <1>1, <1>3, <1>4
<1>6. CASE Port!Arguments(op) > 0
  <2>1. /\ command' = [Port!None EXCEPT !.op = op, !.phase = "args"]
        /\ UNCHANGED <<pointer, memory, ip>>
    BY <1>1, <1>3, <1>6 DEF Port!NewCommand, Port!chip
  <2>2. command' = [op |-> op, phase |-> "args", args |-> <<>>, left |-> 0, result |-> <<>>]
    BY <2>1 DEF Port!None
  <2>3. PortTyped'
    <3>1. command' \in [op : Port!Codes \cup {"none"},
                        phase : {"finished", "args", "write", "read"},
                        args : Seq(Octet), left : Nat, result : Seq(Octet)]
      BY <1>1, <1>4, <2>2
    <3>. QED
      BY <1>1, <1>5, <2>1, <3>1 DEF PortTyped, Port!Addresses
  <2>4. Promise(op, m)' = Promise(op, m)
    BY <2>1 DEF Promise, Laid, Port!Addresses, Port!Cleared, Port!Constant
  <2>5. Arguing'
    <3>1. <<>> \o m = m
      BY <1>1, ConcatEmptySeq
    <3>2. command'.args = <<>> /\ command'.op = op /\ caller'.out = m
      BY <1>5, <2>2
    <3>3. Coming(op, m)'
      BY <1>1, <1>3, <1>5, <2>4 DEF Coming, Fits, Expected, Port!Codes, Port!Arguments,
         Port!Addresses, Port!Constant
    <3>4. Len(<<>>) = 0
      OBVIOUS
    <3>5. Len(command'.args) < Port!Arguments(command'.op)
      BY <1>6, <3>2, <3>4
    <3>6. command'.args \o caller'.out = m
      BY <3>1, <3>2
    <3>7. command'.args \in Seq(Octet) /\ caller'.out \in Seq(Octet)
      BY <1>1, <1>4, <3>2
    <3>8. Coming(command.op, command.args \o caller.out)'
      BY <3>2, <3>3, <3>6 DEF Coming, Fits, Expected, Promise, Port!Arguments, Port!Constant,
         Port!Codes, Port!Addresses, Laid, Port!Cleared
    <3>. QED
      BY <2>2, <3>5, <3>7, <3>8 DEF Arguing, Port!Arguments
  <2>. QED
    BY <2>3, <2>5 DEF PortInv
<1>7. CASE Port!Arguments(op) = 0
  <2>1. /\ command' = [Port!None EXCEPT !.op = op, !.phase = "read", !.result = Port!Constant(op)]
        /\ UNCHANGED <<pointer, memory, ip>>
    BY <1>1, <1>3, <1>7 DEF Port!NewCommand
  <2>2. op \in {"read_link", "read_timer"}
    BY <1>1, <1>7, ArgumentsAre DEF Port!Codes
  <2>. DEFINE r == Port!Constant(op)
  <2>3. r \in Seq(Octet) /\ Len(r) # 0 /\ Len(r) = Expected(op, m)
    <3>1. <<1>> \in Seq(Octet) /\ <<0, 0>> \in Seq(Octet)
      BY DEF Octet
    <3>2. Len(<<1>>) = 1 /\ Len(<<0, 0>>) = 2
      OBVIOUS
    <3>3. r = <<1>> \/ r = <<0, 0>>
      BY DEF Port!Constant
    <3>. HIDE DEF r
    <3>4. r \in Seq(Octet) /\ Len(r) # 0
      <4>1. CASE r = <<1>>
        BY <3>1, <3>2, <4>1
      <4>2. CASE r = <<0, 0>>
        BY <3>1, <3>2, <4>2
      <4>. QED
        BY <3>3, <4>1, <4>2
    <3>5. Len(r) = Expected(op, m)
      BY <2>2 DEF Expected, r
    <3>. QED
      BY <3>4, <3>5
  <2>4. m = <<>>
    <3>1. Len(m) = 0
      BY <1>1, <1>7, <2>2 DEF Fits
    <3>. QED
      BY <1>1, <3>1, EmptySeq
  <2>5. promised' = [mem |-> memory, pointer |-> pointer, ip |-> ip, answer |-> r]
    BY <1>1, <1>3, <2>2 DEF Promise
  <2>. HIDE DEF r
  <2>6. r # <<>> /\ <<>> \o r = r
    BY <2>3, EmptySeq, ConcatEmptySeq
  <2>7. command' = [op |-> op, phase |-> "read", args |-> <<>>, left |-> 0, result |-> r]
    BY <2>1 DEF Port!None, r
  <2>8. PortTyped'
    <3>1. command' \in [op : Port!Codes \cup {"none"},
                        phase : {"finished", "args", "write", "read"},
                        args : Seq(Octet), left : Nat, result : Seq(Octet)]
      BY <1>1, <1>4, <2>3, <2>7
    <3>. QED
      BY <1>1, <1>5, <2>1, <3>1 DEF PortTyped, Port!Addresses
  <2>9. Answering'
    <3>1. promised' = [mem |-> memory', pointer |-> pointer', ip |-> ip',
                       answer |-> read' \o command'.result]
      <4>1. read' \o command'.result = r
        BY <1>5, <2>6, <2>7
      <4>. QED
        BY <2>1, <2>5, <4>1
    <3>. QED
      BY <1>5, <2>2, <2>3, <2>4, <2>6, <2>7, <3>1 DEF Answering
  <2>. QED
    BY <2>8, <2>9 DEF PortInv
<1>8. Port!Arguments(op) > 0 \/ Port!Arguments(op) = 0
  BY <1>1, ArgumentsAre
<1>. QED
  BY <1>6, <1>7, <1>8

\* An argument.
LEMMA ArgumentKeeps ==
  ASSUME PortInv, Arguing, Port!WriteByte
  PROVE  PortInv'
<1>1. /\ command.phase = "args" /\ command.left = 0 /\ command.result = <<>>
      /\ command.args \in Seq(Octet) /\ caller.out \in Seq(Octet)
      /\ Len(command.args) < Port!Arguments(command.op)
      /\ Coming(command.op, command.args \o caller.out)
      /\ caller \in [out : Seq(Coded), in : Nat] /\ PortTyped
      /\ command.op \in Port!Codes
  BY DEF PortInv, PortTyped, Arguing, Coming, Fits
<1>2. caller.out # <<>> /\ Port!Write(Head(caller.out))
      /\ caller' = [caller EXCEPT !.out = Tail(@)] /\ UNCHANGED <<read, promised>>
  BY DEF Port!WriteByte
<1>3. PICK b, t : b = Head(caller.out) /\ t = Tail(caller.out)
  OBVIOUS
<1>4. PICK args : args = Append(command.args, b)
  OBVIOUS
<1>5. /\ b \in Octet /\ t \in Seq(Octet) /\ args \o t = command.args \o caller.out
  BY <1>1, <1>2, <1>3, <1>4, HandedOver
<1>6. args \in Seq(Octet) /\ Len(args) = Len(command.args) + 1 /\ Len(command.args) \in Nat
  BY <1>1, <1>4, <1>5, AppendProperties, LenProperties
<1>7. caller' = [caller EXCEPT !.out = t] /\ Port!Argument(b)
  BY <1>1, <1>2, <1>3 DEF Port!Write
<1>8. Port!Arguments(command.op) \in Nat /\ ~(Len(command.args) >= Port!Arguments(command.op))
  BY <1>1, <1>6, ArgumentsAre
<1>9. Coming(command.op, args \o t)
  BY <1>1, <1>5
<1>10. CASE Len(args) < Port!Arguments(command.op)
  <2>1. command' = [command EXCEPT !.args = args] /\ UNCHANGED <<pointer, memory, ip>>
    BY <1>4, <1>7, <1>8, <1>10 DEF Port!Argument, Port!chip
  <2>2. t \in Seq(Coded)
    <3>1. caller.out \in Seq(Coded)
      BY <1>1
    <3>. QED
      BY <1>2, <1>3, <3>1, HandedOver
  <2>3. PortTyped'
    BY <1>1, <1>2, <1>6, <1>7, <2>1, <2>2 DEF PortTyped, Port!Addresses
  <2>4. command'.args = args /\ caller'.out = t /\ command'.op = command.op
        /\ command'.phase = "args" /\ command'.left = 0 /\ command'.result = <<>>
        /\ caller'.in = caller.in
    BY <1>1, <1>7, <2>1 DEF PortTyped
  <2>5. PICK op, m : op = command.op /\ m = args \o t
    OBVIOUS
  <2>6. /\ Fits(op, m) /\ promised = Promise(op, m) /\ caller.in = Expected(op, m)
        /\ read = <<>>
    BY <1>9, <2>5 DEF Coming
  <2>7. Promise(op, m)' = Promise(op, m)
    BY <2>1 DEF Promise, Laid, Port!Addresses, Port!Cleared, Port!Constant
  <2>8. Coming(op, m)'
    BY <1>2, <2>4, <2>6, <2>7 DEF Coming, Fits, Expected, Port!Codes, Port!Arguments,
       Port!Addresses, Port!Constant
  <2>9. Coming(command.op, command.args \o caller.out)'
    <3>1. command'.args \o caller'.out = m /\ command'.op = op
      BY <2>4, <2>5
    <3>2. /\ Fits(op, m)' /\ promised' = Promise(op, m)' /\ caller'.in = Expected(op, m)'
          /\ read' = <<>>
      BY <2>8 DEF Coming
    <3>3. Fits(command.op, command.args \o caller.out)'
      BY <3>1, <3>2 DEF Fits, Port!Arguments, Port!Codes, Port!Addresses
    <3>4. promised' = Promise(command.op, command.args \o caller.out)'
      BY <3>1, <3>2 DEF Promise, Port!Constant, Port!Addresses, Laid, Port!Cleared
    <3>5. caller'.in = Expected(command.op, command.args \o caller.out)'
      BY <3>1, <3>2 DEF Expected, Port!Constant
    <3>. QED
      BY <3>2, <3>3, <3>4, <3>5 DEF Coming
  <2>10. Arguing'
    BY <1>5, <1>6, <1>10, <2>4, <2>9 DEF Arguing, Port!Arguments
  <2>. QED
    BY <2>3, <2>10 DEF PortInv
<1>11. CASE Len(args) = Port!Arguments(command.op)
  <2>1. Port!Execute(command.op, args)
    <3>1. ~(Len(args) < Port!Arguments(command.op))
      BY <1>6, <1>8, <1>11
    <3>. QED
      BY <1>4, <1>7, <1>8, <3>1 DEF Port!Argument
  <2>2. Len(args) > 0
    BY <1>6
  <2>. QED
    BY <1>1, <1>2, <1>5, <1>6, <1>7, <1>9, <1>11, <2>1, <2>2, ExecuteKeeps
<1>12. Len(args) < Port!Arguments(command.op) \/ Len(args) = Port!Arguments(command.op)
  BY <1>1, <1>6, <1>8
<1>. QED
  BY <1>10, <1>11, <1>12

\* A byte of data to be written.
LEMMA DataKeeps ==
  ASSUME PortInv, Writing, Port!WriteByte
  PROVE  PortInv'
<1>1. /\ command.phase = "write" /\ command.op = "write_bytes"
      /\ caller.out \in Seq(Octet) /\ caller.out # <<>> /\ caller.in = 0 /\ read = <<>>
      /\ command.left = Len(caller.out)
      /\ promised = [mem |-> Laid(memory, pointer, caller.out),
                     pointer |-> (pointer + Len(caller.out)) % Cells, ip |-> ip, answer |-> <<>>]
      /\ caller \in [out : Seq(Coded), in : Nat] /\ PortTyped
  BY DEF PortInv, PortTyped, Writing
<1>2. /\ command \in [op : Port!Codes \cup {"none"}, phase : {"finished", "args", "write", "read"},
                      args : Seq(Octet), left : Nat, result : Seq(Octet)]
      /\ memory \in [Port!Addresses -> Octet] /\ pointer \in Port!Addresses
      /\ ip \in Seq(Octet) /\ Len(ip) = 4 /\ read \in Seq(Octet)
  BY DEF PortInv, PortTyped
<1>3. PICK b, t, n : b = Head(caller.out) /\ t = Tail(caller.out) /\ n = Len(caller.out)
  OBVIOUS
<1>4. b = caller.out[1] /\ b \in Octet /\ t \in Seq(Octet) /\ Len(t) = n - 1
  BY <1>1, <1>3, HandedOver
<1>5. n \in Nat \ {0}
  BY <1>1, <1>3, EmptySeq, LenProperties
<1>6. Port!DataByte(b) /\ caller' = [caller EXCEPT !.out = t] /\ UNCHANGED <<read, promised>>
  BY <1>1, <1>3 DEF Port!WriteByte, Port!Write
<1>7. /\ memory' = [memory EXCEPT ![pointer] = b] /\ pointer' = (pointer + 1) % Cells
      /\ command' = [command EXCEPT !.left = n - 1, !.phase = IF n = 1 THEN "finished" ELSE "write"]
      /\ ip' = ip
  BY <1>1, <1>2, <1>3, <1>5, <1>6 DEF Port!DataByte, Port!Next16
<1>8. Laid(memory, pointer, caller.out) = Laid(memory', pointer', t)
  <2>1. Laid(memory, pointer, caller.out) =
          Laid([memory EXCEPT ![pointer] = caller.out[1]], (pointer + 1) % Cells, Tail(caller.out))
    BY <1>1, <1>2, LaidNext
  <2>. QED
    BY <1>3, <1>4, <1>7, <2>1
<1>9. pointer' \in Port!Addresses /\ (pointer + n) % Cells = (pointer' + (n - 1)) % Cells
  <2>1. n - 1 \in Nat /\ pointer \in 0 .. Cells - 1
    BY <1>2, <1>5, CellsCount
  <2>2. /\ (pointer + 1) % Cells \in 0 .. Cells - 1
        /\ (((pointer + 1) % Cells) + (n - 1)) % Cells = (pointer + (n - 1) + 1) % Cells
    BY <2>1, CellsCount, ModularNext
  <2>3. pointer + (n - 1) + 1 = pointer + n
    BY <1>5, <2>1
  <2>. QED
    BY <1>7, <2>2, <2>3, CellsCount
<1>10. caller' = [out |-> t, in |-> 0]
  BY <1>1, <1>6
<1>11. t \in Seq(Coded)
  <2>1. caller.out \in Seq(Coded)
    BY <1>1
  <2>. QED
    BY <1>1, <1>3, <2>1, HandedOver
<1>12. PortTyped'
  <2>1. command' \in [op : Port!Codes \cup {"none"}, phase : {"finished", "args", "write", "read"},
                      args : Seq(Octet), left : Nat, result : Seq(Octet)]
    <3>1. n - 1 \in Nat
      BY <1>5
    <3>. QED
      BY <1>2, <1>7, <3>1
  <2>2. memory' \in [Port!Addresses -> Octet]
    BY <1>2, <1>4, <1>7
  <2>3. caller' \in [out : Seq(Coded), in : Nat]
    BY <1>10, <1>11
  <2>4. read' \in Seq(Octet) /\ ip' \in Seq(Octet) /\ Len(ip') = 4
    BY <1>2, <1>6, <1>7
  <2>. QED
    BY <1>9, <2>1, <2>2, <2>3, <2>4 DEF PortTyped, Port!Addresses
<1>13. promised' = [mem |-> Laid(memory', pointer', t), pointer |-> (pointer' + (n - 1)) % Cells,
                    ip |-> ip', answer |-> <<>>]
  BY <1>1, <1>3, <1>6, <1>7, <1>8, <1>9
<1>14. CASE n = 1
  <2>1. t = <<>>
    BY <1>4, <1>14, EmptySeq
  <2>2. Laid(memory', pointer', t) = memory'
    <3>1. \A a \in Port!Addresses : Laid(memory', pointer', t)[a] = memory'[a]
      <4>1. \A a \in Port!Addresses : Hits(pointer', t, a) = {}
        BY <2>1 DEF Hits
      <4>. QED
        BY <1>4, <1>9, <4>1, LaidAt
    <3>2. memory' = [a \in Port!Addresses |-> memory'[a]]
      BY <1>2, <1>7
    <3>3. Laid(memory', pointer', t) = [a \in Port!Addresses |-> Laid(memory', pointer', t)[a]]
      BY DEF Laid
    <3>. QED
      BY <3>1, <3>2, <3>3
  <2>3. (pointer' + (n - 1)) % Cells = pointer'
    <3>1. pointer' \in 0 .. Cells - 1 /\ pointer' % Cells = pointer'
      BY <1>9, CellsCount, ModularSame
    <3>2. pointer' + (n - 1) = pointer'
      <4>1. \A p \in 0 .. Cells - 1 : p + (1 - 1) = p
        BY CellsCount
      <4>. QED
        BY <1>14, <3>1, <4>1
    <3>. QED
      BY <3>1, <3>2
  <2>4. Idle'
    BY <1>1, <1>2, <1>6, <1>7, <1>10, <1>13, <1>14, <2>1, <2>2, <2>3 DEF Idle
  <2>. QED
    BY <1>12, <2>4 DEF PortInv
<1>15. CASE n # 1
  <2>1. Len(t) # 0 /\ t # <<>>
    <3>1. Len(t) # 0
      BY <1>4, <1>5, <1>15
    <3>. QED
      BY <1>4, <3>1, EmptySeq
  <2>2. Writing'
    <3>1. command'.phase = "write" /\ command'.op = "write_bytes" /\ command'.left = n - 1
      BY <1>1, <1>2, <1>7, <1>15
    <3>2. caller'.out = t /\ caller'.in = 0 /\ read' = <<>>
      BY <1>1, <1>6, <1>10
    <3>3. promised' = [mem |-> Laid(memory', pointer', caller'.out),
                       pointer |-> (pointer' + Len(caller'.out)) % Cells, ip |-> ip',
                       answer |-> <<>>]
      BY <1>4, <1>13, <3>2
    <3>. QED
      BY <1>4, <2>1, <3>1, <3>2, <3>3 DEF Writing, Laid, Port!Addresses
  <2>. QED
    BY <1>12, <2>2 DEF PortInv
<1>. QED
  BY <1>14, <1>15

LEMMA WriteByteKeeps ==
  ASSUME PortInv, Port!WriteByte
  PROVE  PortInv'
<1>1. ~Reading /\ ~Answering /\ ~Idle
  BY DEF Reading, Answering, Idle, Port!WriteByte
<1>. QED
  BY <1>1, NewCommandKeeps, ArgumentKeeps, DataKeeps DEF PortInv

\* While arguments are missing the program has more to write.
LEMMA ArgumentsComing ==
  ASSUME Arguing
  PROVE  caller.out # <<>>
<1>. SUFFICES ASSUME caller.out = <<>>
              PROVE  FALSE
  OBVIOUS
<1>1. /\ Fits(command.op, command.args \o <<>>) /\ command.args \in Seq(Octet)
      /\ Len(command.args) < Port!Arguments(command.op)
  BY DEF Arguing, Coming
<1>2. command.args \o <<>> = command.args
  BY <1>1
<1>3. Len(command.args) >= Port!Arguments(command.op)
  <2>1. command.op = "write_bytes" => Port!Arguments(command.op) = 2
    BY <1>1, ArgumentsAre DEF Fits
  <2>. QED
    BY <1>1, <1>2, <2>1 DEF Fits
<1>4. Len(command.args) \in Nat /\ Port!Arguments(command.op) \in Nat
  BY <1>1, ArgumentsAre DEF Fits
<1>. QED
  BY <1>1, <1>3, <1>4

\* The cells from a place on.
From(m, p, n) == [k \in 1 .. n |-> m[(p + k - 1) % Cells]]

LEMMA FromNext ==
  ASSUME NEW m \in [Port!Addresses -> Octet], NEW p \in Port!Addresses, NEW n \in Nat \ {0}
  PROVE  /\ From(m, p, n) \in Seq(Octet) /\ From(m, p, n) # <<>>
         /\ Head(From(m, p, n)) = m[p]
         /\ Tail(From(m, p, n)) = From(m, (p + 1) % Cells, n - 1)
<1>. DEFINE f == From(m, p, n)
            q == (p + 1) % Cells
            g == From(m, q, n - 1)
<1>1. /\ q \in Port!Addresses /\ p % Cells = p
      /\ \A k \in Nat : (p + k) % Cells \in Port!Addresses
      /\ \A k \in Nat : (q + k) % Cells = (p + k + 1) % Cells
      /\ \A k \in Nat : (q + k) % Cells \in Port!Addresses
  <2>1. q \in Port!Addresses /\ p % Cells = p
    BY CellsCount, ModularNext, ModularSame
  <2>2. \A k \in Nat : (p + k) % Cells \in Port!Addresses /\ (q + k) % Cells = (p + k + 1) % Cells
    BY CellsCount, ModularNext
  <2>. HIDE DEF q
  <2>3. \A k \in Nat : (q + k) % Cells \in Port!Addresses
    BY <2>1, CellsCount, ModularNext
  <2>. QED
    BY <2>1, <2>2, <2>3
<1>2. p \in Nat /\ q \in Nat
  BY <1>1, CellsCount
<1>. HIDE DEF q
<1>3. \A k \in 1 .. n : k - 1 \in Nat /\ p + k - 1 = p + (k - 1)
  BY <1>2
<1>4. f \in [1 .. n -> Octet]
  BY <1>1, <1>3 DEF From
<1>5. f \in Seq(Octet) /\ Len(f) = n /\ \A k \in 1 .. n : f[k] = m[(p + k - 1) % Cells]
  <2>1. f \in Seq(Octet) /\ Len(f) = n
    BY <1>4, FunctionIsSeq
  <2>. QED
    BY <2>1 DEF From
<1>6. \A k \in 1 .. n - 1 : k - 1 \in Nat /\ q + k - 1 = q + (k - 1) /\ k \in 1 .. n
                            /\ k + 1 \in 1 .. n /\ p + (k + 1) - 1 = p + (k - 1) + 1
  BY <1>2
<1>7. g \in [1 .. n - 1 -> Octet]
  BY <1>1, <1>6 DEF From
<1>8. g \in Seq(Octet) /\ Len(g) = n - 1 /\ \A k \in 1 .. n - 1 : g[k] = m[(q + k - 1) % Cells]
  <2>1. n - 1 \in Nat
    OBVIOUS
  <2>2. g \in Seq(Octet) /\ Len(g) = n - 1
    BY <1>7, <2>1, FunctionIsSeq
  <2>. QED
    BY <2>2 DEF From
<1>. HIDE DEF f, g
<1>9. f # <<>>
  <2>1. Len(f) # 0
    BY <1>5
  <2>. QED
    BY <1>5, <2>1, EmptySeq
<1>10. /\ Head(f) = f[1] /\ Tail(f) \in Seq(Octet) /\ Len(Tail(f)) = n - 1
       /\ \A k \in 1 .. n - 1 : Tail(f)[k] = f[k + 1]
  BY <1>5, <1>9, HandedOver
<1>11. f[1] = m[p]
  <2>1. 1 \in 1 .. n /\ p + 1 - 1 = p
    BY <1>2
  <2>. QED
    BY <1>1, <1>5, <2>1
<1>12. \A k \in 1 .. n - 1 : Tail(f)[k] = g[k]
  BY <1>1, <1>5, <1>6, <1>8, <1>10
<1>13. Tail(f) = g
  BY <1>8, <1>10, <1>12, SeqEqual
<1>. QED
  BY <1>5, <1>9, <1>10, <1>11, <1>13 DEF f, g, q

LEMMA ReadByteKeeps ==
  ASSUME PortInv, Port!ReadByte
  PROVE  PortInv'
<1>1. /\ caller.out = <<>> /\ caller.in > 0 /\ caller' = [caller EXCEPT !.in = @ - 1]
      /\ promised' = promised
  BY DEF Port!ReadByte
<1>2. PICK b \in Octet : Port!Read(b) /\ read' = Append(read, b)
  BY DEF Port!ReadByte, Octet
<1>3. /\ command \in [op : Port!Codes \cup {"none"}, phase : {"finished", "args", "write", "read"},
                      args : Seq(Octet), left : Nat, result : Seq(Octet)]
      /\ memory \in [Port!Addresses -> Octet] /\ pointer \in Port!Addresses
      /\ ip \in Seq(Octet) /\ Len(ip) = 4 /\ read \in Seq(Octet)
      /\ caller \in [out : Seq(Coded), in : Nat]
  BY DEF PortInv, PortTyped
<1>4. PICK n : n = caller.in
  OBVIOUS
<1>5. n \in Nat \ {0} /\ caller' = [out |-> <<>>, in |-> n - 1]
      /\ caller' \in [out : Seq(Coded), in : Nat]
  BY <1>1, <1>3, <1>4
<1>6. read' \in Seq(Octet)
  BY <1>2, <1>3, AppendProperties
<1>7. Reading \/ Answering
  <2>1. ~Called /\ ~Writing /\ ~Idle
    BY <1>1 DEF Called, Writing, Idle
  <2>2. ~Arguing
    BY <1>1, ArgumentsComing
  <2>. QED
    BY <2>1, <2>2 DEF PortInv
<1>8. CASE Reading
  <2>. DEFINE f == From(memory, pointer, n)
  <2>1. /\ command.phase = "read" /\ command.op = "read_bytes" /\ command.left = n
        /\ promised = [mem |-> memory, pointer |-> (pointer + n) % Cells, ip |-> ip,
                       answer |-> read \o f]
    BY <1>4, <1>8 DEF Reading, From
  <2>2. /\ b = memory[pointer] /\ pointer' = (pointer + 1) % Cells
        /\ command' = [command EXCEPT !.left = n - 1, !.phase = IF n = 1 THEN "finished" ELSE "read"]
        /\ memory' = memory /\ ip' = ip
    BY <1>2, <1>3, <1>5, <2>1 DEF Port!Read, Port!Next16
  <2>3. /\ f \in Seq(Octet) /\ f # <<>> /\ Head(f) = b /\ Tail(f) = From(memory, pointer', n - 1)
    <3>1. /\ f \in Seq(Octet) /\ f # <<>> /\ Head(f) = memory[pointer]
          /\ Tail(f) = From(memory, (pointer + 1) % Cells, n - 1)
      <4>1. memory \in [Port!Addresses -> Octet] /\ pointer \in Port!Addresses /\ n \in Nat \ {0}
        BY <1>3, <1>5
      <4>. HIDE DEF f
      <4>2. f = From(memory, pointer, n)
        BY DEF f
      <4>. QED
        BY <4>1, <4>2, FromNext
    <3>. HIDE DEF f
    <3>. QED
      BY <2>2, <3>1
  <2>. HIDE DEF f
  <2>4. read \o f = read' \o From(memory, pointer', n - 1)
    <3>1. Append(read, Head(f)) \o Tail(f) = read \o f
      <4>1. read \in Seq(Octet) /\ f \in Seq(Octet) /\ f # <<>>
        BY <1>3, <2>3
      <4>. QED
        BY <4>1, HandedOver
    <3>. QED
      BY <1>2, <2>3, <3>1
  <2>5. pointer' \in Port!Addresses /\ (pointer + n) % Cells = (pointer' + (n - 1)) % Cells
    <3>1. n - 1 \in Nat /\ pointer \in 0 .. Cells - 1
      BY <1>3, <1>5, CellsCount
    <3>2. /\ (pointer + 1) % Cells \in 0 .. Cells - 1
          /\ (((pointer + 1) % Cells) + (n - 1)) % Cells = (pointer + (n - 1) + 1) % Cells
      BY <3>1, CellsCount, ModularNext
    <3>3. pointer + (n - 1) + 1 = pointer + n
      BY <1>5, <3>1
    <3>. QED
      BY <2>2, <3>2, <3>3, CellsCount
  <2>6. PortTyped'
    <3>1. command' \in [op : Port!Codes \cup {"none"},
                        phase : {"finished", "args", "write", "read"},
                        args : Seq(Octet), left : Nat, result : Seq(Octet)]
      <4>1. n - 1 \in Nat
        BY <1>5
      <4>. QED
        BY <1>3, <2>2, <4>1
    <3>. QED
      BY <1>3, <1>5, <1>6, <2>2, <2>5, <3>1 DEF PortTyped, Port!Addresses
  <2>7. promised' = [mem |-> memory', pointer |-> (pointer' + (n - 1)) % Cells, ip |-> ip',
                     answer |-> read' \o From(memory', pointer', n - 1)]
    BY <1>1, <2>1, <2>2, <2>4, <2>5
  <2>8. CASE n = 1
    <3>1. From(memory', pointer', n - 1) = <<>>
      <4>1. f \in Seq(Octet) /\ Tail(f) \in Seq(Octet) /\ Len(Tail(f)) = n - 1
        <5>1. Tail(f) \in Seq(Octet) /\ Len(Tail(f)) = Len(f) - 1
          BY <2>3, HandedOver
        <5>2. Len(f) = n
          <6>1. f \in [1 .. n -> Octet]
            <7>1. \A k \in 1 .. n : k - 1 \in Nat /\ pointer + k - 1 = pointer + (k - 1)
              BY <1>3, <1>5, CellsCount
            <7>2. \A k \in 1 .. n : (pointer + k - 1) % Cells \in Port!Addresses
              BY <1>3, <7>1, CellsCount, ModularNext
            <7>. QED
              BY <1>3, <7>2 DEF f, From
          <6>. QED
            BY <1>5, <6>1, FunctionIsSeq
        <5>. QED
          BY <2>3, <5>1, <5>2
      <4>2. Tail(f) = <<>>
        <5>1. Len(Tail(f)) = 0
          BY <2>8, <4>1
        <5>. QED
          BY <4>1, <5>1, EmptySeq
      <4>. QED
        BY <2>2, <2>3, <4>2
    <3>2. read' \o <<>> = read'
      BY <1>6
    <3>3. (pointer' + (n - 1)) % Cells = pointer'
      <4>1. \A p \in 0 .. Cells - 1 : p + (1 - 1) = p
        BY CellsCount
      <4>2. pointer' \in 0 .. Cells - 1 /\ pointer' % Cells = pointer'
        BY <2>5, CellsCount, ModularSame
      <4>. QED
        BY <2>8, <4>1, <4>2
    <3>4. command'.phase = "finished" /\ caller' = [out |-> <<>>, in |-> 0]
      BY <1>3, <1>5, <2>2, <2>8
    <3>5. Idle'
      BY <2>7, <3>1, <3>2, <3>3, <3>4 DEF Idle
    <3>. QED
      BY <2>6, <3>5 DEF PortInv
  <2>9. CASE n # 1
    <3>1. command'.phase = "read" /\ command'.op = "read_bytes" /\ command'.left = n - 1
      BY <1>3, <2>1, <2>2, <2>9
    <3>2. caller'.out = <<>> /\ caller'.in = n - 1 /\ n - 1 > 0
      BY <1>5, <2>9
    <3>3. Reading'
      BY <2>7, <3>1, <3>2 DEF Reading, From
    <3>. QED
      BY <2>6, <3>3 DEF PortInv
  <2>. QED
    BY <2>8, <2>9
<1>9. CASE Answering
  <2>1. PICK r : r = command.result
    OBVIOUS
  <2>2. /\ command.phase = "read" /\ command.op # "read_bytes"
        /\ r \in Seq(Octet) /\ r # <<>> /\ n = Len(r)
        /\ promised = [mem |-> memory, pointer |-> pointer, ip |-> ip, answer |-> read \o r]
    BY <1>4, <1>9, <2>1 DEF Answering
  <2>3. /\ b = Head(r)
        /\ command' = [command EXCEPT !.result = Tail(r), !.phase = IF n = 1 THEN "finished" ELSE "read"]
        /\ memory' = memory /\ ip' = ip /\ pointer' = pointer
    BY <1>2, <1>3, <2>1, <2>2 DEF Port!Read, Port!chip
  <2>4. PICK t : t = Tail(r)
    OBVIOUS
  <2>5. t \in Seq(Octet) /\ Len(t) = n - 1 /\ read' \o t = read \o r
    <3>1. /\ Append(read, Head(r)) \o Tail(r) = read \o r
          /\ Tail(r) \in Seq(Octet) /\ Len(Tail(r)) = Len(r) - 1
      <4>1. read \in Seq(Octet) /\ r \in Seq(Octet) /\ r # <<>>
        BY <1>3, <2>2
      <4>. QED
        BY <4>1, HandedOver
    <3>. QED
      BY <1>2, <2>2, <2>3, <2>4, <3>1
  <2>6. PortTyped'
    <3>1. command' \in [op : Port!Codes \cup {"none"},
                        phase : {"finished", "args", "write", "read"},
                        args : Seq(Octet), left : Nat, result : Seq(Octet)]
      BY <1>3, <2>3, <2>4, <2>5
    <3>. QED
      BY <1>3, <1>5, <1>6, <2>3, <3>1 DEF PortTyped, Port!Addresses
  <2>7. promised' = [mem |-> memory', pointer |-> pointer', ip |-> ip', answer |-> read' \o t]
    BY <1>1, <2>2, <2>3, <2>5
  <2>8. CASE n = 1
    <3>1. t = <<>>
      BY <2>5, <2>8, EmptySeq
    <3>2. read' \o <<>> = read'
      BY <1>6
    <3>3. command'.phase = "finished" /\ caller' = [out |-> <<>>, in |-> 0]
      BY <1>3, <1>5, <2>3, <2>8
    <3>4. Idle'
      BY <2>7, <3>1, <3>2, <3>3 DEF Idle
    <3>. QED
      BY <2>6, <3>4 DEF PortInv
  <2>9. CASE n # 1
    <3>1. command'.phase = "read" /\ command'.op # "read_bytes" /\ command'.result = t
      BY <1>3, <2>2, <2>3, <2>4, <2>9
    <3>2. caller'.out = <<>> /\ caller'.in = Len(t) /\ Len(t) # 0
      BY <1>5, <2>5, <2>9
    <3>3. t # <<>>
      BY <2>5, <3>2, EmptySeq
    <3>4. Answering'
      BY <2>5, <2>7, <3>1, <3>2, <3>3 DEF Answering
    <3>. QED
      BY <2>6, <3>4 DEF PortInv
  <2>. QED
    BY <2>8, <2>9
<1>. QED
  BY <1>7, <1>8, <1>9

LEMMA PortStep ==
  ASSUME PortInv, [Port!Next]_registers
  PROVE  PortInv'
<1>1. CASE Port!Reset
  <2>1. /\ command' = Port!None /\ pointer' = 0 /\ caller' = [out |-> <<>>, in |-> 0]
        /\ read' = <<>> /\ memory' = memory /\ ip' = ip
        /\ promised' = [mem |-> memory, pointer |-> 0, ip |-> ip, answer |-> <<>>]
    BY <1>1 DEF Port!Reset, Port!Dropped
  <2>2. /\ <<>> \in Seq(Octet) /\ <<>> \in Seq(Coded) /\ 0 \in Port!Addresses
    BY CellsCount
  <2>3. PortTyped'
    BY <2>1, <2>2 DEF PortInv, PortTyped, Port!None, Port!Addresses
  <2>4. Idle'
    BY <2>1 DEF Idle, Port!None
  <2>. QED
    BY <2>3, <2>4 DEF PortInv
<1>2. CASE UNCHANGED registers
  <2>1. UNCHANGED <<command, pointer, memory, ip, status, caller, read, promised, sent>>
    BY <1>2 DEF registers
  <2>2. PortTyped'
    BY <2>1 DEF PortInv, PortTyped, Port!Addresses
  <2>4. ASSUME Called
        PROVE  Called'
    <3>1. Fits(caller.out[1], Tail(caller.out))'
      BY <2>1, <2>4 DEF Called, Coming, Fits, Port!Arguments, Port!Codes, Port!Addresses
    <3>2. promised' = Promise(caller.out[1], Tail(caller.out))'
      BY <2>1, <2>4 DEF Called, Coming, Promise, Laid, Port!Constant, Port!Addresses, Port!Cleared
    <3>3. caller'.in = Expected(caller.out[1], Tail(caller.out))'
      BY <2>1, <2>4 DEF Called, Coming, Expected, Port!Constant
    <3>. QED
      BY <2>1, <2>4, <3>1, <3>2, <3>3 DEF Called, Coming
  <2>5. ASSUME Arguing
        PROVE  Arguing'
    <3>1. Fits(command.op, command.args \o caller.out)'
      BY <2>1, <2>5 DEF Arguing, Coming, Fits, Port!Arguments, Port!Codes, Port!Addresses
    <3>2. promised' = Promise(command.op, command.args \o caller.out)'
      <4>1. promised = Promise(command.op, command.args \o caller.out)
        BY <2>5 DEF Arguing, Coming
      <4>2. PICK op, m : op = command.op /\ m = command.args \o caller.out
        OBVIOUS
      <4>3. op = command'.op /\ m = command'.args \o caller'.out
        BY <2>1, <4>2
      <4>4. promised = Promise(op, m) /\ promised' = promised
        BY <2>1, <4>1, <4>2
      <4>5. Promise(op, m)' = Promise(op, m)
        BY <2>1 DEF Promise, Laid, Port!Constant, Port!Addresses, Port!Cleared
      <4>6. Promise(op, m)' = Promise(command.op, command.args \o caller.out)'
        BY <4>3
      <4>. QED
        BY ONLY <4>4, <4>5, <4>6
    <3>3. caller'.in = Expected(command.op, command.args \o caller.out)'
      BY <2>1, <2>5 DEF Arguing, Coming, Expected, Port!Constant
    <3>. QED
      BY <2>1, <2>5, <3>1, <3>2, <3>3 DEF Arguing, Coming, Port!Arguments
  <2>6. Writing => Writing'
    BY <2>1 DEF Writing, Laid, Port!Addresses
  <2>7. Reading => Reading'
    BY <2>1 DEF Reading
  <2>8. Answering => Answering'
    BY <2>1 DEF Answering
  <2>9. Idle => Idle'
    BY <2>1 DEF Idle
  <2>. QED
    BY <2>2, <2>4, <2>5, <2>6, <2>7, <2>8, <2>9 DEF PortInv
<1>. QED
  BY <1>1, <1>2, SendWriteKeeps, SendReadKeeps, SendPointerKeeps, SendWriteByteKeeps,
     SendReadByteKeeps, SendAddressKeeps, SendAskKeeps, WriteByteKeeps, ReadByteKeeps
     DEF Port!Next

LEMMA PortStart ==
  ASSUME Port!Init
  PROVE  PortInv
<1>1. /\ command = Port!None /\ pointer = 0 /\ caller = [out |-> <<>>, in |-> 0]
      /\ read = <<>> /\ memory = Port!Cleared /\ ip = <<0, 0, 0, 0>>
      /\ promised = [mem |-> memory, pointer |-> pointer, ip |-> ip, answer |-> read]
  BY DEF Port!Init, Port!Zero
<1>2. /\ <<>> \in Seq(Octet) /\ <<>> \in Seq(Coded) /\ 0 \in Port!Addresses
      /\ Port!Cleared \in [Port!Addresses -> Octet]
  BY CellsCount, CellIsOctet DEF Port!Cleared
<1>3. <<0, 0, 0, 0>> \in Seq(Octet) /\ Len(<<0, 0, 0, 0>>) = 4
  BY CellIsOctet
<1>4. PortTyped
  BY <1>1, <1>2, <1>3 DEF PortTyped, Port!None
<1>5. Idle
  BY <1>1 DEF Idle, Port!None
<1>. QED
  BY <1>4, <1>5 DEF PortInv

LEMMA PortIsInStep ==
  ASSUME PortInv
  PROVE  Port!CommandsAreSteps
<1>1. Port!AtCommand => Idle
  <2>1. Port!AtCommand => caller = [out |-> <<>>, in |-> 0]
    BY DEF PortInv, PortTyped, Port!AtCommand
  <2>. QED
    BY <2>1, BetweenCommands
<1>2. caller.in > 0 /\ caller.out = <<>> => command.phase = "read"
  <2>. SUFFICES ASSUME caller.in > 0, caller.out = <<>>
                PROVE  command.phase = "read"
    OBVIOUS
  <2>1. ~Called /\ ~Writing /\ ~Idle
    BY DEF Called, Writing, Idle
  <2>2. ~Arguing
    BY ArgumentsComing
  <2>3. Reading \/ Answering
    BY <2>1, <2>2 DEF PortInv
  <2>. QED
    BY <2>3 DEF Reading, Answering
<1>. QED
  BY <1>1, <1>2 DEF Port!CommandsAreSteps, Port!InStep, Port!AtCommand, Idle

LEMMA PortAlways == M052Spec => []PortInv
<1>1. M052Init => PortInv
  BY PortStart DEF M052Init
<1>2. PortInv /\ [M052Next]_m052 => PortInv'
  <2>1. [M052Next]_m052 => [Port!Next]_registers
    BY DEF M052Next, m052
  <2>. QED
    BY <2>1, PortStep
<1>. QED
  BY <1>1, <1>2, PTL DEF M052Spec

\* However many bytes a command of the KCNET takes, and wherever a reset comes in, the
\* memory, the pointer and the answer are those of one step, and the module and the program
\* agree where they are: pio_net.cc and kcnet.cc's command_received, execute and mem_write.
THEOREM CommandsWhole == M052Spec => []CommandsAreSteps
<1>1. PortInv => CommandsAreSteps
  BY PortIsInStep DEF CommandsAreSteps
<1>. QED
  BY <1>1, PortAlways, PTL

-----------------------------------------------------------------------------
(***************************************************************************)
(* USB.                                                                    *)
(***************************************************************************)

Symbol == Commands \cup {CR, Nothing} \cup {Data(b) : b \in Bytes}

\* Bytes are strings; the provers have to be told so of each string the module names.
Byte == STRING \cup {"00", "0d", Pad}
Stored == [kind : {"file", "dir"}, content : Seq(Byte), writable : BOOLEAN]

\* The device: an open file is a path of the host.
OpenFile == [path : Seq(STRING) \ {<<>>}, pos : Nat, eof : BOOLEAN, mode : {"r", "w"}]
DeviceOK(d) ==
  /\ DOMAIN d = {"cwd", "file", "short", "binary", "host", "answer"}
  /\ d.cwd \in Seq(STRING)
  /\ DOMAIN d.host \subseteq Seq(STRING) /\ d.host \in [DOMAIN d.host -> Stored]
  /\ d.file = NoFile \/ (d.file \in OpenFile /\ d.file.path \in DOMAIN d.host)

Write == [path : Seq(STRING) \ {<<>>}, content : Seq(Byte), pos : Nat, mode : {"r", "w"},
          sent : Seq(Byte)]

\* What the types are.
VTyped ==
  /\ DeviceOK(dev)
  /\ dev.answer = <<>>
  /\ root \in STRING
  /\ cmd.op = "WRF" => cmd \in [op : {"WRF"}, n : Int]
  /\ input \in Symbol /\ line \in Seq(Symbol)
  /\ program \in [send : Seq(Symbol), step : {"idle", "latched", "taken", "strobed"},
                  waits : BOOLEAN, started : BOOLEAN]
  /\ wrf \in Write \cup {NoWrf}

\* A command that opens a file is on its way only while none is open.
Opener(x) == x.op \in {"OPR", "OPW"}
OpensOne ==
  /\ \A i \in DOMAIN program.send : Opener(program.send[i]) =>
       i = 1 /\ program.step # "strobed" /\ dev.file = NoFile
  /\ program.step = "strobed" /\ Opener(input) => dev.file = NoFile
  /\ line # <<>> /\ Opener(line[1]) => dev.file = NoFile
  /\ ~program.started =>
       input = Nothing /\ program.step = "idle" /\ program.send = <<>>

\* While a WRF goes on its file is where its last byte went, and a file is never
\* opened with a WRF of before.
WrfGoesOn ==
  /\ wrf # NoWrf /\ cmd.op = "WRF" /\ dev.file.path = wrf.path =>
       /\ dev.file.mode = wrf.mode
       /\ wrf.mode = "w" => dev.file.pos = wrf.pos + Len(wrf.sent)
  /\ line # <<>> /\ dev.file = NoFile => wrf = NoWrf

FileInv == VTyped /\ OpensOne /\ WrfGoesOn /\ WritesLand
-----------------------------------------------------------------------------
\* An answer, and what it leaves of the device.
LEMMA SaidKeeps ==
  ASSUME NEW d, DeviceOK(d), NEW a
  PROVE  /\ DeviceOK(Said(d, a)) /\ Said(d, a).host = d.host /\ Said(d, a).file = d.file
         /\ Said(d, a).answer = d.answer \o a /\ Said(d, a).cwd = d.cwd
BY DEF DeviceOK, Said

LEMMA PromptedKeeps ==
  ASSUME NEW d, DeviceOK(d)
  PROVE  /\ DeviceOK(Prompted(d)) /\ Prompted(d).host = d.host /\ Prompted(d).file = d.file
         /\ d.answer = <<>> => Prompted(d).answer # <<>>
<1>. DEFINE a == <<IF d.short THEN ">" ELSE "D:\\>">>
<1>1. Prompted(d) = Said(d, a)
  BY DEF Prompted
<1>2. d.answer = <<>> => Said(d, a).answer # <<>>
  <2>. HAVE d.answer = <<>>
  <2>1. Said(d, a).answer = <<>> \o a
    BY SaidKeeps
  <2>2. a \in Seq({">", "D:\\>"}) /\ Len(a) = 1
    OBVIOUS
  <2>. QED
    BY <2>1, <2>2
<1>3. DeviceOK(Said(d, a)) /\ Said(d, a).host = d.host /\ Said(d, a).file = d.file
  BY SaidKeeps
<1>. HIDE DEF a
<1>. QED
  BY <1>1, <1>2, <1>3

LEMMA FailedKeeps ==
  ASSUME NEW d, DeviceOK(d), NEW e
  PROVE  /\ DeviceOK(Failed(d, e)) /\ Failed(d, e).host = d.host
         /\ Failed(d, e).file = d.file
BY SaidKeeps DEF Failed

LEMMA FailedAnswers ==
  ASSUME NEW d, DeviceOK(d), d.answer = <<>>, NEW x
  PROVE  DeviceOK(Failed(d, x)) /\ Failed(d, x).answer # <<>>
<1>1. Failed(d, x).answer = <<>> \o <<x>>
  BY SaidKeeps DEF Failed
<1>2. <<x>> \in Seq({x}) /\ Len(<<x>>) = 1
  OBVIOUS
<1>. QED
  BY <1>1, <1>2, FailedKeeps

-----------------------------------------------------------------------------
\* What a command that opens no file leaves: the open file or none, and while a file is
\* open the files of the host.
Keeps(d, e) ==
  /\ DeviceOK(e)
  /\ e.file # NoFile => /\ d.file # NoFile
                        /\ e.file.path = d.file.path /\ e.file.mode = d.file.mode
  /\ d.file # NoFile => e.host = d.host

LEMMA PathIsOne ==
  ASSUME root \in STRING, NEW d, d.cwd \in Seq(STRING), NEW n \in STRING
  PROVE  /\ <<root>> \o d.cwd \in Seq(STRING)
         /\ Path(d, n) \in Seq(STRING) /\ Path(d, n) # <<>>
<1>. DEFINE here == <<root>> \o d.cwd
<1>1. here \in Seq(STRING) /\ Len(here) >= 1
  OBVIOUS
<1>2. Path(d, n) = here \o <<n>>
  BY DEF Path
<1>. HIDE DEF here
<1>3. here \o <<n>> \in Seq(STRING) /\ Len(here \o <<n>>) = Len(here) + 1
  BY <1>1
<1>4. here \o <<n>> # <<>>
  BY <1>1, <1>3
<1>. QED
  BY <1>1, <1>2, <1>3, <1>4 DEF here

LEMMA KeepsItself ==
  ASSUME NEW d, DeviceOK(d)
  PROVE  /\ Keeps(d, d)
         /\ \A e : Keeps(d, Failed(d, e)) /\ Keeps(d, Said(d, e))
         /\ Keeps(d, Prompted(d))
BY SaidKeeps, PromptedKeeps, FailedKeeps DEF Keeps

LEMMA KeepsMore ==
  ASSUME NEW d, NEW e, Keeps(d, e)
  PROVE  /\ \A a : Keeps(d, Failed(e, a)) /\ Keeps(d, Said(e, a))
         /\ Keeps(d, Prompted(e))
BY SaidKeeps, PromptedKeeps, FailedKeeps DEF Keeps

\* Commands that leave the host alone.
LEMMA DirKeeps ==
  ASSUME NEW d, DeviceOK(d), NEW c
  PROVE  Keeps(d, Dir(d, c)) /\ Keeps(d, Dirt(d, c)) /\ Keeps(d, Wrf(d, c))
         /\ Wrf(d, c).file = d.file
BY KeepsItself, KeepsMore, FailedKeeps DEF Dir, Dirt, Wrf

LEMMA CdKeeps ==
  ASSUME root \in STRING, NEW d, DeviceOK(d), NEW c, c.name \in STRING
  PROVE  Keeps(d, Cd(d, c))
<1>1. ASSUME NEW w \in Seq(STRING)
      PROVE  Keeps(d, [d EXCEPT !.cwd = w])
  BY <1>1 DEF Keeps, DeviceOK
<1>2. d.cwd # <<>> => Parent(d.cwd) \in Seq(STRING)
  BY DEF DeviceOK, Parent
<1>3. Append(d.cwd, c.name) \in Seq(STRING) /\ <<>> \in Seq(STRING)
  BY DEF DeviceOK
<1>4. Keeps(d, [d EXCEPT !.cwd = IF @ = <<>> THEN @ ELSE Parent(@)])
  BY <1>1, <1>2, <1>3
<1>5. Keeps(d, [d EXCEPT !.cwd = <<>>]) /\ Keeps(d, [d EXCEPT !.cwd = Append(@, c.name)])
  BY <1>1, <1>3
<1>. QED
  BY <1>4, <1>5, KeepsItself, KeepsMore DEF Cd

LEMMA SetFileKeeps ==
  ASSUME NEW d, DeviceOK(d), NEW f, \/ f = NoFile
                                    \/ /\ d.file # NoFile /\ f \in OpenFile
                                       /\ f.path = d.file.path /\ f.mode = d.file.mode
  PROVE  Keeps(d, [d EXCEPT !.file = f])
BY DEF Keeps, DeviceOK, OpenFile, NoFile

LEMMA ClfKeeps ==
  ASSUME NEW d, DeviceOK(d), NEW c
  PROVE  Keeps(d, Clf(d, c))
BY SetFileKeeps, KeepsItself, KeepsMore DEF Clf

LEMMA LengthIsNat ==
  ASSUME NEW n \in Nat
  PROVE  Length(n) \in Nat
BY DEF Length

LEMMA RdfKeeps ==
  ASSUME NEW d, DeviceOK(d), NEW c, c.n \in Nat
  PROVE  Keeps(d, Rdf(d, c))
<1>. DEFINE n == Length(c.n)
            content == d.host[d.file.path].content
            left == IF d.file.pos > Len(content) THEN 0 ELSE Len(content) - d.file.pos
            bytes == [i \in 1 .. n |-> IF i <= left THEN content[d.file.pos + i] ELSE Pad]
            f == [d.file EXCEPT !.pos = IF n <= left THEN @ + n ELSE @ + left,
                                !.eof = n > left /\ IsFile(d, d.file.path)]
<1>1. CASE d.file = NoFile \/ d.file.eof
  BY <1>1, KeepsItself DEF Rdf
<1>2. CASE ~(d.file = NoFile \/ d.file.eof)
  <2>1. d.file \in OpenFile /\ d.file.path \in DOMAIN d.host /\ d.file # NoFile
    BY <1>2 DEF DeviceOK
  <2>2. n \in Nat /\ content \in Seq(Byte)
    BY <2>1, LengthIsNat DEF DeviceOK, Stored
  <2>3. left \in Nat
    BY <2>1, <2>2 DEF OpenFile
  <2>. HIDE DEF n, content, left
  <2>4. f \in OpenFile /\ f.path = d.file.path /\ f.mode = d.file.mode
    <3>. DEFINE pos == IF n <= left THEN d.file.pos + n ELSE d.file.pos + left
                eof == n > left /\ IsFile(d, d.file.path)
    <3>1. pos \in Nat
      BY <2>1, <2>2, <2>3 DEF OpenFile
    <3>2. eof \in BOOLEAN
      BY DEF IsFile, Exists
    <3>3. f = [d.file EXCEPT !.pos = pos, !.eof = eof]
      BY <2>1 DEF OpenFile
    <3>. HIDE DEF pos, eof
    <3>. QED
      BY <2>1, <3>1, <3>2, <3>3 DEF OpenFile
  <2>5. Keeps(d, [d EXCEPT !.file = f])
    BY <2>1, <2>4, SetFileKeeps
  <2>6. [d EXCEPT !.file.pos = IF n <= left THEN @ + n ELSE @ + left,
                  !.file.eof = n > left /\ IsFile(d, d.file.path)] = [d EXCEPT !.file = f]
    BY <2>1 DEF DeviceOK, OpenFile
  <2>7. Rdf(d, c) = Prompted(Said([d EXCEPT !.file = f], bytes))
    BY <1>2, <2>6 DEF Rdf, n, content, left
  <2>. QED
    BY <2>5, <2>7, KeepsMore
<1>. QED
  BY <1>1, <1>2

LEMMA SekKeeps ==
  ASSUME NEW d, DeviceOK(d), NEW c, c.n \in Nat
  PROVE  Keeps(d, Sek(d, c))
<1>1. CASE d.file = NoFile \/ d.file.eof
  BY <1>1, KeepsItself DEF Sek
<1>2. CASE ~(d.file = NoFile \/ d.file.eof)
  <2>. DEFINE f == [d.file EXCEPT !.pos = Length(c.n)]
  <2>1. d.file \in OpenFile /\ d.file # NoFile
    BY <1>2 DEF DeviceOK
  <2>2. f \in OpenFile /\ f.path = d.file.path /\ f.mode = d.file.mode
    BY <2>1, LengthIsNat DEF OpenFile
  <2>3. Keeps(d, [d EXCEPT !.file = f])
    BY <2>1, <2>2, SetFileKeeps
  <2>4. Sek(d, c) = Prompted([d EXCEPT !.file = f])
    BY <1>2, <2>1 DEF Sek, DeviceOK, OpenFile
  <2>. QED
    BY <2>3, <2>4, KeepsMore
<1>. QED
  BY <1>1, <1>2

\* Commands that change the host do so with no file open.
LEMMA SetHostKeeps ==
  ASSUME NEW d, DeviceOK(d), d.file = NoFile,
         NEW h, DOMAIN h \subseteq Seq(STRING), h \in [DOMAIN h -> Stored]
  PROVE  Keeps(d, [d EXCEPT !.host = h])
BY DEF Keeps, DeviceOK, NoFile

LEMMA MadeKeeps ==
  ASSUME NEW d, DeviceOK(d), NEW p \in Seq(STRING), NEW e \in Stored
  PROVE  /\ DeviceOK(Made(d, p, e)) /\ Made(d, p, e).file = d.file
         /\ d.file = NoFile => Keeps(d, Made(d, p, e))
         /\ p \in DOMAIN Made(d, p, e).host /\ Made(d, p, e).answer = d.answer
<1>. DEFINE h == [q \in DOMAIN d.host \cup {p} |-> IF q = p THEN e ELSE d.host[q]]
<1>1. DOMAIN h \subseteq Seq(STRING) /\ h \in [DOMAIN h -> Stored]
  BY DEF DeviceOK
<1>2. Made(d, p, e) = [d EXCEPT !.host = h]
  BY DEF Made, DeviceOK
<1>3. DOMAIN d.host \subseteq DOMAIN h /\ p \in DOMAIN h
  OBVIOUS
<1>. HIDE DEF h
<1>. QED
  BY <1>1, <1>2, <1>3 DEF DeviceOK, Keeps

LEMMA MkdKeeps ==
  ASSUME root \in STRING, NEW d, DeviceOK(d), NEW c, c.name \in STRING
  PROVE  Keeps(d, Mkd(d, c))
<1>. DEFINE p == Path(d, c.name)
            dir == [kind |-> "dir", content |-> <<>>, writable |-> TRUE]
<1>0. <<>> \in Seq(Byte)
  OBVIOUS
<1>1. p \in Seq(STRING) /\ dir \in Stored
  BY <1>0, PathIsOne DEF DeviceOK, Stored
<1>2. d.file = NoFile => Keeps(d, Made(d, p, dir))
  BY <1>1, MadeKeeps
<1>3. Mkd(d, c) = IF d.file # NoFile THEN Failed(d, "File Open")
                  ELSE IF Exists(d, p) \/ ~IsDir(d, Parent(p)) THEN Failed(d, "Command Failed")
                  ELSE Prompted(Made(d, p, dir))
  BY DEF Mkd
<1>. HIDE DEF p, dir
<1>. QED
  BY <1>2, <1>3, KeepsItself, KeepsMore

LEMMA RemovedKeeps ==
  ASSUME NEW d, DeviceOK(d), d.file = NoFile, NEW p
  PROVE  Keeps(d, Removed(d, p))
<1>. DEFINE h == [q \in DOMAIN d.host \ {p} |-> d.host[q]]
<1>1. DOMAIN h \subseteq Seq(STRING) /\ h \in [DOMAIN h -> Stored]
  BY DEF DeviceOK
<1>2. Removed(d, p) = [d EXCEPT !.host = h]
  BY DEF Removed, DeviceOK
<1>. HIDE DEF h
<1>. QED
  BY <1>1, <1>2, SetHostKeeps

LEMMA DeletingKeeps ==
  ASSUME NEW d, DeviceOK(d), NEW c
  PROVE  Keeps(d, Dld(d, c)) /\ Keeps(d, Dlf(d, c)) /\ Keeps(d, Rd(d, c))
<1>1. d.file = NoFile => \A p : Keeps(d, Removed(d, p))
  BY RemovedKeeps
<1>2. Keeps(d, Dld(d, c))
  BY <1>1, KeepsItself, KeepsMore DEF Dld
<1>3. Keeps(d, Dlf(d, c))
  BY <1>1, KeepsItself, KeepsMore DEF Dlf
<1>4. Keeps(d, Rd(d, c))
  BY KeepsItself DEF Rd
<1>. QED
  BY <1>2, <1>3, <1>4

LEMMA RenKeeps ==
  ASSUME root \in STRING, NEW d, DeviceOK(d), NEW c, c.name \in STRING, c.to \in STRING
  PROVE  Keeps(d, Ren(d, c))
<1>. DEFINE from == Path(d, c.name)
            to == Path(d, c.to)
            moved(q) == IF Under(from, q) THEN to \o SubSeq(q, Len(from) + 1, Len(q)) ELSE q
            h == [q \in {moved(r) : r \in DOMAIN d.host} |->
                    d.host[CHOOSE r \in DOMAIN d.host : moved(r) = q]]
<1>1. from \in Seq(STRING) /\ to \in Seq(STRING)
  BY PathIsOne DEF DeviceOK
<1>2. ASSUME NEW q \in Seq(STRING)
      PROVE  moved(q) \in Seq(STRING)
  <2>1. CASE Under(from, q)
    <3>1. SubSeq(q, Len(from) + 1, Len(q)) \in Seq(STRING)
      <4>1. Len(from) + 1 \in Nat \ {0} /\ Len(q) \in Nat
        BY <1>1
      <4>. QED
        BY <4>1, SubSeqProperties
    <3>2. to \o SubSeq(q, Len(from) + 1, Len(q)) \in Seq(STRING)
      BY <1>1, <3>1
    <3>. QED
      BY <2>1, <3>2
  <2>. QED
    BY <2>1
<1>3. Ren(d, c) = IF d.file # NoFile THEN Failed(d, "File Open")
                  ELSE IF Exists(d, from) /\ ~Exists(d, to) /\ IsDir(d, Parent(to))
                  THEN Prompted([d EXCEPT !.host = h])
                  ELSE Failed(d, "Command Failed")
  BY DEF Ren, DeviceOK
<1>4. d.file = NoFile => Keeps(d, [d EXCEPT !.host = h])
  <2>1. DOMAIN h \subseteq Seq(STRING)
    BY <1>2 DEF DeviceOK
  <2>. HIDE DEF moved
  <2>2. ASSUME NEW q \in DOMAIN h
        PROVE  h[q] \in Stored
    <3>1. PICK r \in DOMAIN d.host : moved(r) = q
      OBVIOUS
    <3>2. (CHOOSE s \in DOMAIN d.host : moved(s) = q) \in DOMAIN d.host
      BY <3>1
    <3>. QED
      BY <3>2 DEF DeviceOK
  <2>3. h \in [DOMAIN h -> Stored]
    BY <2>2
  <2>. HIDE DEF h
  <2>. QED
    BY <2>1, <2>3, SetHostKeeps
<1>. HIDE DEF from, to, moved, h
<1>. QED
  BY <1>3, <1>4, KeepsItself, KeepsMore

\* Opening a file while none is open, with the answer it gets.
LEMMA OpenedOK ==
  ASSUME NEW d, DeviceOK(d), NEW p \in DOMAIN d.host, p # <<>>, NEW mode \in {"r", "w"},
         NEW pos \in Nat
  PROVE  DeviceOK(Opened(d, p, mode, pos)) /\ Opened(d, p, mode, pos).answer = d.answer
BY DEF DeviceOK, Opened, OpenFile

LEMMA OpenersAnswer ==
  ASSUME root \in STRING, NEW d, DeviceOK(d), d.answer = <<>>, NEW c, c.name \in STRING,
         NEW e \in {Opr(d, c), Opw(d, c)}
  PROVE  DeviceOK(e) /\ e.answer # <<>>
<1>. DEFINE p == Path(d, c.name)
            file == [kind |-> "file", content |-> <<>>, writable |-> TRUE]
<1>0. <<>> \in Seq(Byte)
  OBVIOUS
<1>1. p \in Seq(STRING) /\ p # <<>> /\ file \in Stored
  BY <1>0, PathIsOne DEF DeviceOK, Stored
<1>2. ASSUME NEW x
      PROVE  DeviceOK(Failed(d, x)) /\ Failed(d, x).answer # <<>>
  BY FailedAnswers
<1>3. ASSUME NEW mode \in {"r", "w"}, NEW pos \in Nat, p \in DOMAIN d.host
      PROVE  LET o == Prompted(Opened(d, p, mode, pos)) IN DeviceOK(o) /\ o.answer # <<>>
  BY <1>1, <1>3, OpenedOK, PromptedKeeps
<1>4. LET o == Prompted(Opened(Made(d, p, file), p, "w", 0)) IN DeviceOK(o) /\ o.answer # <<>>
  BY <1>1, MadeKeeps, OpenedOK, PromptedKeeps
<1>5. p \in DOMAIN d.host => Len(d.host[p].content) \in Nat
  BY DEF DeviceOK, Stored
<1>6. CASE e = Opr(d, c)
  <2>1. e = IF Exists(d, p) THEN Prompted(Opened(d, p, "r", 0)) ELSE Failed(d, "Invalid")
    BY <1>6 DEF Opr
  <2>. HIDE DEF p
  <2>. QED
    BY <1>2, <1>3, <2>1 DEF Exists
<1>7. CASE e = Opw(d, c)
  <2>1. e = CASE IsDir(d, p) -> Failed(d, "Invalid")
              [] IsFile(d, p) /\ ~d.host[p].writable -> Failed(d, "Read Only")
              [] IsFile(d, p) /\ d.host[p].writable ->
                   Prompted(Opened(d, p, "w", Len(d.host[p].content)))
              [] ~Exists(d, p) /\ IsDir(d, Parent(p)) -> Prompted(Opened(Made(d, p, file), p, "w", 0))
              [] OTHER -> Failed(d, "Command Failed")
    BY <1>7 DEF Opw
  <2>. HIDE DEF p, file
  <2>2. IsFile(d, p) => p \in DOMAIN d.host
    BY DEF IsFile, Exists
  <2>. QED
    BY <1>2, <1>3, <1>4, <1>5, <2>1, <2>2
<1>. QED
  BY <1>6, <1>7

-----------------------------------------------------------------------------
\* What is executed at the end of a line.
Saying(c) == \/ c \in [op : STRING \ {"data"}, name : STRING, to : STRING, n : Nat]
           \/ c \in {[op |-> "EMPTY"], [op |-> "UNKNOWN"]}

LEMMA SettingsKeep ==
  ASSUME NEW d, DeviceOK(d), NEW b
  PROVE  Keeps(d, CommandSet(d, b)) /\ Keeps(d, Mode(d, b))
<1>1. Keeps(d, [d EXCEPT !.short = b]) /\ Keeps(d, [d EXCEPT !.binary = b])
  BY DEF Keeps, DeviceOK
<1>. QED
  BY <1>1, KeepsMore DEF CommandSet, Mode

LEMMA ExecutedKeeps ==
  ASSUME root \in STRING, NEW d, DeviceOK(d), NEW c, Saying(c), ~Opener(c)
  PROVE  /\ Keeps(d, Executed(d, c))
         /\ c.op = "WRF" => Executed(d, c).file = d.file
<1>1. CASE root = ""
  BY <1>1, KeepsItself, FailedKeeps DEF Executed
<1>2. CASE root # "" /\ c \in {[op |-> "EMPTY"], [op |-> "UNKNOWN"]}
  <2>1. c.op = "EMPTY" \/ c.op = "UNKNOWN"
    <3>1. c = [op |-> "EMPTY"] \/ c = [op |-> "UNKNOWN"]
      BY <1>2
    <3>. QED
      BY <3>1
  <2>2. Executed(d, c) = Prompted(d) \/ Executed(d, c) = Failed(d, "Bad Command")
    BY <1>2, <2>1 DEF Executed
  <2>. QED
    BY <2>1, <2>2, KeepsItself
<1>3. CASE root # "" /\ c \in [op : STRING \ {"data"}, name : STRING, to : STRING, n : Nat]
  <2>1. c.name \in STRING /\ c.to \in STRING /\ c.n \in Nat
    BY <1>3
  <2>2. /\ Keeps(d, Dir(d, c)) /\ Keeps(d, Cd(d, c)) /\ Keeps(d, Clf(d, c))
        /\ Keeps(d, Rdf(d, c)) /\ Keeps(d, Sek(d, c)) /\ Keeps(d, Wrf(d, c))
        /\ Keeps(d, Dirt(d, c)) /\ Keeps(d, Mkd(d, c)) /\ Keeps(d, Ren(d, c))
        /\ Keeps(d, Dld(d, c)) /\ Keeps(d, Dlf(d, c)) /\ Keeps(d, Rd(d, c))
    BY <2>1, DirKeeps, CdKeeps, ClfKeeps, RdfKeeps, SekKeeps, MkdKeeps, RenKeeps,
       DeletingKeeps
  <2>3. /\ Keeps(d, CommandSet(d, c.op = "SCS")) /\ Keeps(d, Mode(d, c.op = "IPH"))
        /\ Keeps(d, Said(d, <<c.op, "\r">>)) /\ Keeps(d, Prompted(Said(d, <<c.op>>)))
        /\ Keeps(d, Prompted(d)) /\ Keeps(d, Failed(d, "Bad Command"))
    BY SettingsKeep, KeepsItself, KeepsMore
  <2>4. Keeps(d, Executed(d, c))
    BY <1>3, <2>2, <2>3 DEF Executed, Opener
  <2>5. c.op = "WRF" => Executed(d, c) = Wrf(d, c)
    BY <1>3 DEF Executed
  <2>. QED
    BY <2>4, <2>5, DirKeeps
<1>. QED
  BY <1>1, <1>2, <1>3 DEF Saying

LEMMA OpenersExecuted ==
  ASSUME root \in STRING, NEW d, DeviceOK(d), d.answer = <<>>, NEW c, Saying(c), Opener(c)
  PROVE  DeviceOK(Executed(d, c)) /\ Executed(d, c).answer # <<>>
<1>1. CASE root = ""
  BY <1>1, FailedAnswers DEF Executed
<1>2. CASE root # ""
  <2>1. c.name \in STRING
    BY DEF Saying, Opener
  <2>2. Executed(d, c) \in {Opr(d, c), Opw(d, c)}
    BY <1>2 DEF Executed, Opener
  <2>. QED
    BY <2>1, <2>2, OpenersAnswer
<1>. QED
  BY <1>1, <1>2

-----------------------------------------------------------------------------
\* A sequence, extended by a byte at a place or beyond its end.
Extended(old, at, b) ==
  [i \in 1 .. (IF at > Len(old) THEN at ELSE Len(old)) |->
     IF i = at THEN b ELSE IF i \in DOMAIN old THEN old[i] ELSE "00"]

LEMMA ExtendedIsSeq ==
  ASSUME NEW old \in Seq(Byte), NEW at \in Nat, NEW b \in Byte
  PROVE  Extended(old, at, b) \in Seq(Byte)
<1>. DEFINE n == IF at > Len(old) THEN at ELSE Len(old)
<1>1. n \in Nat
  OBVIOUS
<1>2. \A i \in DOMAIN old : old[i] \in Byte
  BY ElementOfSeq, LenProperties
<1>3. "00" \in Byte
  BY DEF Byte
<1>. HIDE DEF n
<1>4. Extended(old, at, b) \in [1 .. n -> Byte]
  BY <1>2, <1>3 DEF Extended, n
<1>. QED
  BY <1>1, <1>4, FunctionIsSeq

\* A byte of a WRF goes where the one before ended.
LEMMA OverlayGrows ==
  ASSUME NEW content \in Seq(Byte), NEW pos \in Nat, NEW bytes \in Seq(Byte),
         NEW b \in Byte
  PROVE  /\ Overlay(content, pos, bytes) \in Seq(Byte)
         /\ Overlay(content, pos, Append(bytes, b))
              = Extended(Overlay(content, pos, bytes), pos + Len(bytes) + 1, b)
<1>. DEFINE old == Overlay(content, pos, bytes)
            at  == pos + Len(bytes) + 1
            end == pos + Len(bytes)
            more == Append(bytes, b)
            length == IF bytes # <<>> /\ end > Len(content) THEN end ELSE Len(content)
<1>1. length \in Nat /\ Len(bytes) \in Nat /\ at \in Nat
  OBVIOUS
<1>2. old = [i \in 1 .. length |->
               IF i > pos /\ i <= end THEN bytes[i - pos]
               ELSE IF i \in DOMAIN content THEN content[i] ELSE "00"]
  BY DEF Overlay
<1>3. \A i \in 1 .. length : old[i] \in Byte
  <2>1. \A k \in 1 .. Len(bytes) : bytes[k] \in Byte
    BY ElementOfSeq
  <2>2. \A i \in DOMAIN content : content[i] \in Byte
    BY ElementOfSeq, LenProperties
  <2>3. \A i \in 1 .. length : i > pos /\ i <= end => i - pos \in 1 .. Len(bytes)
    BY <1>1
  <2>. HIDE DEF length, end, old
  <2>4. ASSUME NEW i \in 1 .. length
        PROVE  old[i] \in Byte
    <3>1. CASE i > pos /\ i <= end
      BY <1>2, <2>1, <2>3, <3>1
    <3>2. CASE ~(i > pos /\ i <= end) /\ i \in DOMAIN content
      BY <1>2, <2>2, <3>2
    <3>3. CASE ~(i > pos /\ i <= end) /\ i \notin DOMAIN content
      <4>1. old[i] = "00"
        BY <1>2, <3>3
      <4>. QED
        BY <4>1 DEF Byte
    <3>. QED
      BY <3>1, <3>2, <3>3
  <2>. QED
    BY <2>4
<1>4. old \in Seq(Byte) /\ Len(old) = length /\ DOMAIN old = 1 .. length
  <2>1. old \in [1 .. length -> Byte]
    BY <1>2, <1>3
  <2>. HIDE DEF old, length
  <2>. QED
    BY <1>1, <2>1, FunctionIsSeq
<1>5. more # <<>> /\ Len(more) = Len(bytes) + 1 /\ more[Len(bytes) + 1] = b
      /\ \A k \in 1 .. Len(bytes) : more[k] = bytes[k]
  <2>1. Len(more) = Len(bytes) + 1 /\ more[Len(bytes) + 1] = b
        /\ \A k \in 1 .. Len(bytes) : more[k] = bytes[k]
    BY AppendProperties
  <2>2. more \in Seq(Byte) /\ Len(more) # 0
    <3>1. more \in Seq(Byte)
      BY AppendProperties
    <3>. HIDE DEF more
    <3>. QED
      BY <1>1, <2>1, <3>1
  <2>3. more # <<>>
    BY <2>2, EmptySeq
  <2>. QED
    BY <2>1, <2>3
<1>6. Overlay(content, pos, more) =
        [i \in 1 .. (IF at > Len(content) THEN at ELSE Len(content)) |->
           IF i > pos /\ i <= at THEN more[i - pos]
           ELSE IF i \in DOMAIN content THEN content[i] ELSE "00"]
  <2>1. pos + Len(more) = at
    BY <1>1, <1>5
  <2>. HIDE DEF at, more
  <2>. QED
    BY <1>5, <2>1 DEF Overlay
<1>7. (IF at > Len(content) THEN at ELSE Len(content))
        = IF at > Len(old) THEN at ELSE Len(old)
  <2>1. Len(old) = length
    BY <1>4
  <2>2. Len(content) \in Nat
    OBVIOUS
  <2>. HIDE DEF old
  <2>. QED
    BY <1>1, <2>1, <2>2
<1>8. ASSUME NEW i \in 1 .. (IF at > Len(content) THEN at ELSE Len(content))
      PROVE  (IF i > pos /\ i <= at THEN more[i - pos]
              ELSE IF i \in DOMAIN content THEN content[i] ELSE "00")
             = IF i = at THEN b ELSE IF i \in DOMAIN old THEN old[i] ELSE "00"
  <2>0. i \in Nat /\ i >= 1 /\ DOMAIN old = 1 .. length /\ DOMAIN content = 1 .. Len(content)
        /\ Len(content) \in Nat
    BY <1>1, <1>4
  <2>. HIDE DEF old, more
  <2>1. CASE i = at
    BY <1>1, <1>5, <2>1
  <2>2. CASE i > pos /\ i < at
    <3>1. i - pos \in 1 .. Len(bytes) /\ i <= end
      BY <1>1, <2>2, <2>0
    <3>2. i \in 1 .. length /\ bytes # <<>>
      <4>1. bytes # <<>>
        BY <3>1
      <4>. QED
        BY <1>1, <2>2, <2>0, <3>1, <4>1
    <3>3. old[i] = bytes[i - pos]
      BY <1>2, <2>2, <3>1, <3>2
    <3>4. i # at /\ i \in DOMAIN old
      BY <1>1, <2>2, <2>0, <3>2
    <3>. QED
      BY <1>1, <1>5, <2>2, <3>1, <3>3, <3>4
  <2>3. CASE ~(i > pos /\ i <= at) /\ i \in 1 .. length
    <3>1. i # at /\ ~(i > pos /\ i <= end)
      BY <1>1, <2>3, <2>0
    <3>2. old[i] = IF i \in DOMAIN content THEN content[i] ELSE "00"
      BY <1>2, <2>3, <3>1
    <3>. HIDE DEF length, at, end
    <3>. QED
      BY <2>0, <2>3, <3>1, <3>2
  <2>4. CASE ~(i > pos /\ i <= at) /\ i \notin 1 .. length
    <3>1. i # at /\ i \notin DOMAIN content
      BY <1>1, <2>4, <2>0
    <3>. HIDE DEF length, at, end
    <3>. QED
      BY <2>0, <2>4, <3>1
  <2>. QED
    BY <1>1, <2>0, <2>1, <2>2, <2>3, <2>4
<1>9. Overlay(content, pos, more) = Extended(old, at, b)
  <2>. HIDE DEF old, at, more, length
  <2>. QED
    BY <1>6, <1>7, <1>8 DEF Extended
<1>. QED
  BY <1>4, <1>9

LEMMA OverlayStarts ==
  ASSUME NEW content \in Seq(Byte), NEW pos \in Nat
  PROVE  Overlay(content, pos, <<>>) = content
BY DEF Overlay

LEMMA PutKeeps ==
  ASSUME NEW d, DeviceOK(d), NEW b \in Byte
  PROVE  /\ DeviceOK(Put(d, b)) /\ Put(d, b).answer = d.answer
         /\ d.file = NoFile \/ d.file.mode = "r" => Put(d, b) = d
         /\ d.file # NoFile /\ d.file.mode = "w" =>
              /\ Put(d, b).host[d.file.path].content =
                   Extended(d.host[d.file.path].content, d.file.pos + 1, b)
              /\ Put(d, b).file = [d.file EXCEPT !.pos = d.file.pos + 1]
              /\ Put(d, b).file.path = d.file.path /\ Put(d, b).file.mode = d.file.mode
              /\ Put(d, b).file.pos = d.file.pos + 1
              /\ Put(d, b).file # NoFile
<1>1. CASE d.file = NoFile \/ d.file.mode = "r"
  BY <1>1 DEF Put
<1>2. CASE d.file # NoFile /\ d.file.mode # "r"
  <2>. DEFINE p == d.file.path
              old == d.host[p].content
              at == d.file.pos + 1
              new == Extended(old, at, b)
              h == [d.host EXCEPT ![p] = [@ EXCEPT !.content = new]]
              f == [d.file EXCEPT !.pos = at]
  <2>1. /\ d.file \in OpenFile /\ p \in DOMAIN d.host /\ d.host[p] \in Stored
        /\ old \in Seq(Byte) /\ at \in Nat
    BY <1>2 DEF DeviceOK, OpenFile, Stored
  <2>2. new \in Seq(Byte)
    BY <2>1, ExtendedIsSeq
  <2>3. Put(d, b) = [d EXCEPT !.host = h, !.file = f]
    BY <1>2, <2>1 DEF Put, DeviceOK, OpenFile, Extended
  <2>. HIDE DEF new
  <2>4. h \in [DOMAIN d.host -> Stored] /\ DOMAIN h = DOMAIN d.host /\ h[p].content = new
    BY <2>1, <2>2 DEF DeviceOK, Stored
  <2>5. f \in OpenFile /\ f.path = p /\ f.mode = d.file.mode /\ f.pos = at /\ f # NoFile
    BY <2>1 DEF OpenFile, NoFile
  <2>6. f = [d.file EXCEPT !.pos = d.file.pos + 1]
    OBVIOUS
  <2>. HIDE DEF h, f
  <2>7. /\ Put(d, b).host = h /\ Put(d, b).file = f /\ Put(d, b).answer = d.answer
        /\ Put(d, b).cwd = d.cwd /\ DOMAIN Put(d, b) = DOMAIN d
    BY <2>3 DEF DeviceOK
  <2>8. DeviceOK(Put(d, b))
    BY <2>1, <2>4, <2>5, <2>7 DEF DeviceOK
  <2>. QED
    BY <1>2, <2>4, <2>5, <2>6, <2>7, <2>8 DEF new
<1>3. d.file = NoFile \/ d.file.mode \in {"r", "w"}
  BY DEF DeviceOK, OpenFile
<1>. QED
  BY <1>1, <1>2, <1>3

-----------------------------------------------------------------------------
\* What the invariant says of a device d, a WRF w, a command k and a line l.
Landed(d, w) ==
  w # NoWrf /\ d.file.path = w.path =>
    d.host[w.path].content = Overlay(w.content, w.pos, IF w.mode = "w" THEN w.sent ELSE <<>>)
InPlace(d, w) ==
  w # NoWrf /\ d.file.path = w.path =>
    /\ d.file.mode = w.mode
    /\ w.mode = "w" => d.file.pos = w.pos + Len(w.sent)
GoesOn(d, w, k, l) ==
  /\ Landed(d, w)
  /\ k.op = "WRF" => InPlace(d, w)
  /\ l # <<>> /\ d.file = NoFile => w = NoWrf
  /\ l # <<>> /\ Opener(l[1]) => d.file = NoFile

LEMMA FileInvGoesOn ==
  ASSUME FileInv
  PROVE  GoesOn(dev, wrf, cmd, line)
BY DEF FileInv, OpensOne, WrfGoesOn, WritesLand, GoesOn, Landed, InPlace

LEMMA ByteIsByte ==
  ASSUME VDIPAssumption, NEW b \in Symbol
  PROVE  ByteOf(b) \in Byte
<1>1. CASE b \in Commands
  <2>1. b.op # "data" /\ b \in [op : STRING \ {"data"}, name : STRING, to : STRING, n : Nat]
    BY <1>1 DEF VDIPAssumption
  <2>. QED
    BY <2>1 DEF ByteOf, Byte
<1>2. CASE b = CR \/ b = Nothing
  BY <1>2 DEF ByteOf, Byte, CR, Nothing
<1>3. ASSUME NEW x \in Bytes, b = Data(x)
      PROVE  ByteOf(b) \in Byte
  <2>1. b.op = "data" /\ b.byte = x /\ x \in STRING
    BY <1>3 DEF VDIPAssumption, Data
  <2>2. ByteOf(b) = x
    BY <2>1 DEF ByteOf, CR
  <2>. QED
    BY <2>1, <2>2 DEF Byte
<1>. QED
  BY <1>1, <1>2, <1>3 DEF Symbol

\* A WRF that goes on takes a byte.
LEMMA HandledGoesOn ==
  ASSUME NEW d, DeviceOK(d), NEW w \in Write \cup {NoWrf}, Landed(d, w), InPlace(d, w),
         NEW b \in Byte,
         NEW e, e = Put(d, b) \/ e = Prompted(Put(d, b)),
         NEW v, w = NoWrf => v = NoWrf,
         w # NoWrf => v = [w EXCEPT !.sent = Append(w.sent, b)]
  PROVE  /\ DeviceOK(e) /\ v \in Write \cup {NoWrf} /\ Landed(e, v) /\ InPlace(e, v)
         /\ e.file = NoFile <=> d.file = NoFile
         /\ v = NoWrf <=> w = NoWrf
<1>. DEFINE q == Put(d, b)
<1>1. DeviceOK(e) /\ e.host = q.host /\ e.file = q.file
  <2>1. DeviceOK(q) /\ (e = q \/ e = Prompted(q))
    BY PutKeeps
  <2>. HIDE DEF q
  <2>. QED
    BY <2>1, PromptedKeeps
<1>2. e.file = NoFile <=> d.file = NoFile
  <2>1. d.file = NoFile \/ (d.file # NoFile /\ d.file.mode \in {"r", "w"})
    BY DEF DeviceOK, OpenFile
  <2>. QED
    BY <1>1, <2>1, PutKeeps
<1>3. CASE w = NoWrf
  BY <1>1, <1>2, <1>3 DEF Landed, InPlace
<1>4. CASE w # NoWrf
  <2>1. w \in Write /\ w.sent \in Seq(Byte)
    BY <1>4 DEF Write
  <2>2. /\ v \in Write /\ v.path = w.path /\ v.content = w.content /\ v.pos = w.pos
        /\ v.mode = w.mode /\ v.sent = Append(w.sent, b) /\ v # NoWrf
    <3>1. Append(w.sent, b) \in Seq(Byte)
      BY <2>1
    <3>. QED
      BY <1>4, <2>1, <3>1 DEF Write, NoWrf
  <2>3. CASE d.file = NoFile
    <3>1. e.file = NoFile /\ e.file.path # w.path
      BY <1>2, <2>1, <2>3 DEF Write, NoFile
    <3>. QED
      BY <1>1, <1>2, <1>4, <2>2, <3>1 DEF Landed, InPlace
  <2>4. CASE d.file # NoFile /\ d.file.mode = "r"
    <3>1. e.host = d.host /\ e.file = d.file
      BY <1>1, <2>4, PutKeeps
    <3>2. InPlace(e, v) /\ (d.file.path = w.path => w.mode = "r")
      BY <1>4, <2>2, <2>4, <3>1 DEF InPlace
    <3>3. Landed(e, v)
      BY <1>4, <2>2, <3>1, <3>2 DEF Landed
    <3>. QED
      BY <1>1, <1>2, <1>4, <2>2, <3>2, <3>3
  <2>5. CASE d.file # NoFile /\ d.file.mode = "w"
    <3>1. /\ e.host[d.file.path].content
               = Extended(d.host[d.file.path].content, d.file.pos + 1, b)
          /\ e.file.path = d.file.path /\ e.file.mode = "w" /\ e.file.pos = d.file.pos + 1
      <4>1. /\ q.host[d.file.path].content
                 = Extended(d.host[d.file.path].content, d.file.pos + 1, b)
            /\ q.file.path = d.file.path /\ q.file.mode = d.file.mode
            /\ q.file.pos = d.file.pos + 1
        BY <2>5, PutKeeps
      <4>. HIDE DEF q
      <4>. QED
        BY <1>1, <2>5, <4>1
    <3>2. CASE d.file.path # w.path
      BY <1>1, <1>2, <1>4, <2>2, <3>1, <3>2 DEF Landed, InPlace
    <3>3. CASE d.file.path = w.path
      <4>1. w.mode = "w" /\ d.file.pos = w.pos + Len(w.sent)
            /\ d.host[w.path].content = Overlay(w.content, w.pos, w.sent)
        BY <1>4, <2>5, <3>3 DEF InPlace, Landed
      <4>2. w.content \in Seq(Byte) /\ w.pos \in Nat
        BY <2>1 DEF Write
      <4>3. e.host[w.path].content = Overlay(w.content, w.pos, Append(w.sent, b))
        BY <2>1, <3>1, <3>3, <4>1, <4>2, OverlayGrows
      <4>4. Landed(e, v)
        BY <2>2, <4>1, <4>3 DEF Landed
      <4>5. e.file.pos = w.pos + Len(v.sent)
        <5>1. Len(v.sent) = Len(w.sent) + 1 /\ Len(w.sent) \in Nat
          BY <2>1, <2>2, AppendProperties
        <5>. QED
          BY <3>1, <4>1, <4>2, <5>1
      <4>6. InPlace(e, v)
        BY <2>2, <3>1, <4>1, <4>5 DEF InPlace
      <4>. QED
        BY <1>1, <1>2, <1>4, <2>2, <4>4, <4>6
    <3>. QED
      BY <3>2, <3>3
  <2>. QED
    BY <2>3, <2>4, <2>5 DEF DeviceOK, OpenFile
<1>. QED
  BY <1>3, <1>4

\* A command that opens no file leaves what a WRF before it wrote.
LEMMA KeptGoesOn ==
  ASSUME NEW d, DeviceOK(d), NEW w \in Write \cup {NoWrf}, Landed(d, w), NEW e, Keeps(d, e)
  PROVE  Landed(e, w)
<1>. SUFFICES ASSUME w # NoWrf, e.file.path = w.path
              PROVE  Landed(e, w)
  BY DEF Landed
<1>1. w.path # <<>>
  BY DEF Write
<1>2. e.file # NoFile
  BY <1>1 DEF NoFile
<1>3. d.file.path = w.path /\ e.host = d.host
  BY <1>2 DEF Keeps
<1>. QED
  BY <1>3 DEF Landed

\* A WRF that begins has written nothing.
LEMMA BegunGoesOn ==
  ASSUME NEW d, DeviceOK(d), d.file # NoFile,
         NEW w, w = [path |-> d.file.path, content |-> d.host[d.file.path].content,
                     pos |-> d.file.pos, mode |-> d.file.mode, sent |-> <<>>]
  PROVE  w \in Write /\ w # NoWrf /\ Landed(d, w) /\ InPlace(d, w)
<1>1. d.file \in OpenFile /\ d.host[d.file.path].content \in Seq(Byte)
  BY DEF DeviceOK, Stored
<1>2. <<>> \in Seq(Byte) /\ Len(<<>>) = 0
  OBVIOUS
<1>3. w \in Write
  BY <1>1, <1>2 DEF Write, OpenFile
<1>4. w # NoWrf
  BY DEF NoWrf
<1>5. Landed(d, w)
  BY <1>1, OverlayStarts DEF Landed, OpenFile
<1>6. InPlace(d, w)
  BY <1>1, <1>2 DEF InPlace, OpenFile
<1>. QED
  BY <1>3, <1>4, <1>5, <1>6

\* The answer is forgotten.
LEMMA ToldGoesOn ==
  ASSUME NEW d, DeviceOK(d), NEW e, e = [d EXCEPT !.answer = <<>>]
  PROVE  /\ DeviceOK(e) /\ e.answer = <<>> /\ e.file = d.file /\ e.host = d.host
         /\ \A w : (Landed(e, w) <=> Landed(d, w)) /\ (InPlace(e, w) <=> InPlace(d, w))
<1>1. DeviceOK(e) /\ e.answer = <<>> /\ e.file = d.file /\ e.host = d.host
  BY DEF DeviceOK
<1>. QED
  BY <1>1 DEF Landed, InPlace

LEMMA ArrivedGoesOn ==
  ASSUME VDIPAssumption, FileInv, Opener(input) => dev.file = NoFile,
         NEW due, Arrived(input, due)
  PROVE  /\ DeviceOK(dev') /\ dev'.answer = <<>>
         /\ cmd'.op = "WRF" => cmd' \in [op : {"WRF"}, n : Int]
         /\ input' \in {input, Nothing} /\ line' \in Seq(Symbol)
         /\ wrf' \in Write \cup {NoWrf}
         /\ GoesOn(dev', wrf', cmd', line')
<1>. DEFINE c == CASE line = <<>> -> [op |-> "EMPTY"]
                   [] Len(line) = 1 /\ line[1] \in Commands -> line[1]
                   [] OTHER -> [op |-> "UNKNOWN"]
            runs == cmd = NoCommand /\ input = CR
            d == IF cmd # NoCommand THEN Handled(dev, input)
                 ELSE IF runs THEN Executed(dev, c) ELSE dev
            active == IF runs THEN IF c.op = "WRF" THEN [op |-> "WRF", n |-> Length(c.n)]
                                   ELSE [op |-> c.op]
                      ELSE IF cmd.op = "WRF" THEN [cmd EXCEPT !.n = @ - 1] ELSE cmd
<1>0. /\ DeviceOK(dev) /\ dev.answer = <<>> /\ root \in STRING /\ input \in Symbol
      /\ line \in Seq(Symbol) /\ wrf \in Write \cup {NoWrf}
      /\ cmd.op = "WRF" => cmd \in [op : {"WRF"}, n : Int]
  BY DEF FileInv, VTyped
<1>1. dev' = [d EXCEPT !.answer = <<>>]
  BY DEF Arrived
<1>2. \/ line' = <<>> /\ cmd' = NoCommand
      \/ /\ d.answer = <<>> \/ active = NoCommand
         /\ cmd' = active
         /\ line' = IF cmd = NoCommand /\ input \notin {Nothing, CR}
                    THEN Append(line, input) ELSE line
  BY DEF Arrived
<1>3. wrf' = IF runs /\ d.file # NoFile /\ c.op = "WRF"
             THEN [path |-> d.file.path, content |-> d.host[d.file.path].content,
                   pos |-> d.file.pos, mode |-> d.file.mode, sent |-> <<>>]
             ELSE IF wrf # NoWrf /\ cmd.op = "WRF"
             THEN [wrf EXCEPT !.sent = Append(@, ByteOf(input))]
             ELSE IF d.file = NoFile THEN NoWrf ELSE wrf
  BY DEF Arrived
<1>4. input' \in {input, Nothing}
  BY DEF Arrived
<1>5. line' \in Seq(Symbol)
  <2>1. Append(line, input) \in Seq(Symbol) /\ <<>> \in Seq(Symbol)
    BY <1>0
  <2>. QED
    BY <1>0, <1>2, <2>1
<1>6. Saying(c) /\ (Opener(c) => line # <<>> /\ line[1] = c)
  BY DEF VDIPAssumption, Saying, Opener
<1>7. c.op = "WRF" => Length(c.n) \in Nat
  BY <1>6, LengthIsNat DEF Saying
<1>8. NoCommand.op # "WRF"
  BY DEF NoCommand
<1>9. cmd'.op = "WRF" => cmd' \in [op : {"WRF"}, n : Int]
  <2>1. active.op = "WRF" => active \in [op : {"WRF"}, n : Int]
    <3>1. CASE runs
      BY <1>7, <3>1
    <3>2. CASE ~runs
      BY <1>0, <3>2
    <3>. QED
      BY <3>1, <3>2
  <2>. HIDE DEF active
  <2>. QED
    BY <1>2, <1>8, <2>1
<1>10. GoesOn(dev, wrf, cmd, line)
  BY FileInvGoesOn
<1>. DEFINE Result == /\ DeviceOK(d) /\ wrf' \in Write \cup {NoWrf}
                      /\ GoesOn(d, wrf', cmd', line')
<1>11. ASSUME runs /\ Opener(c)
       PROVE  Result
  <2>1. cmd = NoCommand /\ d = Executed(dev, c)
    BY <1>11
  <2>2. DeviceOK(d) /\ d.answer # <<>>
    BY <1>0, <1>6, <1>11, <2>1, OpenersExecuted
  <2>3. active # NoCommand
    BY <1>11 DEF Opener, NoCommand
  <2>4. line' = <<>> /\ cmd' = NoCommand
    BY <1>2, <2>2, <2>3
  <2>5. wrf = NoWrf
    BY <1>6, <1>10, <1>11 DEF GoesOn
  <2>6. wrf' = NoWrf
    BY <1>3, <1>11, <2>5 DEF Opener
  <2>. HIDE DEF d, c, runs, active
  <2>. QED
    BY <1>8, <2>2, <2>4, <2>6 DEF GoesOn, Landed
<1>12. ASSUME runs /\ ~Opener(c)
       PROVE  Result
  <2>1. cmd = NoCommand /\ d = Executed(dev, c) /\ input = CR
    BY <1>12
  <2>2. Keeps(dev, d) /\ (c.op = "WRF" => d.file = dev.file)
    BY <1>0, <1>6, <1>12, <2>1, ExecutedKeeps
  <2>3. DeviceOK(d)
    BY <2>2 DEF Keeps
  <2>4. line' = <<>> \/ line' = line
    BY <1>2, <2>1
  <2>5. c.op # "WRF" => cmd'.op # "WRF"
    BY <1>2, <1>8, <1>12
  <2>. HIDE DEF d, active
  <2>6. d.file # NoFile => dev.file # NoFile
    BY <2>2 DEF Keeps
  <2>7. CASE d.file # NoFile /\ c.op = "WRF"
    <3>1. wrf' \in Write /\ Landed(d, wrf') /\ InPlace(d, wrf')
      BY <1>3, <1>12, <2>3, <2>7, BegunGoesOn
    <3>2. line' # <<>> /\ Opener(line'[1]) => d.file = NoFile
      BY <1>10, <2>2, <2>4, <2>7 DEF GoesOn
    <3>. QED
      BY <2>3, <2>7, <3>1, <3>2 DEF GoesOn
  <2>8. CASE ~(d.file # NoFile /\ c.op = "WRF")
    <3>1. wrf' = IF d.file = NoFile THEN NoWrf ELSE wrf
      BY <1>3, <1>8, <2>1, <2>8
    <3>2. Landed(d, wrf)
      BY <1>0, <1>10, <2>2, KeptGoesOn DEF GoesOn
    <3>3. Landed(d, wrf')
      BY <3>1, <3>2 DEF Landed
    <3>4. cmd'.op = "WRF" => InPlace(d, wrf')
      BY <2>5, <2>8, <3>1 DEF InPlace
    <3>5. line' # <<>> /\ Opener(line'[1]) => d.file = NoFile
      BY <1>10, <2>4, <2>6 DEF GoesOn
    <3>. QED
      BY <1>0, <2>3, <3>1, <3>3, <3>4, <3>5 DEF GoesOn
  <2>. QED
    BY <2>7, <2>8
<1>13. ASSUME cmd.op = "WRF"
       PROVE  Result
  <2>. DEFINE x == ByteOf(input)
  <2>1. cmd # NoCommand /\ ~runs
    BY <1>8, <1>13
  <2>2. x \in Byte
    BY <1>0, ByteIsByte
  <2>3. d = Prompted(Put(dev, x)) \/ d = Put(dev, x)
    BY <1>13, <2>1 DEF Handled
  <2>4. line' = <<>> \/ line' = line
    BY <1>2, <2>1
  <2>5. /\ wrf = NoWrf => wrf' = NoWrf
        /\ wrf # NoWrf => wrf' = [wrf EXCEPT !.sent = Append(wrf.sent, x)]
    BY <1>3, <1>13, <2>1
  <2>. HIDE DEF d, x, runs
  <2>6. Landed(dev, wrf) /\ InPlace(dev, wrf)
    BY <1>10, <1>13 DEF GoesOn
  <2>7. /\ DeviceOK(d) /\ wrf' \in Write \cup {NoWrf} /\ Landed(d, wrf') /\ InPlace(d, wrf')
        /\ d.file = NoFile <=> dev.file = NoFile
        /\ wrf' = NoWrf <=> wrf = NoWrf
    BY <1>0, <2>2, <2>3, <2>5, <2>6, HandledGoesOn
  <2>. QED
    BY <1>10, <2>4, <2>7 DEF GoesOn
<1>14. ASSUME ~runs /\ cmd.op # "WRF"
       PROVE  Result
  <2>1. d = dev /\ active = cmd
    BY <1>14 DEF Handled
  <2>2. wrf' = IF d.file = NoFile THEN NoWrf ELSE wrf
    BY <1>3, <1>14
  <2>3. cmd'.op # "WRF"
    BY <1>2, <1>8, <1>14, <2>1
  <2>4. line' # <<>> /\ Opener(line'[1]) => d.file = NoFile
    <3>1. CASE line' = <<>> \/ line' = line
      BY <1>10, <2>1, <3>1 DEF GoesOn
    <3>2. CASE line' = Append(line, input)
      <4>1. line # <<>> => line'[1] = line[1]
        BY <1>0, <3>2
      <4>2. line = <<>> => line'[1] = input
        BY <3>2
      <4>. QED
        BY <1>10, <2>1, <4>1, <4>2 DEF GoesOn
    <3>. QED
      BY <1>2, <3>1, <3>2
  <2>. HIDE DEF d, active
  <2>5. Landed(d, wrf')
    BY <1>10, <2>1, <2>2 DEF GoesOn, Landed
  <2>. QED
    BY <1>0, <2>1, <2>2, <2>3, <2>4, <2>5 DEF GoesOn
<1>15. Result
  <2>. HIDE DEF Result, d, c, runs, active
  <2>. QED
    BY <1>11, <1>12, <1>13, <1>14
<1>16. /\ DeviceOK(dev') /\ dev'.answer = <<>> /\ dev'.file = d.file
       /\ Landed(dev', wrf') <=> Landed(d, wrf')
       /\ InPlace(dev', wrf') <=> InPlace(d, wrf')
  <2>. HIDE DEF d, c, runs, active
  <2>. QED
    BY <1>1, <1>15, ToldGoesOn DEF Result
<1>. HIDE DEF d, c, runs, active
<1>. QED
  BY <1>4, <1>5, <1>9, <1>15, <1>16 DEF Result, GoesOn

-----------------------------------------------------------------------------
ProgramType == [send : Seq(Symbol), step : {"idle", "latched", "taken", "strobed"},
                waits : BOOLEAN, started : BOOLEAN]

\* The openers on their way, of a program p, an input x and a device d.
OnItsWay(p, x, d) ==
  /\ \A i \in DOMAIN p.send : Opener(p.send[i]) =>
       i = 1 /\ p.step # "strobed" /\ d.file = NoFile
  /\ p.step = "strobed" /\ Opener(x) => d.file = NoFile
  /\ ~p.started => x = Nothing /\ p.step = "idle" /\ p.send = <<>>

LEMMA FileInvParts ==
  FileInv <=> /\ DeviceOK(dev) /\ dev.answer = <<>> /\ root \in STRING
              /\ cmd.op = "WRF" => cmd \in [op : {"WRF"}, n : Int]
              /\ input \in Symbol /\ line \in Seq(Symbol) /\ program \in ProgramType
              /\ wrf \in Write \cup {NoWrf}
              /\ OnItsWay(program, input, dev)
              /\ GoesOn(dev, wrf, cmd, line)
BY DEF FileInv, VTyped, OpensOne, WrfGoesOn, WritesLand, GoesOn, Landed, InPlace, OnItsWay,
       ProgramType

LEMMA FileInvParts2 ==
  FileInv' <=> /\ DeviceOK(dev') /\ dev'.answer = <<>> /\ root' \in STRING
               /\ cmd'.op = "WRF" => cmd' \in [op : {"WRF"}, n : Int]
               /\ input' \in Symbol /\ line' \in Seq(Symbol) /\ program' \in ProgramType
               /\ wrf' \in Write \cup {NoWrf}
               /\ OnItsWay(program', input', dev')
               /\ GoesOn(dev', wrf', cmd', line')
BY DEF FileInv, VTyped, OpensOne, WrfGoesOn, WritesLand, GoesOn, Landed, InPlace, OnItsWay,
       ProgramType, DeviceOK, Opener, Symbol

LEMMA NothingIsNoOpener == ~Opener(Nothing) /\ ~Opener(CR) /\ Nothing \in Symbol /\ CR \in Symbol
BY DEF Opener, Nothing, CR, Symbol

LEMMA NothingIsSeq ==
  /\ \A S : <<>> \in Seq(S)
  /\ DOMAIN (<<>>) = {}
<1>1. ASSUME NEW S
      PROVE  <<>> \in Seq(S)
  BY EmptySeq
<1>2. DOMAIN (<<>>) = {}
  OBVIOUS
<1>. QED
  BY <1>1, <1>2

LEMMA FileInvInit ==
  ASSUME VDIPAssumption, Init
  PROVE  FileInv
<1>. USE DEF Init
<1>1. PICK h \in Hosts : dev = [cwd |-> <<>>, file |-> NoFile, short |-> FALSE,
                                binary |-> TRUE, host |-> h, answer |-> <<>>]
  OBVIOUS
<1>2. DOMAIN h \subseteq Seq(STRING) /\ h \in [DOMAIN h -> Entry]
  BY DEF VDIPAssumption
<1>3. h \in [DOMAIN h -> Stored]
  <2>1. ASSUME NEW s \in Seq(STRING)
        PROVE  s \in Seq(Byte)
    <3>1. s \in [1 .. Len(s) -> STRING] /\ Len(s) \in Nat
      BY LenProperties
    <3>2. s \in [1 .. Len(s) -> Byte]
      BY <3>1 DEF Byte
    <3>. QED
      BY <3>1, <3>2, FunctionIsSeq
  <2>2. Entry \subseteq Stored
    BY <2>1 DEF Entry, Stored
  <2>. QED
    BY <1>2, <2>2
<1>4. <<>> \in Seq(STRING) /\ <<>> \in Seq(Symbol) /\ DOMAIN (<<>>) = {}
  BY NothingIsSeq
<1>5. DeviceOK(dev) /\ dev.answer = <<>> /\ dev.file = NoFile
  BY <1>1, <1>2, <1>3, <1>4 DEF DeviceOK
<1>6. program \in ProgramType /\ OnItsWay(program, input, dev)
  BY <1>4, NothingIsNoOpener DEF Program, ProgramType, OnItsWay
<1>7. GoesOn(dev, wrf, cmd, line)
  BY DEF GoesOn, Landed, InPlace
<1>. QED
  BY <1>4, <1>5, <1>6, <1>7, NothingIsNoOpener, FileInvParts DEF VDIPAssumption, NoCommand

\* The byte that arrived is no opener that is still on its way.
LEMMA ArrivedKeeps ==
  ASSUME VDIPAssumption, FileInv, NEW due, Arrived(input, due),
         Opener(input) => dev.file = NoFile, root' = root, program' \in ProgramType,
         program'.send = program.send, program'.step # "strobed", program'.started,
         \A i \in DOMAIN program.send : ~Opener(program.send[i])
  PROVE  FileInv'
<1>1. OnItsWay(program', input', dev')
  BY DEF OnItsWay
<1>2. input' \in Symbol
  BY ArrivedGoesOn, FileInvParts, NothingIsNoOpener
<1>. QED
  BY <1>1, <1>2, ArrivedGoesOn, FileInvParts, FileInvParts2

\* The rest of the program's steps, and of the module's, leave the files alone.
Sent(c, data) ==
  (IF c.op = "EMPTY" THEN <<CR>> ELSE IF c.n = 13 THEN <<c, CR, CR>> ELSE <<c, CR>>)
  \o [i \in DOMAIN data |-> Data(data[i])]

LEMMA SentIsTyped ==
  ASSUME VDIPAssumption, NEW c \in Commands, NEW n \in Nat, NEW data \in [1 .. n -> Bytes]
  PROVE  /\ Sent(c, data) \in Seq(Symbol)
         /\ \A i \in DOMAIN Sent(c, data) : Opener(Sent(c, data)[i]) => i = 1 /\ Opener(c)
<1>. DEFINE l == IF c.op = "EMPTY" THEN <<CR>>
                 ELSE IF c.n = 13 THEN <<c, CR, CR>> ELSE <<c, CR>>
            bytes == [i \in DOMAIN data |-> Data(data[i])]
            s == Sent(c, data)
<1>1. bytes \in [1 .. n -> Symbol]
  BY DEF Symbol
<1>2. \A i \in 1 .. n : ~Opener(bytes[i])
  BY DEF Data, Opener
<1>. HIDE DEF bytes
<1>3. bytes \in Seq(Symbol) /\ Len(bytes) = n
  BY <1>1, FunctionIsSeq
<1>4. c \in Symbol /\ CR \in Symbol
  BY DEF Symbol
<1>5. l \in Seq(Symbol) /\ Len(l) \in 1 .. 3
  <2>1. CASE c.op = "EMPTY"
    BY <1>4, <2>1
  <2>2. CASE c.op # "EMPTY" /\ c.n = 13
    BY <1>4, <2>2
  <2>3. CASE c.op # "EMPTY" /\ c.n # 13
    BY <1>4, <2>3
  <2>. QED
    BY <2>1, <2>2, <2>3
<1>6. \A i \in 1 .. Len(l) : Opener(l[i]) => i = 1 /\ Opener(c)
  BY NothingIsNoOpener
<1>. HIDE DEF l
<1>7. s = l \o bytes
  BY DEF l, bytes, Sent
<1>. HIDE DEF s
<1>8. /\ s \in Seq(Symbol) /\ Len(s) = Len(l) + Len(bytes)
      /\ \A i \in 1 .. Len(l) + Len(bytes) :
           s[i] = IF i <= Len(l) THEN l[i] ELSE bytes[i - Len(l)]
  <2>1. l \o bytes \in Seq(Symbol)
    BY <1>3, <1>5, ConcatProperties
  <2>2. Len(l \o bytes) = Len(l) + Len(bytes)
    BY <1>3, <1>5, ConcatProperties
  <2>3. \A i \in 1 .. Len(l) + Len(bytes) :
          (l \o bytes)[i] = IF i <= Len(l) THEN l[i] ELSE bytes[i - Len(l)]
    BY <1>3, <1>5, ConcatProperties
  <2>. QED
    BY <1>7, <2>1, <2>2, <2>3
<1>9. ASSUME NEW i \in DOMAIN s, Opener(s[i])
      PROVE  i = 1 /\ Opener(c)
  <2>1. i \in 1 .. Len(l) + n /\ i \in Nat /\ Len(l) \in Nat
    BY <1>3, <1>5, <1>8, LenProperties
  <2>2. s[i] = IF i <= Len(l) THEN l[i] ELSE bytes[i - Len(l)]
    BY <1>3, <1>8, <2>1
  <2>3. i <= Len(l)
    <3>. SUFFICES ASSUME ~(i <= Len(l))
                  PROVE  FALSE
      OBVIOUS
    <3>1. i - Len(l) \in 1 .. n
      BY <2>1
    <3>. QED
      BY <1>2, <1>9, <2>2, <3>1
  <2>. QED
    BY <1>6, <1>9, <2>1, <2>2, <2>3
<1>. QED
  BY <1>8, <1>9 DEF s

LEMMA ProgramKeeps ==
  ASSUME FileInv, program' \in ProgramType, OnItsWay(program', input', dev),
         input' \in Symbol, root' \in STRING,
         UNCHANGED <<line, cmd, dev, wrf>>
  PROVE  FileInv'
BY FileInvParts, FileInvParts2

LEMMA FreshKeeps ==
  ASSUME FileInv, dev' = Fresh(dev), input' = Nothing, line' = <<>>, root' = root,
         UNCHANGED <<cmd, wrf>>, program' = program \/ program' = Program,
         program'.step = "idle"
  PROVE  FileInv'
<1>1. DeviceOK(dev') /\ dev'.answer = <<>> /\ dev'.file = NoFile
  <2>1. <<>> \in Seq(STRING)
    OBVIOUS
  <2>. QED
    BY <2>1, FileInvParts DEF Fresh, DeviceOK
<1>2. <<>> \in Seq(Symbol) /\ DOMAIN (<<>>) = {}
  BY NothingIsSeq
<1>3. program' \in ProgramType /\ OnItsWay(program', input', dev')
  <2>1. CASE program' = Program
    BY <1>1, <1>2, <2>1, NothingIsNoOpener DEF Program, ProgramType, OnItsWay
  <2>2. CASE program' = program
    BY <1>1, <2>2, FileInvParts, NothingIsNoOpener DEF OnItsWay
  <2>. QED
    BY <2>1, <2>2
<1>4. GoesOn(dev', wrf', cmd', line')
  <2>1. wrf # NoWrf => dev'.file.path # wrf.path
    BY <1>1, FileInvParts DEF Write, NoFile
  <2>. QED
    BY <2>1 DEF GoesOn, Landed, InPlace
<1>. QED
  BY <1>1, <1>2, <1>3, <1>4, FileInvParts, FileInvParts2, NothingIsNoOpener

LEMMA FileInvNext ==
  ASSUME VDIPAssumption, FileInv, [Next]_vars
  PROVE  FileInv'
<1>0. program \in ProgramType /\ OnItsWay(program, input, dev) /\ root \in STRING
      /\ input \in Symbol
  BY FileInvParts
<1>1. CASE Start
  <2>1. input = Nothing /\ program.step = "idle" /\ program.send = <<>>
    BY <1>0, <1>1 DEF Start, OnItsWay
  <2>2. \A i \in DOMAIN program.send : ~Opener(program.send[i])
    <3>1. DOMAIN (<<>>) = {}
      OBVIOUS
    <3>. QED
      BY <2>1, <3>1
  <2>3. program' \in ProgramType /\ program'.send = program.send /\ program'.step = "idle"
        /\ program'.started
    BY <1>0, <1>1, <2>1 DEF Start, ProgramType
  <2>. QED
    BY <1>1, <2>1, <2>2, <2>3, ArrivedKeeps, NothingIsNoOpener DEF Start
<1>2. CASE LatchByte
  <2>1. program' \in ProgramType /\ OnItsWay(program', input, dev)
    BY <1>0, <1>2 DEF LatchByte, ProgramType, OnItsWay
  <2>. QED
    BY <1>0, <1>2, <2>1, ProgramKeeps DEF LatchByte, history
<1>3. CASE ReadByte
  <2>1. program' \in ProgramType /\ OnItsWay(program', input, dev)
    BY <1>0, <1>3 DEF ReadByte, ProgramType, OnItsWay
  <2>. QED
    BY <1>0, <1>3, <2>1, ProgramKeeps DEF ReadByte, port
<1>4. CASE ReadEnd
  <2>1. program.step = "taken" /\ program'.step = "idle" /\ program'.started = program.started
        /\ program' \in ProgramType /\ program'.send \in {<<>>, program.send}
    <3>1. <<>> \in Seq(Symbol)
      OBVIOUS
    <3>. DEFINE w == program.waits /\ program.send # <<>> /\ ~Refused
    <3>2. w \in BOOLEAN
      BY <1>0 DEF ProgramType, Refused
    <3>3. \/ program' = [program EXCEPT !.step = "idle"]
          \/ program' = [program EXCEPT !.step = "idle", !.waits = w,
                           !.send = IF Refused THEN <<>> ELSE @]
      BY <1>4 DEF ReadEnd
    <3>. HIDE DEF w
    <3>. QED
      BY <1>0, <1>4, <3>1, <3>2, <3>3 DEF ReadEnd, ProgramType
  <2>2. OnItsWay(program', input, dev)
    <3>1. DOMAIN (<<>>) = {}
      OBVIOUS
    <3>. QED
      BY <1>0, <2>1, <3>1 DEF OnItsWay
  <2>. QED
    BY <1>0, <1>4, <2>1, <2>2, ProgramKeeps DEF ReadEnd, buffers, history
<1>5. CASE Ignore
  BY <1>0, <1>5, ProgramKeeps DEF Ignore, buffers, history
<1>6. CASE WriteByte
  <2>1. program.send # <<>> /\ program.send \in Seq(Symbol) /\ input' = Head(program.send)
        /\ program' = [program EXCEPT !.step = "strobed", !.send = Tail(@)]
    BY <1>0, <1>6 DEF WriteByte, ProgramType
  <2>2. /\ input' \in Symbol /\ input' = program.send[1]
        /\ Tail(program.send) \in Seq(Symbol) /\ 1 \in DOMAIN program.send
        /\ \A i \in DOMAIN Tail(program.send) :
             i + 1 \in DOMAIN program.send /\ i + 1 # 1
             /\ Tail(program.send)[i] = program.send[i + 1]
    BY <2>1, HeadTailProperties, LenProperties
  <2>3. program' \in ProgramType /\ program'.send = Tail(program.send)
        /\ program'.started = program.started /\ program.started
    BY <1>0, <1>6, <2>1, <2>2 DEF ProgramType, WriteByte
  <2>4. OnItsWay(program', input', dev)
    BY <1>0, <2>2, <2>3 DEF OnItsWay
  <2>. QED
    BY <1>0, <1>6, <2>2, <2>3, <2>4, ProgramKeeps DEF WriteByte, history
<1>7. CASE WriteEnd
  <2>1. program.step = "strobed" /\ (Opener(input) => dev.file = NoFile) /\ program.started
        /\ \A i \in DOMAIN program.send : ~Opener(program.send[i])
    BY <1>0, <1>7 DEF WriteEnd, OnItsWay
  <2>2. program' \in ProgramType /\ program'.send = program.send /\ program'.step = "idle"
        /\ program'.started = program.started
    BY <1>0, <1>7 DEF WriteEnd, ProgramType
  <2>. QED
    BY <1>7, <2>1, <2>2, ArrivedKeeps DEF WriteEnd
<1>8. CASE SendLine
  <2>1. PICK c \in Commands :
          /\ c.op \in {"OPR", "OPW"} => dev.file = NoFile
          /\ \E data \in [1 .. (IF c.op = "WRF" THEN c.n ELSE 0) -> Bytes] :
               program' = [program EXCEPT !.waits = TRUE,
                 !.send = (IF c.op = "EMPTY" THEN <<CR>>
                           ELSE IF c.n = 13 THEN <<c, CR, CR>> ELSE <<c, CR>>)
                          \o [i \in DOMAIN data |-> Data(data[i])]]
    BY <1>8 DEF SendLine
  <2>. DEFINE n == IF c.op = "WRF" THEN c.n ELSE 0
  <2>2. n \in Nat
    BY DEF VDIPAssumption
  <2>. HIDE DEF n
  <2>3. PICK data \in [1 .. n -> Bytes] :
          program' = [program EXCEPT !.waits = TRUE, !.send = Sent(c, data)]
    BY <2>1 DEF n, Sent
  <2>. DEFINE s == Sent(c, data)
  <2>4. s \in Seq(Symbol) /\ \A i \in DOMAIN s : Opener(s[i]) => i = 1 /\ Opener(c)
    BY <2>2, SentIsTyped
  <2>5. program' = [program EXCEPT !.waits = TRUE, !.send = s]
    BY <2>3
  <2>. HIDE DEF s
  <2>6. /\ program' \in ProgramType /\ program'.send = s /\ program'.step = "idle"
        /\ program'.started
    BY <1>0, <1>8, <2>4, <2>5 DEF SendLine, ProgramType
  <2>7. OnItsWay(program', input, dev)
    BY <2>1, <2>4, <2>6 DEF OnItsWay, Opener
  <2>. QED
    BY <1>0, <1>8, <2>6, <2>7, ProgramKeeps DEF SendLine, buffers
<1>9. CASE Strobe
  BY <1>0, <1>9, ProgramKeeps DEF Strobe, buffers, history
<1>10. CASE SetRoot
  <2>1. root' \in STRING
    BY <1>10 DEF SetRoot, VDIPAssumption
  <2>. QED
    BY <1>0, <1>10, <2>1, ProgramKeeps DEF SetRoot
<1>11. CASE SwitchOn
  BY <1>11, FreshKeeps DEF SwitchOn, Program
<1>12. CASE SwitchOff
  BY <1>12, FreshKeeps DEF SwitchOff
<1>13. CASE UNCHANGED vars
  BY <1>0, <1>13, ProgramKeeps DEF vars, buffers, history
<1>. QED
  BY <1>1, <1>2, <1>3, <1>4, <1>5, <1>6, <1>7, <1>8, <1>9, <1>10, <1>11, <1>12, <1>13
     DEF Next, Guest

\* The device has one open file, the one a WRF found open, and the bytes of a WRF that goes
\* on are where the next of them belongs (vdip_cmd.cc).
THEOREM FilesAreKept == Spec => []FileInv
<1>1. Init => FileInv
  BY FileInvInit, VDIPIsAssumed
<1>2. FileInv /\ [Next]_vars => FileInv'
  BY FileInvNext, VDIPIsAssumed
<1>. QED
  BY <1>1, <1>2, PTL DEF Spec

\* While a file is open, what a WRF wrote to it is there, byte by byte, whatever commands,
\* switchings and roots came in between: vdip_cmd.cc's WRF, handle_input and write_end.
THEOREM WrittenLands == Spec => []WritesLand
<1>1. FileInv => WritesLand
  BY DEF FileInv
<1>. QED
  BY <1>1, FilesAreKept, PTL
=============================================================================
