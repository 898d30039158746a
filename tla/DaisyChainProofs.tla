-------------------------- MODULE DaisyChainProofs --------------------------
(***************************************************************************)
(* Proofs about DaisyChain, for a chain of any length, any behaviour of    *)
(* its devices and any guest program.                                      *)
(*                                                                         *)
(* The inductive invariant is IInv: the types, the closed form of every    *)
(* iei, and what the last sweep of a RETI has established in front of the  *)
(* circuit it visits next.                                                 *)
(***************************************************************************)
EXTENDS DaisyChain, TLAPS

Idle == pc \in {"step", "int", "callbacks"}

\* Circuit q is out of the temporary state and its request, if it is selected,
\* has reached the processor.
Settled(q) == /\ ~ieo_reti[q]
              /\ irqreq[q] /\ iei[q] => q \in irq_line

\* Between instructions every circuit is settled; in the last sweep, those the
\* sweep has left behind.
SettledInv ==
  /\ Idle => \A q \in IC : Settled(q)
  /\ pc = "4D_post" => \A q \in IC : q < pos => Settled(q)

IInv == TypeOK /\ ChainForm /\ SettledInv /\ RequestXorActive

-----------------------------------------------------------------------------
(***************************************************************************)
(* Types.                                                                  *)
(***************************************************************************)

\* A ripple yields a function of the right type.
LEMMA RippleType ==
  ASSUME iei \in [IC -> BOOLEAN], NEW p \in IC, Ripple(p)
  PROVE  iei' \in [IC -> BOOLEAN]
BY DEF Ripple

\* The position of a sweep stays in the chain.
LEMMA AdvanceType ==
  ASSUME NEW p \in IC, pos = p, pc \in {"ED", "4D_pre", "4D_post"},
         \/ pc = "ED" /\ Advance(1, p - 1, "4D_pre", N)
         \/ pc = "4D_pre" /\ Advance(1, p - 1, "4D_post", 1)
         \/ pc = "4D_post" /\ Advance(N, p + 1, "int", 0)
  PROVE  /\ pc' \in {"step", "ED", "4D_pre", "4D_post", "int", "callbacks"}
         /\ pc' \in {"ED", "4D_pre", "4D_post"} => pos' \in IC
BY NAssumption DEF Advance, IC

LEMMA EmptyStack == <<>> \in Seq(IC)
OBVIOUS

\* A step keeps the types.
LEMMA TypeKept ==
  ASSUME TypeOK, [Next]_vars
  PROVE  TypeOK'
<1> USE DEF TypeOK
<1>1. ASSUME NEW p \in IC, Irq(p) PROVE TypeOK'
  BY <1>1, RippleType DEF Irq, irq, Request, flags, cpu, loop
<1>2. CASE EI
  BY <1>2 DEF EI, flags
<1>3. CASE DI
  BY <1>3 DEF DI, flags
<1>4. CASE Other
  BY <1>4 DEF Other, flags, cpu
<1>5. CASE RetI
  <2>1. isr' \in Seq(IC)
    BY <1>5 DEF RetI
  <2>2. N \in IC
    BY NAssumption DEF IC
  <2> QED
    BY <1>5, <2>1, <2>2 DEF RetI, flags
<1>6. ASSUME NEW p \in IC, SweepED(p) PROVE TypeOK'
  BY <1>6, RippleType, AdvanceType DEF SweepED, flags, cpu
<1>7. ASSUME NEW p \in IC, NEW again \in BOOLEAN, Sweep4DPre(p, again)
      PROVE  TypeOK'
  BY <1>7, RippleType, AdvanceType DEF Sweep4DPre, flags, cpu
<1>8. ASSUME NEW p \in IC, Sweep4DPost(p) PROVE TypeOK'
  BY <1>8, RippleType, AdvanceType DEF Sweep4DPost, flags, cpu
<1>9. CASE Pass
  BY <1>9 DEF Pass, flags, cpu
<1>10. ASSUME NEW p \in IC, NEW a \in DeviceAcks(p), Accept(p, a)
       PROVE  TypeOK'
  <2>1. a \in AckOutcomes
    BY AcksAssumption DEF DeviceAcks
  <2>2. isr' \in Seq(IC)
    BY <1>10 DEF Accept, Ack
  <2> QED
    BY <1>10, <2>1, <2>2 DEF Accept, Ack, AckOutcomes
<1>11. CASE Loop
  BY <1>11 DEF Loop, flags, cpu
<1>12. CASE Reset
  BY <1>12, EmptyStack DEF Reset, flags, loop
<1>13. CASE UNCHANGED vars
  BY <1>13 DEF vars, flags, cpu, loop
<1> QED
  BY <1>1, <1>2, <1>3, <1>4, <1>5, <1>6, <1>7, <1>8, <1>9, <1>10, <1>11,
     <1>12, <1>13 DEF Next, Run, Guest, Sweep, Check

\* Type correctness of every behaviour of the chain.
THEOREM TypeCorrect == Spec => []TypeOK
<1>1. Init => TypeOK
  BY EmptyStack DEF Init, TypeOK
<1>2. TypeOK /\ [Next]_vars => TypeOK'
  BY TypeKept
<1> QED
  BY <1>1, <1>2, PTL DEF Spec

-----------------------------------------------------------------------------
(***************************************************************************)
(* The closed form of the inputs.                                          *)
(***************************************************************************)

\* Only the flags of circuit p may change.
OnlyAt(p) == \A q \in IC \ {p} : /\ ieo_reti'[q] = ieo_reti[q]
                                 /\ irqreq'[q] = irqreq[q]
                                 /\ irqactive'[q] = irqactive[q]

\* One ripple behind the circuit whose flags changed restores the closed form
\* of the whole chain.
LEMMA RippleChainForm ==
  ASSUME ChainForm, NEW p \in IC, OnlyAt(p), Ripple(p)
  PROVE  ChainForm'
<1> DEFINE Through(r, q) == \A s \in (r + 1) .. (q - 1) : ~Busy(s)
<1> USE NAssumption DEF IC
<1> SUFFICES ASSUME NEW q \in IC
             PROVE  (iei[q] <=> \E r \in 0 .. (q - 1) :
                                  Drives(r) /\ Through(r, q))'
  BY DEF ChainForm
<1>1. \A r \in IC : r # p => /\ Busy(r)' <=> Busy(r)
                             /\ Drives(r)' <=> Drives(r)
  BY DEF OnlyAt, Busy, Drives
<1>2. Drives(0) /\ Drives(0)'
  BY DEF Drives
<1>3. CASE q <= p
  <2>1. iei'[q] = iei[q]
    BY <1>3 DEF Ripple
  <2>2. iei[q] <=> \E r \in 0 .. (q - 1) : Drives(r) /\ Through(r, q)
    BY DEF ChainForm
  <2>3. \A r \in 0 .. (q - 1) : /\ Drives(r)' <=> Drives(r)
                                /\ Through(r, q)' <=> Through(r, q)
    BY <1>1, <1>2, <1>3
  <2> QED
    BY <2>1, <2>2, <2>3
<1>4. CASE q > p
  <2>1. iei'[q] <=> \E r \in p .. (q - 1) :
                      /\ ieo_reti'[r] \/ (r = p /\ iei[p] /\ ~Busy(p)')
                      /\ \A s \in (r + 1) .. (q - 1) : ~Busy(s)'
    BY <1>4 DEF Ripple
  <2>2. iei[p] <=> \E r \in 0 .. (p - 1) : Drives(r) /\ Through(r, p)
    BY DEF ChainForm
  <2>3. ASSUME iei'[q]
        PROVE  \E r \in 0 .. (q - 1) : (Drives(r) /\ Through(r, q))'
    <3>1. PICK r \in p .. (q - 1) :
                 /\ ieo_reti'[r] \/ (r = p /\ iei[p] /\ ~Busy(p)')
                 /\ \A s \in (r + 1) .. (q - 1) : ~Busy(s)'
      BY <2>1, <2>3
    <3>2. CASE ieo_reti'[r]
      <4>1. r \in 0 .. (q - 1) /\ Drives(r)'
        BY <3>2 DEF Drives
      <4> QED
        BY <3>1, <4>1
    <3>3. CASE r = p /\ iei[p] /\ ~Busy(p)'
      <4>1. PICK d \in 0 .. (p - 1) : Drives(d) /\ Through(d, p)
        BY <2>2, <3>3
      <4>2. Drives(d)'
        BY <1>1, <1>2, <4>1
      <4>3. \A s \in (d + 1) .. (q - 1) : ~Busy(s)'
        <5> SUFFICES ASSUME NEW s \in (d + 1) .. (q - 1) PROVE ~Busy(s)'
          OBVIOUS
        <5>1. CASE s < p
          BY <1>1, <4>1, <5>1
        <5>2. CASE s = p
          BY <3>3, <5>2
        <5>3. CASE s > p
          BY <3>1, <3>3, <5>3
        <5> QED
          BY <5>1, <5>2, <5>3
      <4>4. d \in 0 .. (q - 1)
        BY <1>4
      <4> QED
        BY <4>2, <4>3, <4>4
    <3> QED
      BY <3>1, <3>2, <3>3
  <2>4. ASSUME NEW r \in 0 .. (q - 1), (Drives(r) /\ Through(r, q))'
        PROVE  iei'[q]
    <3>1. CASE r >= p
      <4>1. r \in p .. (q - 1) /\ ieo_reti'[r]
        BY <2>4, <3>1 DEF Drives
      <4> QED
        BY <2>1, <2>4, <4>1
    <3>2. CASE r < p
      <4>1. ~Busy(p)'
        BY <2>4, <3>2, <1>4
      <4>2. Drives(r) /\ Through(r, p)
        BY <1>1, <1>2, <1>4, <2>4, <3>2
      <4>3. iei[p]
        BY <2>2, <3>2, <4>2
      <4>4. \A s \in (p + 1) .. (q - 1) : ~Busy(s)'
        BY <2>4, <3>2
      <4>5. p \in p .. (q - 1)
        BY <1>4
      <4> QED
        BY <2>1, <4>1, <4>3, <4>4, <4>5
    <3> QED
      BY <3>1, <3>2
  <2> QED
    BY <2>3, <2>4
<1> QED
  BY <1>3, <1>4

\* A step that keeps the inputs, the temporary states and who is busy keeps
\* the closed form.
LEMMA SameChainForm ==
  ASSUME ChainForm, UNCHANGED <<iei, ieo_reti>>,
         \A q \in IC : Busy(q)' <=> Busy(q)
  PROVE  ChainForm'
<1> USE NAssumption DEF IC
<1>1. \A r \in 0 .. N : Drives(r)' <=> Drives(r)
  BY DEF Drives
<1> SUFFICES ASSUME NEW q \in IC
             PROVE  (iei[q] <=> \E r \in 0 .. (q - 1) :
                       Drives(r) /\ \A s \in (r + 1) .. (q - 1) : ~Busy(s))'
  BY DEF ChainForm
<1>2. iei[q] <=> \E r \in 0 .. (q - 1) :
                       Drives(r) /\ \A s \in (r + 1) .. (q - 1) : ~Busy(s)
  BY DEF ChainForm
<1> QED
  BY <1>1, <1>2

\* A circuit that is selected is busy and not in the temporary state.
LEMMA SelectedBusy ==
  ASSUME TypeOK, NEW p \in IC, Selected(p)
  PROVE  Busy(p) /\ ~ieo_reti[p] /\ iei[p]
BY DEF TypeOK, Selected, ieo, Busy

\* Once no circuit is in the temporary state, a high input means that nobody
\* in front is busy.
LEMMA InputMeansFree ==
  ASSUME ChainForm, \A q \in IC : ~ieo_reti[q], NEW p \in IC
  PROVE  iei[p] <=> \A q \in 1 .. (p - 1) : ~Busy(q)
<1> USE NAssumption DEF IC
<1>1. iei[p] <=> \E r \in 0 .. (p - 1) :
                   Drives(r) /\ \A s \in (r + 1) .. (p - 1) : ~Busy(s)
  BY DEF ChainForm
<1>2. \A r \in 0 .. (p - 1) : Drives(r) <=> r = 0
  BY DEF Drives
<1> QED
  BY <1>1, <1>2

\* The same of the next state.
LEMMA InputMeansFreeNext ==
  ASSUME ChainForm', \A q \in IC : ~ieo_reti'[q], NEW p \in IC
  PROVE  iei'[p] <=> \A q \in 1 .. (p - 1) : ~Busy(q)'
<1> USE NAssumption DEF IC
<1>1. iei'[p] <=> \E r \in 0 .. (p - 1) :
                    Drives(r)' /\ \A s \in (r + 1) .. (p - 1) : ~Busy(s)'
  BY DEF ChainForm
<1>2. \A r \in 0 .. (p - 1) : Drives(r)' <=> r = 0
  BY DEF Drives
<1> QED
  BY <1>1, <1>2

-----------------------------------------------------------------------------
(***************************************************************************)
(* The inductive invariant, one operation of a circuit at a time.          *)
(***************************************************************************)

\* A request, while the chain is idle.
LEMMA IrqKeepsInv ==
  ASSUME IInv, TypeOK', Idle, NEW p \in IC, irq(p), UNCHANGED pc
  PROVE  (ChainForm /\ SettledInv /\ RequestXorActive)'
<1> USE DEF IInv, flags
<1>1. CASE Busy(p)
  <2>1. UNCHANGED <<iei, ieo_reti, irqreq, irqactive, irq_line>>
    BY <1>1 DEF irq
  <2>2. ChainForm'
    BY <2>1, SameChainForm DEF Busy
  <2> QED
    BY <2>1, <2>2 DEF SettledInv, Settled, RequestXorActive, Idle
<1>2. CASE ~Busy(p)
  <2>0. Request(p)
    BY <1>2 DEF irq
  <2>1. /\ irqreq'[p]
        /\ \A q \in IC : /\ ieo_reti'[q] = ieo_reti[q]
                         /\ irqactive'[q] = irqactive[q]
                         /\ q # p => irqreq'[q] = irqreq[q]
    BY <2>0 DEF Request, TypeOK
  <2>2. ChainForm'
    BY <2>0, <2>1, RippleChainForm DEF OnlyAt, Request
  <2>3. \A q \in IC : ~ieo_reti[q] /\ ~ieo_reti'[q]
    BY <2>1 DEF SettledInv, Settled
  <2>4. ASSUME NEW q \in IC PROVE Settled(q)'
    <3>1. CASE q < p
      <4>1. iei'[q] = iei[q] /\ irqreq'[q] = irqreq[q]
        <5>1. q <= p /\ q # p
          BY <3>1 DEF IC
        <5> QED
          BY <2>0, <2>1, <5>1 DEF Request, Ripple
      <4>2. Settled(q)
        BY DEF SettledInv
      <4> QED
        BY <2>0, <2>3, <4>1, <4>2 DEF Settled, Request
    <3>2. CASE q = p
      <4>1. iei'[p] = iei[p]
        BY <2>0 DEF Request, Ripple, IC
      <4>2. iei[p] => ~ieo(p)'
        BY <2>1, <2>3 DEF ieo, Busy
      <4> QED
        BY <2>0, <2>3, <3>2, <4>1, <4>2 DEF Settled, Request
    <3>3. CASE q > p
      <4>1. p \in 1 .. (q - 1)
        BY <3>3 DEF IC
      <4>2. Busy(p)'
        BY <2>1 DEF Busy
      <4>3. ~iei'[q]
        BY <2>2, <2>3, <4>1, <4>2, InputMeansFreeNext
      <4> QED
        BY <2>3, <4>3 DEF Settled
    <3> QED
      BY <3>1, <3>2, <3>3 DEF IC
  <2>5. RequestXorActive'
    BY <1>2, <2>1 DEF RequestXorActive, Busy
  <2> QED
    BY <2>2, <2>4, <2>5 DEF SettledInv, Idle
<1> QED
  BY <1>1, <1>2

\* A visit of the first sweep.  Nothing is settled while it runs.
LEMMA SweepEDKeepsInv ==
  ASSUME IInv, NEW p \in IC, SweepED(p)
  PROVE  (ChainForm /\ SettledInv /\ RequestXorActive)'
<1> USE DEF IInv, SweepED, flags
<1>1. UNCHANGED <<irqreq, irqactive>>
  OBVIOUS
<1>2. pc' \in {"ED", "4D_pre"}
  BY DEF Advance
<1>3. ChainForm'
  <2>1. CASE Selected(p) /\ ~irqactive[p]
    <3>1. OnlyAt(p) /\ Ripple(p)
      BY <2>1 DEF OnlyAt, TypeOK
    <3> QED
      BY <3>1, RippleChainForm
  <2>2. CASE ~(Selected(p) /\ ~irqactive[p])
    BY <2>2, SameChainForm DEF Busy
  <2> QED
    BY <2>1, <2>2
<1> QED
  BY <1>1, <1>2, <1>3 DEF SettledInv, RequestXorActive, Idle

\* A visit of the second sweep.  The last sweep has settled nobody yet when it
\* begins, at the front of the chain.
LEMMA Sweep4DPreKeepsInv ==
  ASSUME IInv, NEW p \in IC, NEW again \in BOOLEAN, Sweep4DPre(p, again)
  PROVE  (ChainForm /\ SettledInv /\ RequestXorActive)'
<1> USE DEF IInv, Sweep4DPre, flags
<1>1. \/ pc' = "4D_pre"
      \/ pc' = "4D_post" /\ pos' = 1
  BY DEF Advance
<1>2. CASE Selected(p) /\ irqactive[p]
  <2>1. OnlyAt(p) /\ Ripple(p)
    BY <1>2 DEF OnlyAt, TypeOK
  <2>2. RequestXorActive'
    BY <1>2, <2>1 DEF OnlyAt, RequestXorActive, TypeOK
  <2> QED
    BY <1>1, <2>1, <2>2, RippleChainForm DEF SettledInv, Idle, IC
<1>3. CASE ~(Selected(p) /\ irqactive[p])
  <2>1. ChainForm'
    BY <1>3, SameChainForm DEF Busy
  <2> QED
    BY <1>1, <1>3, <2>1 DEF SettledInv, Idle, RequestXorActive, IC
<1> QED
  BY <1>2, <1>3

\* A visit of the last sweep settles the circuit it visits.
LEMMA Sweep4DPostKeepsInv ==
  ASSUME IInv, NEW p \in IC, Sweep4DPost(p)
  PROVE  (ChainForm /\ SettledInv /\ RequestXorActive)'
<1> USE DEF IInv
<1>1. /\ pc = "4D_post" /\ pos = p
      /\ UNCHANGED <<irqreq, irqactive>>
      /\ irq_line \subseteq irq_line'
  BY DEF Sweep4DPost
<1>2. /\ ~ieo_reti'[p]
      /\ \A q \in IC : q # p => ieo_reti'[q] = ieo_reti[q]
  BY DEF Sweep4DPost, TypeOK
<1>3. ChainForm'
  <2>1. CASE ieo_reti[p] \/ irqreq[p]
    <3>1. OnlyAt(p) /\ Ripple(p)
      BY <1>1, <1>2, <2>1 DEF OnlyAt, Sweep4DPost
    <3> QED
      BY <3>1, RippleChainForm
  <2>2. CASE ~(ieo_reti[p] \/ irqreq[p])
    <3>1. UNCHANGED iei
      BY <2>2 DEF Sweep4DPost
    <3>2. UNCHANGED ieo_reti
      BY <2>2 DEF Sweep4DPost, TypeOK
    <3> QED
      BY <1>1, <3>1, <3>2, SameChainForm DEF Busy
  <2> QED
    BY <2>1, <2>2
<1>4. \A q \in IC : q <= p => iei'[q] = iei[q]
  BY DEF Sweep4DPost, Ripple
<1>5. \A q \in IC : q <= p => Settled(q)'
  <2> SUFFICES ASSUME NEW q \in IC, q <= p PROVE Settled(q)'
    OBVIOUS
  <2>1. CASE q < p
    <3>1. Settled(q)
      BY <1>1, <2>1 DEF SettledInv
    <3> QED
      BY <1>1, <1>2, <1>4, <2>1, <3>1 DEF Settled, IC
  <2>2. CASE q = p
    <3>1. irqreq[p] => ~ieo(p)'
      BY <1>1, <1>2 DEF ieo, Busy
    <3> QED
      BY <1>1, <1>2, <1>4, <2>2, <3>1 DEF Settled, Sweep4DPost
  <2> QED
    BY <2>1, <2>2 DEF IC
<1>6. \/ pc' = "4D_post" /\ pos' = p + 1
      \/ pc' = "int" /\ p = N
  BY <1>1 DEF Sweep4DPost, Advance
<1>7. SettledInv'
  BY <1>5, <1>6 DEF SettledInv, Idle, IC
<1> QED
  BY <1>1, <1>3, <1>7 DEF RequestXorActive

\* An acknowledge.
LEMMA AcceptKeepsInv ==
  ASSUME IInv, NEW p \in IC, NEW a \in DeviceAcks(p), Accept(p, a)
  PROVE  (ChainForm /\ SettledInv /\ RequestXorActive)'
<1> USE DEF IInv
<1>1. /\ Selected(p)
      /\ UNCHANGED <<iei, ieo_reti>>
      /\ pc = "int" /\ pc' = "callbacks"
      /\ \A q \in IC : q # p /\ q \in irq_line => q \in irq_line'
  BY DEF Accept, Ack, Acknowledging, Interruptible
<1>2. /\ ~irqreq'[p] /\ irqactive'[p]
      /\ \A q \in IC : q # p => /\ irqreq'[q] = irqreq[q]
                                /\ irqactive'[q] = irqactive[q]
  BY DEF Accept, Ack, TypeOK
<1>3. \A q \in IC : Busy(q)' <=> Busy(q)
  BY <1>1, <1>2, SelectedBusy DEF Busy
<1>4. ChainForm'
  BY <1>1, <1>3, SameChainForm
<1>5. \A q \in IC : Settled(q)'
  BY <1>1, <1>2 DEF SettledInv, Settled, Idle
<1> QED
  BY <1>1, <1>2, <1>4, <1>5 DEF SettledInv, Idle, RequestXorActive

\* A step that leaves the chain alone and starts no sweep but the first.
LEMMA RestKeepsInv ==
  ASSUME IInv, UNCHANGED <<iei, flags, irq_line>>,
         \/ Idle /\ pc' \in {"step", "int", "callbacks", "ED"}
         \/ UNCHANGED <<pc, pos>>
  PROVE  (ChainForm /\ SettledInv /\ RequestXorActive)'
<1> USE DEF IInv, flags
<1>1. ChainForm'
  BY SameChainForm DEF Busy
<1> QED
  BY <1>1 DEF SettledInv, Settled, Idle, RequestXorActive

-----------------------------------------------------------------------------
(***************************************************************************)
(* The theorems.                                                           *)
(***************************************************************************)

\* The invariant holds at first, and every step keeps it.
LEMMA InvBegins ==
  ASSUME Init
  PROVE  IInv
<1>1. TypeOK
  BY EmptyStack DEF Init, TypeOK
<1>2. ChainForm
  <2> SUFFICES ASSUME NEW q \in IC
               PROVE  \E r \in 0 .. (q - 1) :
                        Drives(r) /\ \A s \in (r + 1) .. (q - 1) : ~Busy(s)
    BY DEF Init, ChainForm
  <2>1. 0 \in 0 .. (q - 1) /\ Drives(0)
    BY DEF IC, Drives
  <2>2. \A s \in (0 + 1) .. (q - 1) : ~Busy(s)
    BY NAssumption DEF Init, Busy, IC
  <2> QED
    BY <2>1, <2>2
<1> QED
  BY <1>1, <1>2 DEF Init, IInv, SettledInv, Settled, Idle, RequestXorActive

LEMMA InvKept ==
  ASSUME IInv, [Next]_vars
  PROVE  IInv'
<1> SUFFICES ASSUME TypeOK'
             PROVE  (ChainForm /\ SettledInv /\ RequestXorActive)'
  BY TypeKept DEF IInv
<1>1. ASSUME NEW p \in IC, Irq(p)
      PROVE  (ChainForm /\ SettledInv /\ RequestXorActive)'
  BY <1>1, IrqKeepsInv DEF Irq, Idle, loop
<1>2. CASE Guest
  BY <1>2, RestKeepsInv DEF Guest, EI, DI, Other, RetI, Idle
<1>3. CASE Sweep
  BY <1>3, SweepEDKeepsInv, Sweep4DPreKeepsInv, Sweep4DPostKeepsInv DEF Sweep
<1>4. CASE Check
  BY <1>4, AcceptKeepsInv, RestKeepsInv DEF Check, Pass, Idle
<1>5. CASE Loop
  BY <1>5, RestKeepsInv DEF Loop, Idle
<1>6. CASE Reset
  BY <1>6, RestKeepsInv DEF Reset, loop
<1>7. CASE UNCHANGED vars
  BY <1>7, RestKeepsInv DEF vars, loop
<1> QED
  BY <1>1, <1>2, <1>3, <1>4, <1>5, <1>6, <1>7 DEF Next, Run

\* IInv is an invariant of every behaviour of the chain.
THEOREM Invariance == Spec => []IInv
<1>1. Init => IInv
  BY InvBegins
<1>2. IInv /\ [Next]_vars => IInv'
  BY InvKept
<1> QED
  BY <1>1, <1>2, PTL DEF Spec

\* The closed form says that every input equals the output of the circuit in front.
LEMMA InvConsistent ==
  ASSUME IInv
  PROVE  ChainConsistent
<1> USE NAssumption DEF IInv, IC
<1>1. iei[1]
  <2>1. 1 \in IC /\ 0 \in 0 .. (1 - 1) /\ Drives(0)
    BY DEF Drives
  <2>2. iei[1] <=> \E r \in 0 .. (1 - 1) :
                     Drives(r) /\ \A s \in (r + 1) .. (1 - 1) : ~Busy(s)
    BY <2>1 DEF ChainForm
  <2> QED
    BY <2>1, <2>2
<1>2. ASSUME NEW q \in 1 .. (N - 1) PROVE iei[q + 1] <=> ieo(q)
  <2> DEFINE Open(p, r) == Drives(r) /\ \A s \in (r + 1) .. (p - 1) : ~Busy(s)
  <2>1. /\ iei[q] <=> \E r \in 0 .. (q - 1) : Open(q, r)
        /\ iei[q + 1] <=> \E r \in 0 .. ((q + 1) - 1) : Open(q + 1, r)
    BY DEF ChainForm
  <2>2. Open(q + 1, q) <=> ieo_reti[q]
    BY DEF Drives
  <2>3. \A r \in 0 .. (q - 1) : Open(q + 1, r) <=> Open(q, r) /\ ~Busy(q)
    <3> SUFFICES ASSUME NEW r \in 0 .. (q - 1)
                 PROVE  (\A s \in (r + 1) .. ((q + 1) - 1) : ~Busy(s))
                        <=> (\A s \in (r + 1) .. (q - 1) : ~Busy(s)) /\ ~Busy(q)
      OBVIOUS
    <3>1. (r + 1) .. ((q + 1) - 1) = ((r + 1) .. (q - 1)) \cup {q}
      OBVIOUS
    <3> QED
      BY <3>1
  <2>4. 0 .. ((q + 1) - 1) = (0 .. (q - 1)) \cup {q}
    OBVIOUS
  <2> HIDE DEF Open
  <2> QED
    BY <2>1, <2>2, <2>3, <2>4 DEF ieo
<1> QED
  BY <1>1, <1>2 DEF ChainConsistent

\* The cached input of every circuit equals the output of the one in front, in
\* every state.
THEOREM ChainIsConsistent == Spec => []ChainConsistent
BY InvConsistent, Invariance, PTL

\* A request that the chain does not hold back has reached the processor.
THEOREM RequestsAreNotLost == Spec => []NoLostRequest
<1>1. IInv => NoLostRequest
  BY DEF IInv, SettledInv, Settled, Idle, NoLostRequest
<1> QED
  BY <1>1, Invariance, PTL

\* No circuit stays in the temporary state of a RETI.
THEOREM TemporaryStateEnds == Spec => []NoTemporaryState
<1>1. IInv => NoTemporaryState
  BY DEF IInv, SettledInv, Settled, Idle, NoTemporaryState
<1> QED
  BY <1>1, Invariance, PTL

\* An acknowledge goes to the busy circuit nearest to the front.
THEOREM AcknowledgeByPriority == Spec => AckByPriority
<1>1. IInv /\ [Next]_vars
        => [\A p \in IC : irqactive'[p] /\ ~irqactive[p]
              => irqreq[p] /\ \A q \in 1 .. (p - 1) : ~Busy(q)]_vars
  <2> SUFFICES ASSUME IInv, Next, NEW p \in IC, irqactive'[p], ~irqactive[p]
               PROVE  irqreq[p] /\ \A q \in 1 .. (p - 1) : ~Busy(q)
    OBVIOUS
  <2>1. Interruptible /\ Selected(p)
    <3> USE DEF IInv, TypeOK, flags
    <3>1. ASSUME NEW q \in IC, Irq(q) PROVE FALSE
      BY <3>1 DEF Irq, irq, Request
    <3>2. CASE Guest
      BY <3>2 DEF Guest, EI, DI, Other, RetI
    <3>3. CASE Sweep
      BY <3>3 DEF Sweep, SweepED, Sweep4DPre, Sweep4DPost
    <3>4. CASE Pass \/ Loop \/ Reset
      BY <3>4 DEF Pass, Loop, Reset
    <3>5. ASSUME NEW q \in IC, NEW a \in DeviceAcks(q), Accept(q, a)
          PROVE  Interruptible /\ Selected(p)
      BY <3>5 DEF Accept, Ack, Acknowledging
    <3> QED
      BY <3>1, <3>2, <3>3, <3>4, <3>5 DEF Next, Run, Check
  <2>2. \A q \in IC : ~ieo_reti[q]
    BY <2>1 DEF IInv, SettledInv, Settled, Idle, Interruptible
  <2>3. irqreq[p] /\ iei[p]
    BY <2>1, SelectedBusy DEF IInv, Busy
  <2> QED
    BY <2>2, <2>3, InputMeansFree DEF IInv
<1> QED
  BY <1>1, Invariance, PTL DEF Spec, AckByPriority
=============================================================================
