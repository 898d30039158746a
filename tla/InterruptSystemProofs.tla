------------------------ MODULE InterruptSystemProofs ------------------------
(***************************************************************************)
(* Theorems about InterruptSystem, for any number of PIOs, of channels and *)
(* of nested handlers.                                                     *)
(*                                                                         *)
(* The devices use the chain as DaisyChain allows, so that what is proved  *)
(* of the chain holds with the real devices: Facts is DaisyChainProofs     *)
(* with the chain of this module.  In a session without a reset, whose     *)
(* guest disables no interrupt, a circuit that requests has a channel or a *)
(* port that answers (WaitInv); with either of them, TLC finds one that    *)
(* has not.                                                                *)
(***************************************************************************)
EXTENDS InterruptSystem, FiniteSetTheorems, TLAPS

Facts == INSTANCE DaisyChainProofs WITH FreshAcks <- Outcomes, ReAcks <- Outcomes

-----------------------------------------------------------------------------
(***************************************************************************)
(* The devices use the chain as DaisyChain allows.                         *)
(***************************************************************************)

\* Every step of the devices is a step of the chain, or none.
LEMMA StepsOfChain ==
  ASSUME [Run \/ Reset]_vars
  PROVE  [Chain!Next]_(Chain!vars)
<1> USE NAssumption DEF Chain!vars, Chain!flags, Chain!cpu, Chain!loop, chain
<1>1. ASSUME NEW c \in Channel, TryTrigger(c)
      PROVE  [Chain!Next]_(Chain!vars)
  BY <1>1 DEF TryTrigger, Chain!Next, Chain!Run, Chain!IC, CTC
<1>2. CASE Devices
  <2>1. ASSUME NEW d \in PIOs, NEW p \in Port, Strobe(d, p)
        PROVE  Chain!Next
    BY <2>1 DEF Strobe, PIOs, Chain!Next, Chain!Run, Chain!IC
  <2> QED
    BY <1>1, <1>2, <2>1 DEF Devices, TimerZero, CounterZero
<1>3. CASE Guest
  BY <1>3 DEF Guest, CtcControl, PioControl, Chain!Next, Chain!Run, Chain!Guest
<1>4. CASE Sweep
  BY <1>4 DEF Sweep, Sweep4DPre, Chain!Next, Chain!Run, Chain!Sweep, Chain!IC
<1>5. CASE Check
  BY <1>5 DEF Check, Accept, Chain!Next, Chain!Run, Chain!Check, Chain!IC,
              Chain!DeviceAcks
<1>6. CASE Loop
  BY <1>6 DEF Loop, Chain!Next, Chain!Run
<1>7. CASE Reset
  BY <1>7 DEF Reset, Chain!Next
<1>8. CASE UNCHANGED vars
  BY <1>8 DEF vars
<1> QED
  BY <1>2, <1>3, <1>4, <1>5, <1>6, <1>7, <1>8 DEF Run

\* Facts speaks of the same chain.
LEMMA SameInit == Chain!Init => Facts!Init
BY DEF Chain!Init, Facts!Init, Chain!IC, Facts!IC

LEMMA SameSteps ==
  ASSUME [Chain!Next]_(Chain!vars)
  PROVE  [Facts!Next]_(Facts!vars)
<1> USE DEF Chain!IC, Facts!IC, Chain!vars, Facts!vars, Chain!flags,
            Facts!flags, Chain!cpu, Facts!cpu, Chain!loop, Facts!loop,
            Chain!ieo, Facts!ieo, Chain!Busy, Facts!Busy, Chain!Selected,
            Facts!Selected, Chain!Ripple, Facts!Ripple, Chain!Advance,
            Facts!Advance
<1>1. \A p \in 1 .. N : Chain!Irq(p) => Facts!Irq(p)
  BY DEF Chain!Irq, Facts!Irq, Chain!irq, Facts!irq, Chain!Request,
         Facts!Request
<1>2. Chain!Guest => Facts!Guest
  BY DEF Chain!Guest, Facts!Guest, Chain!EI, Facts!EI, Chain!DI, Facts!DI,
         Chain!Other, Facts!Other, Chain!RetI, Facts!RetI
<1>3. \A p \in 1 .. N : Chain!SweepED(p) => Facts!SweepED(p)
  BY DEF Chain!SweepED, Facts!SweepED
<1>4. \A p \in 1 .. N, again \in BOOLEAN :
        Chain!Sweep4DPre(p, again) => Facts!Sweep4DPre(p, again)
  BY DEF Chain!Sweep4DPre, Facts!Sweep4DPre
<1>5. \A p \in 1 .. N : Chain!Sweep4DPost(p) => Facts!Sweep4DPost(p)
  BY DEF Chain!Sweep4DPost, Facts!Sweep4DPost
<1>6. \A p \in 1 .. N, a \in Outcomes : Chain!Accept(p, a) => Facts!Accept(p, a)
  BY DEF Chain!Accept, Facts!Accept, Chain!Ack, Facts!Ack,
         Chain!Acknowledging, Facts!Acknowledging, Chain!Interruptible,
         Facts!Interruptible
<1>7. (Chain!Pass => Facts!Pass) /\ (Chain!Loop => Facts!Loop)
      /\ (Chain!Reset => Facts!Reset)
  BY DEF Chain!Pass, Facts!Pass, Chain!Loop, Facts!Loop, Chain!Reset,
         Facts!Reset, Chain!Interruptible, Facts!Interruptible
<1>8. CASE UNCHANGED Chain!vars
  BY <1>8
<1>9. CASE Chain!Next
  BY <1>1, <1>2, <1>3, <1>4, <1>5, <1>6, <1>7, <1>9
     DEF Chain!Next, Facts!Next, Chain!Run, Facts!Run, Chain!Guest,
         Facts!Guest, Chain!Sweep, Facts!Sweep, Chain!Check, Facts!Check,
         Chain!DeviceAcks, Facts!DeviceAcks
<1> QED
  BY <1>8, <1>9

\* CTC_Base::trigger_irq, irqack and reti and their counterparts of the PIO use the
\* chain as DaisyChain says: the safety of the refinement ChainSpec.
THEOREM DevicesUseChain == Spec => Chain!Init /\ [][Chain!Next]_(Chain!vars)
<1>1. Init => Chain!Init
  BY DEF Init
<1> QED
  BY <1>1, StepsOfChain, PTL DEF Spec

\* With the CTC and the PIOs, whatever they and the guest do: between instructions
\* a request that the chain does not hold back is known to the processor, and in
\* every state no circuit has a request and a handler at once.
THEOREM ChainKeepsItsPromises == Spec => [](Chain!NoLostRequest /\ Chain!RequestXorActive)
<1> DEFINE Inv == Facts!IInv
<1>1. Init => Inv
  BY SameInit, NAssumption, MaxNestAssumption, Facts!InvBegins
     DEF Init, Facts!AckOutcomes, Outcomes
<1>2. Inv /\ [Run \/ Reset]_vars => Inv'
  BY StepsOfChain, SameSteps, NAssumption, MaxNestAssumption, Facts!InvKept
     DEF Facts!AckOutcomes, Outcomes
<1>3. Inv => Chain!NoLostRequest /\ Chain!RequestXorActive
  BY DEF Facts!IInv, Facts!SettledInv, Facts!Settled, Facts!Idle,
         Facts!RequestXorActive, Chain!NoLostRequest, Chain!RequestXorActive,
         Facts!IC, Chain!IC
<1> QED
  BY <1>1, <1>2, <1>3, PTL DEF Spec

-----------------------------------------------------------------------------
(***************************************************************************)
(* A request gets its vector.                                              *)
(***************************************************************************)

\* The types of what the invariant speaks of.
DevicesTyped ==
  /\ irqreq \in [1 .. N -> BOOLEAN] /\ irqactive \in [1 .. N -> BOOLEAN]
  /\ ctc_enable \in [Channel -> BOOLEAN] /\ ctc_pending \in [Channel -> BOOLEAN]
  /\ pio_enable \in [PIOs -> [Port -> BOOLEAN]]
  /\ strobe \in [PIOs -> [Port -> BOOLEAN]]
  /\ pio_active \in [PIOs -> [Port -> BOOLEAN]]

\* A circuit that requests has a channel or a port that waits; what waits is
\* enabled, so that it is not forgotten when it is tried again; and port B is not
\* held back by a port A whose circuit has no handler.
WaitInv ==
  /\ \A c \in Channel : ctc_pending[c] => ctc_enable[c]
  /\ irqreq[CTC] => \E c \in Channel : ctc_pending[c]
  /\ \A d \in PIOs :
       /\ \A p \in Port : strobe[d][p] => pio_enable[d][p]
       /\ irqreq[d] => \E p \in Port : strobe[d][p]
       /\ ~irqactive[d] => \A p \in Port : ~pio_active[d][p]

RequestInv == DevicesTyped /\ WaitInv

\* What an update of one flag leaves.
LEMMA OneFlag ==
  ASSUME NEW S, NEW f \in [S -> BOOLEAN], NEW x \in S, NEW b \in BOOLEAN
  PROVE  /\ [f EXCEPT ![x] = b] \in [S -> BOOLEAN]
         /\ [f EXCEPT ![x] = b][x] = b
         /\ \A y \in S : y # x => [f EXCEPT ![x] = b][y] = f[y]
OBVIOUS

LEMMA OneFlagOfTwo ==
  ASSUME NEW S, NEW T, NEW f \in [S -> [T -> BOOLEAN]], NEW x \in S, NEW t \in T,
         NEW b \in BOOLEAN
  PROVE  /\ [f EXCEPT ![x][t] = b] \in [S -> [T -> BOOLEAN]]
         /\ [f EXCEPT ![x][t] = b][x][t] = b
         /\ \A y \in S, u \in T : y # x \/ u # t =>
                [f EXCEPT ![x][t] = b][y][u] = f[y][u]
<1> [f EXCEPT ![x][t] = b] = [f EXCEPT ![x] = [f[x] EXCEPT ![t] = b]]
  OBVIOUS
<1> [f[x] EXCEPT ![t] = b] \in [T -> BOOLEAN]
  OBVIOUS
<1> QED
  OBVIOUS

\* A device that calls irq() changes no more than its own request.
LEMMA IrqSets ==
  ASSUME NEW d \in 1 .. N, Chain!Irq(d)
  PROVE  /\ irqreq' = irqreq \/ irqreq' = [irqreq EXCEPT ![d] = TRUE]
         /\ irqactive' = irqactive
BY DEF Chain!Irq, Chain!irq, Chain!Request, Chain!flags

LEMMA TryTriggerKeeps ==
  ASSUME RequestInv, NEW c \in Channel, TryTrigger(c)
  PROVE  RequestInv'
<1> USE NAssumption DEF RequestInv, DevicesTyped, CTC, PIOs
<1>1. UNCHANGED <<ctc_enable, pio, irqactive>>
  BY IrqSets DEF TryTrigger, chain, ctc
<1>2. CASE ctc_enable[c]
  <2>1. ctc_pending' = [ctc_pending EXCEPT ![c] = TRUE]
    BY <1>2 DEF TryTrigger
  <2>2. irqreq' = irqreq \/ irqreq' = [irqreq EXCEPT ![CTC] = TRUE]
    BY IrqSets DEF TryTrigger, chain
  <2>3. /\ irqreq' \in [1 .. N -> BOOLEAN]
        /\ \A d \in PIOs : irqreq'[d] = irqreq[d]
    <3>1. CASE irqreq' = irqreq
      BY <3>1
    <3>2. CASE irqreq' = [irqreq EXCEPT ![CTC] = TRUE]
      <4>1. CTC \in 1 .. N /\ \A d \in PIOs : d \in 1 .. N /\ d # CTC
        OBVIOUS
      <4> QED
        BY <3>2, <4>1, OneFlag, ZenonT(30)
    <3> QED
      BY <2>2, <3>1, <3>2
  <2>4. /\ ctc_pending' \in [Channel -> BOOLEAN] /\ ctc_pending'[c]
        /\ \A b \in Channel : ctc_pending'[b] => ctc_enable[b]
    BY <1>2, <2>1 DEF WaitInv
  <2> QED
    BY <1>1, <2>3, <2>4 DEF WaitInv, pio
<1>3. CASE ~ctc_enable[c]
  <2>1. UNCHANGED <<irqreq, ctc_pending>>
    BY <1>3 DEF TryTrigger, chain, WaitInv
  <2> QED
    BY <1>1, <1>3, <2>1 DEF WaitInv, pio
<1> QED
  BY <1>2, <1>3

LEMMA StrobeKeeps ==
  ASSUME RequestInv, NEW d \in PIOs, NEW p \in Port, Strobe(d, p)
  PROVE  RequestInv'
<1> USE NAssumption DEF RequestInv, DevicesTyped, CTC, PIOs
<1>1. /\ irqreq' = irqreq \/ irqreq' = [irqreq EXCEPT ![d] = TRUE]
      /\ irqactive' = irqactive
  BY IrqSets DEF Strobe
<1>2. /\ strobe' = [strobe EXCEPT ![d][p] = TRUE]
      /\ pio_enable[d][p]
      /\ UNCHANGED <<pio_enable, pio_active, ctc_enable, ctc_pending>>
  BY DEF Strobe, ctc
<1>3. /\ irqreq' \in [1 .. N -> BOOLEAN]
      /\ \A e \in 1 .. N : e # d => irqreq'[e] = irqreq[e]
  BY <1>1
<1>4. /\ strobe' \in [PIOs -> [Port -> BOOLEAN]] /\ strobe'[d][p]
      /\ \A e \in PIOs, q \in Port :
           strobe'[e][q] <=> strobe[e][q] \/ (e = d /\ q = p)
  BY <1>2
<1>5. 1 \notin PIOs /\ PIOs \subseteq 1 .. N
  OBVIOUS
<1> HIDE DEF PIOs
<1> QED
  BY <1>1, <1>2, <1>3, <1>4, <1>5 DEF WaitInv

\* A guest that disables nothing takes no enable bit away.
LEMMA GuestKeeps ==
  ASSUME GuestDisables = FALSE, RequestInv, Guest
  PROVE  RequestInv'
<1> USE NAssumption DEF RequestInv, DevicesTyped, CTC, PIOs
<1>1. UNCHANGED <<irqreq, irqactive, ctc_pending, strobe, pio_active>>
  BY DEF Guest, CtcControl, PioControl, Chain!EI, Chain!DI, Chain!Other,
         Chain!RetI, Chain!flags, ctc, pio
<1>2. CASE UNCHANGED <<ctc_enable, pio_enable>>
  BY <1>1, <1>2 DEF WaitInv
<1>3. ASSUME NEW c \in Channel, ctc_enable' = [ctc_enable EXCEPT ![c] = TRUE],
             UNCHANGED pio_enable
      PROVE  RequestInv'
  BY <1>1, <1>3 DEF WaitInv
<1>4. ASSUME NEW d \in PIOs, NEW p \in Port, UNCHANGED ctc_enable,
             pio_enable' = [pio_enable EXCEPT ![d][p] = TRUE]
      PROVE  RequestInv'
  BY <1>1, <1>4 DEF WaitInv
<1> QED
  BY <1>2, <1>3, <1>4 DEF Guest, CtcControl, PioControl, ctc, pio

\* The device asks again in its reti() only for what still waits.
LEMMA RetiKeeps ==
  ASSUME RequestInv, NEW d \in 1 .. N, Sweep4DPre(d)
  PROVE  RequestInv'
<1> USE NAssumption DEF RequestInv, DevicesTyped, CTC, PIOs
<1>1. PICK again \in BOOLEAN :
        /\ Chain!Sweep4DPre(d, again)
        /\ IF ~(Chain!Selected(d) /\ irqactive[d]) THEN UNCHANGED <<ctc, pio>>
           ELSE IF d = CTC THEN CtcReti(again) ELSE PioReti(d, again)
  BY DEF Sweep4DPre
<1>2. CASE ~(Chain!Selected(d) /\ irqactive[d])
  BY <1>1, <1>2 DEF Chain!Sweep4DPre, Chain!flags, ctc, pio, WaitInv
<1>3. CASE Chain!Selected(d) /\ irqactive[d] /\ d = CTC
  <2>1. /\ irqreq' = [irqreq EXCEPT ![CTC] = again]
        /\ irqactive' = [irqactive EXCEPT ![CTC] = FALSE]
        /\ CtcReti(again)
    BY <1>1, <1>3 DEF Chain!Sweep4DPre
  <2>2. UNCHANGED <<ctc_enable, pio_enable, strobe, pio_active>>
    BY <2>1 DEF CtcReti, pio
  <2>3. UNCHANGED ctc_pending /\ (again => \E c \in Channel : ctc_pending[c])
    BY <2>1 DEF CtcReti, FirstPending, WaitInv
  <2> QED
    BY <2>1, <2>2, <2>3 DEF WaitInv
<1>4. CASE Chain!Selected(d) /\ irqactive[d] /\ d # CTC
  <2>1. /\ irqreq' = [irqreq EXCEPT ![d] = again]
        /\ irqactive' = [irqactive EXCEPT ![d] = FALSE]
        /\ PioReti(d, again)
    BY <1>1, <1>4 DEF Chain!Sweep4DPre
  <2>2. d \in PIOs
    BY <1>4
  <2>3. /\ pio_active' = [pio_active EXCEPT ![d] = [p \in Port |-> FALSE]]
        /\ UNCHANGED <<pio_enable, strobe, ctc_enable, ctc_pending>>
        /\ again => \E p \in Port : strobe[d][p]
    BY <2>1, <2>2 DEF PioReti, Clear, Port, ctc
  <2> QED
    BY <2>1, <2>2, <2>3 DEF WaitInv
<1> QED
  BY <1>2, <1>3, <1>4

\* Whoever is acknowledged has no request any more.
LEMMA AcceptKeeps ==
  ASSUME RequestInv, NEW d \in 1 .. N, Accept(d)
  PROVE  RequestInv'
<1> USE NAssumption DEF RequestInv, DevicesTyped, CTC, PIOs
<1>1. /\ irqreq' = [irqreq EXCEPT ![d] = FALSE]
      /\ irqactive' = [irqactive EXCEPT ![d] = TRUE]
  BY DEF Accept, Chain!Accept, Chain!Ack
<1>2. CASE d = CTC
  <2>1. PICK a \in Outcomes : CtcIrqack(a)
    BY <1>2 DEF Accept
  <2>2. UNCHANGED <<ctc_enable, pio_enable, strobe, pio_active>>
    BY <2>1 DEF CtcIrqack, ctc, pio
  <2>3. /\ ctc_pending' \in [Channel -> BOOLEAN]
        /\ \A c \in Channel : ctc_pending'[c] => ctc_pending[c]
    BY <2>1 DEF CtcIrqack, ctc
  <2> QED
    BY <1>1, <1>2, <2>2, <2>3 DEF WaitInv
<1>3. CASE d # CTC
  <2>1. d \in PIOs /\ \E a \in Outcomes : PioIrqack(d, a)
    BY <1>3 DEF Accept
  <2>2. UNCHANGED <<ctc_enable, ctc_pending, pio_enable>>
    BY <2>1 DEF PioIrqack, ctc
  <2>3. \/ UNCHANGED <<strobe, pio_active>>
        \/ \E p \in Port : /\ strobe' = [strobe EXCEPT ![d][p] = FALSE]
                            /\ pio_active' = [pio_active EXCEPT ![d][p] = TRUE]
    BY <2>1 DEF PioIrqack
  <2> DEFINE Answered ==
        /\ strobe' \in [PIOs -> [Port -> BOOLEAN]]
        /\ pio_active' \in [PIOs -> [Port -> BOOLEAN]]
        /\ \A e \in PIOs \ {d}, p \in Port :
             strobe'[e][p] = strobe[e][p] /\ pio_active'[e][p] = pio_active[e][p]
        /\ \A p \in Port : strobe'[d][p] => strobe[d][p]
  <2>4. Answered
    <3>1. CASE UNCHANGED <<strobe, pio_active>>
      BY <3>1
    <3>2. ASSUME NEW p \in Port, strobe' = [strobe EXCEPT ![d][p] = FALSE],
                 pio_active' = [pio_active EXCEPT ![d][p] = TRUE]
          PROVE  Answered
      <4> HIDE DEF PIOs
      <4> QED
        BY <2>1, <3>2, OneFlagOfTwo
    <3> HIDE DEF Answered
    <3> QED
      BY <2>3, <3>1, <3>2
  <2>5. /\ irqreq' \in [1 .. N -> BOOLEAN] /\ irqactive' \in [1 .. N -> BOOLEAN]
        /\ 1 \notin PIOs /\ PIOs \subseteq 1 .. N
    BY <1>1
  <2> HIDE DEF PIOs
  <2> QED
    BY <1>1, <2>1, <2>2, <2>4, <2>5 DEF WaitInv
<1> QED
  BY <1>2, <1>3

\* Without a reset and a guest that disables interrupts, what requests can answer.
LEMMA RequestInvKept ==
  ASSUME GuestDisables = FALSE, RequestInv, [Run]_vars
  PROVE  RequestInv'
<1>1. CASE Devices
  BY <1>1, TryTriggerKeeps, StrobeKeeps DEF Devices, TimerZero, CounterZero
<1>2. CASE Guest
  BY <1>2, GuestKeeps
<1>3. CASE Sweep
  <2>1. ASSUME NEW d \in 1 .. N, Chain!SweepED(d) \/ Chain!Sweep4DPost(d),
               UNCHANGED <<ctc, pio>>
        PROVE  UNCHANGED <<irqreq, irqactive, ctc, pio>>
    BY <2>1 DEF Chain!SweepED, Chain!Sweep4DPost, Chain!flags
  <2>2. CASE UNCHANGED <<irqreq, irqactive, ctc, pio>>
    BY <2>2 DEF RequestInv, DevicesTyped, WaitInv, ctc, pio
  <2> QED
    BY <1>3, <2>1, <2>2, RetiKeeps DEF Sweep
<1>4. CASE Check
  <2>1. CASE Chain!Pass /\ UNCHANGED <<ctc, pio>>
    BY <2>1 DEF Chain!Pass, Chain!flags, RequestInv, DevicesTyped, WaitInv, ctc, pio
  <2> QED
    BY <1>4, <2>1, AcceptKeeps DEF Check
<1>5. CASE Loop
  BY <1>5 DEF Loop, Chain!Loop, Chain!flags, RequestInv, DevicesTyped, WaitInv,
              ctc, pio
<1>6. CASE UNCHANGED vars
  BY <1>6 DEF vars, chain, RequestInv, DevicesTyped, WaitInv, ctc, pio
<1> QED
  BY <1>1, <1>2, <1>3, <1>4, <1>5, <1>6 DEF Run

\* The circuit that becomes active when it requests has a vector to give.
LEMMA RequestAnswers ==
  ASSUME RequestInv, NEW d \in 1 .. N, Accept(d), irqreq[d], ~irqactive[d]
  PROVE  isr' = Append(isr, d)
<1> USE NAssumption DEF RequestInv, CTC, PIOs
<1>1. PICK a \in Outcomes : /\ Chain!Accept(d, a)
                           /\ IF d = CTC THEN CtcIrqack(a) ELSE PioIrqack(d, a)
  BY DEF Accept
<1>2. a.vector
  <2>1. CASE d = CTC
    BY <1>1, <2>1 DEF CtcIrqack, None, WaitInv, DevicesTyped
  <2>2. CASE d # CTC
    <3>1. d \in PIOs /\ PioIrqack(d, a)
      BY <1>1, <2>2
    <3>2. \E p \in Port : Answers(d, p)
      BY <3>1 DEF Answers, Port, WaitInv
    <3> QED
      BY <3>1, <3>2 DEF PioIrqack
  <2> QED
    BY <2>1, <2>2
<1> QED
  BY <1>1, <1>2 DEF Chain!Accept, Chain!Ack

\* A circuit becomes active in no other step.
LEMMA OnlyAcceptActivates ==
  ASSUME DevicesTyped, [Run]_vars, NEW d \in 1 .. N, irqactive'[d], ~irqactive[d]
  PROVE  Accept(d)
<1> USE DEF DevicesTyped
<1>1. CASE Devices
  <2>1. UNCHANGED irqactive
    BY <1>1, NAssumption, IrqSets
       DEF Devices, TimerZero, CounterZero, TryTrigger, Strobe, PIOs, CTC, chain
  <2> QED
    BY <2>1
<1>2. CASE Guest
  BY <1>2 DEF Guest, CtcControl, PioControl, Chain!EI, Chain!DI, Chain!Other,
              Chain!RetI, Chain!flags
<1>3. CASE Sweep
  <2>1. PICK e \in 1 .. N : Chain!SweepED(e) \/ Chain!Sweep4DPost(e) \/ Sweep4DPre(e)
    BY <1>3 DEF Sweep
  <2>2. \/ UNCHANGED irqactive
        \/ irqactive' = [irqactive EXCEPT ![e] = FALSE]
    BY <2>1 DEF Sweep4DPre, Chain!SweepED, Chain!Sweep4DPost, Chain!Sweep4DPre,
                Chain!flags
  <2> QED
    BY <2>2
<1>4. CASE Check
  <2>1. CASE Chain!Pass
    BY <2>1 DEF Chain!Pass, Chain!flags
  <2>2. ASSUME NEW e \in 1 .. N, Accept(e)
        PROVE  e = d
    <3>1. irqactive' = [irqactive EXCEPT ![e] = TRUE]
      BY <2>2 DEF Accept, Chain!Accept, Chain!Ack
    <3> QED
      BY <3>1
  <2> QED
    BY <1>4, <2>1, <2>2 DEF Check
<1>5. CASE Loop
  BY <1>5 DEF Loop, Chain!Loop, Chain!flags
<1>6. CASE UNCHANGED vars
  BY <1>6 DEF vars, chain
<1> QED
  BY <1>1, <1>2, <1>3, <1>4, <1>5, <1>6 DEF Run

\* In a session without a reset, whose guest disables no interrupt, no acknowledge
\* of a circuit that requests is lost: the processor enters its handler.
THEOREM RequestsGetVectors ==
  ASSUME GuestDisables = FALSE
  PROVE  SpecNoReset => RequestGetsVector
<1>1. Init => RequestInv
  BY NAssumption DEF Init, Chain!Init, Chain!IC, RequestInv, DevicesTyped, WaitInv,
                     CTC, PIOs
<1>2. RequestInv /\ [Run]_vars => RequestInv'
  BY RequestInvKept
<1>3. RequestInv /\ [Run]_vars
        => [\A d \in 1 .. N : irqreq[d] /\ irqactive'[d] /\ ~irqactive[d]
              => isr' = Append(isr, d)]_vars
  BY OnlyAcceptActivates, RequestAnswers DEF RequestInv
<1> QED
  BY <1>1, <1>2, <1>3, PTL DEF SpecNoReset, RequestGetsVector

-----------------------------------------------------------------------------
(***************************************************************************)
(* A device and its circuit agree.                                         *)
(***************************************************************************)

\* A circuit has a handler exactly while a channel or a port of its device is
\* being served; what waits is known to the circuit.
ViewsInv ==
  /\ ctc_active \in [Channel -> BOOLEAN]
  /\ irqactive[CTC] <=> \E c \in Channel : ctc_active[c]
  /\ (\E c \in Channel : ctc_pending[c]) => irqreq[CTC] \/ irqactive[CTC]
  /\ \A d \in PIOs :
       /\ irqactive[d] <=> \E p \in Port : pio_active[d][p]
       /\ (\E p \in Port : strobe[d][p]) => irqreq[d] \/ irqactive[d]

LEMMA IrqMakesBusy ==
  ASSUME irqreq \in [1 .. N -> BOOLEAN], NEW d \in 1 .. N, Chain!Irq(d)
  PROVE  /\ irqreq'[d] \/ irqactive'[d]
         /\ \A e \in 1 .. N : irqreq[e] => irqreq'[e]
BY DEF Chain!Irq, Chain!irq, Chain!Request, Chain!flags, Chain!Busy

LEMMA InChain == CTC \in 1 .. N /\ PIOs \subseteq 1 .. N /\ CTC \notin PIOs
BY NAssumption DEF CTC, PIOs

LEMMA TryTriggerKeepsViews ==
  ASSUME RequestInv, ViewsInv, NEW c \in Channel, TryTrigger(c)
  PROVE  ViewsInv'
<1> USE DEF RequestInv, DevicesTyped
<1>1. UNCHANGED <<ctc_enable, ctc_active, strobe, pio_active, irqactive>>
  BY IrqSets, InChain DEF TryTrigger, chain, pio
<1>2. CASE ctc_enable[c]
  <2>1. irqreq'[CTC] \/ irqactive'[CTC]
    <3>1. CASE \A a \in 0 .. (c - 1) : ~ctc_active[a]
      BY <1>2, <3>1, IrqMakesBusy, InChain DEF TryTrigger
    <3>2. CASE \E a \in 0 .. (c - 1) : ctc_active[a]
      <4>1. \A a \in 0 .. (c - 1) : a \in Channel
        BY ChannelsAssumption DEF Channel
      <4>2. irqactive[CTC]
        BY <3>2, <4>1 DEF ViewsInv
      <4> QED
        BY <1>1, <4>2
    <3> QED
      BY <3>1, <3>2
  <2>2. \A d \in PIOs : irqreq[d] => irqreq'[d]
    BY IrqMakesBusy, InChain DEF TryTrigger, chain
  <2> QED
    BY <1>1, <2>1, <2>2 DEF ViewsInv
<1>3. CASE ~ctc_enable[c]
  <2>1. UNCHANGED <<irqreq, ctc_pending>>
    BY <1>3 DEF TryTrigger, chain, WaitInv
  <2> QED
    BY <1>1, <2>1 DEF ViewsInv
<1> QED
  BY <1>2, <1>3

LEMMA StrobeKeepsViews ==
  ASSUME RequestInv, ViewsInv, NEW d \in PIOs, NEW p \in Port, Strobe(d, p)
  PROVE  ViewsInv'
<1> USE DEF RequestInv, DevicesTyped
<1>1. /\ irqreq'[d] \/ irqactive'[d]
      /\ \A e \in 1 .. N : irqreq[e] => irqreq'[e]
      /\ irqactive' = irqactive
  BY IrqMakesBusy, IrqSets, InChain DEF Strobe
<1>2. /\ strobe' = [strobe EXCEPT ![d][p] = TRUE]
      /\ UNCHANGED <<pio_active, ctc_active, ctc_pending>>
  BY DEF Strobe, ctc
<1>3. \A e \in PIOs, q \in Port : strobe'[e][q] <=> strobe[e][q] \/ (e = d /\ q = p)
  BY <1>2
<1> QED
  BY <1>1, <1>2, <1>3, InChain DEF ViewsInv

LEMMA RetiKeepsViews ==
  ASSUME RequestInv, ViewsInv, NEW d \in 1 .. N, Sweep4DPre(d)
  PROVE  ViewsInv'
<1> USE DEF RequestInv, DevicesTyped
<1>1. PICK again \in BOOLEAN :
        /\ Chain!Sweep4DPre(d, again)
        /\ IF ~(Chain!Selected(d) /\ irqactive[d]) THEN UNCHANGED <<ctc, pio>>
           ELSE IF d = CTC THEN CtcReti(again) ELSE PioReti(d, again)
  BY DEF Sweep4DPre
<1>2. CASE ~(Chain!Selected(d) /\ irqactive[d])
  <2>1. UNCHANGED <<irqreq, irqactive, ctc_pending, ctc_active, strobe, pio_active>>
    BY <1>1, <1>2 DEF Chain!Sweep4DPre, Chain!flags, ctc, pio
  <2> QED
    BY <2>1 DEF ViewsInv
<1>3. CASE Chain!Selected(d) /\ irqactive[d]
  <2>1. /\ irqreq' = [irqreq EXCEPT ![d] = again]
        /\ irqactive' = [irqactive EXCEPT ![d] = FALSE]
    BY <1>1, <1>3 DEF Chain!Sweep4DPre
  <2>2. /\ ~irqactive'[d] /\ irqreq'[d] = again
        /\ \A e \in 1 .. N : e # d => irqreq'[e] = irqreq[e] /\ irqactive'[e] = irqactive[e]
    BY <2>1
  <2>3. CASE d = CTC
    <3>1. CtcReti(again)
      BY <1>1, <1>3, <2>3
    <3>2. UNCHANGED <<strobe, pio_active, ctc_pending>>
      BY <3>1 DEF CtcReti, pio, FirstPending, WaitInv
    <3>3. ctc_active' \in [Channel -> BOOLEAN] /\ \A c \in Channel : ~ctc_active'[c]
      BY <3>1 DEF CtcReti, Clear, ViewsInv
    <3>4. (\E c \in Channel : ctc_pending[c]) => again
      BY <1>3, <2>3, <3>1 DEF CtcReti, None, FirstPending, WaitInv, ViewsInv
    <3> QED
      BY <2>2, <2>3, <3>2, <3>3, <3>4, InChain DEF ViewsInv
  <2>4. CASE d # CTC
    <3>1. d \in PIOs /\ PioReti(d, again)
      BY <1>1, <1>3, <2>4, NAssumption DEF PIOs, CTC
    <3>2. /\ pio_active' = [pio_active EXCEPT ![d] = [p \in Port |-> FALSE]]
          /\ UNCHANGED <<strobe, ctc_active, ctc_pending>>
      BY <3>1 DEF PioReti, Clear, Port, ctc
    <3>3. (\E p \in Port : strobe[d][p]) => again
      BY <3>1 DEF PioReti, Port, WaitInv
    <3>4. /\ \A p \in Port : ~pio_active'[d][p]
          /\ \A e \in PIOs : e # d => pio_active'[e] = pio_active[e]
      BY <3>1, <3>2
    <3> QED
      BY <2>2, <3>1, <3>2, <3>3, <3>4, InChain DEF ViewsInv
  <2> QED
    BY <2>3, <2>4
<1> QED
  BY <1>2, <1>3

LEMMA AcceptKeepsViews ==
  ASSUME RequestInv, ViewsInv, NEW d \in 1 .. N, Accept(d)
  PROVE  ViewsInv'
<1> USE DEF RequestInv, DevicesTyped
<1>1. /\ irqreq' = [irqreq EXCEPT ![d] = FALSE]
      /\ irqactive' = [irqactive EXCEPT ![d] = TRUE]
      /\ irqreq[d] \/ irqactive[d]
  BY DEF Accept, Chain!Accept, Chain!Ack, Chain!Acknowledging, Chain!Selected,
         Chain!ieo, Chain!Busy
<1>2. /\ irqactive'[d]
      /\ \A e \in 1 .. N : e # d => irqreq'[e] = irqreq[e] /\ irqactive'[e] = irqactive[e]
  BY <1>1
<1>3. CASE d = CTC
  <2>1. PICK a \in Outcomes : CtcIrqack(a)
    BY <1>3 DEF Accept
  <2>2. UNCHANGED <<strobe, pio_active>>
    BY <2>1 DEF CtcIrqack, pio
  <2>3. ctc_active' \in [Channel -> BOOLEAN] /\ \E c \in Channel : ctc_active'[c]
    <3>1. CASE None(ctc_pending)
      <4>1. irqactive[CTC]
        BY <1>1, <1>3, <3>1 DEF None, WaitInv
      <4> QED
        BY <2>1, <3>1, <4>1 DEF CtcIrqack, ctc, ViewsInv
    <3>2. CASE ~None(ctc_pending)
      BY <2>1, <3>2 DEF CtcIrqack, ViewsInv
    <3> QED
      BY <3>1, <3>2
  <2> QED
    BY <1>2, <1>3, <2>2, <2>3, InChain DEF ViewsInv
<1>4. CASE d # CTC
  <2>1. d \in PIOs
    BY <1>4 DEF PIOs, CTC
  <2>2. PICK a \in Outcomes : PioIrqack(d, a)
    BY <1>4 DEF Accept
  <2>3. UNCHANGED <<ctc_active, ctc_pending>>
    BY <2>2 DEF PioIrqack, ctc
  <2>4. CASE \E p \in Port : Answers(d, p)
    <3>1. PICK p \in Port : /\ strobe' = [strobe EXCEPT ![d][p] = FALSE]
                            /\ pio_active' = [pio_active EXCEPT ![d][p] = TRUE]
      BY <2>2, <2>4 DEF PioIrqack
    <3>2. /\ pio_active'[d][p]
          /\ \A e \in PIOs, q \in Port : e # d =>
               pio_active'[e][q] = pio_active[e][q] /\ strobe'[e][q] = strobe[e][q]
      BY <2>1, <3>1, OneFlagOfTwo
    <3> QED
      BY <1>2, <1>4, <2>1, <2>3, <3>2, InChain DEF ViewsInv
  <2>5. CASE ~\E p \in Port : Answers(d, p)
    <3>1. UNCHANGED <<strobe, pio_active>>
      BY <2>2, <2>5 DEF PioIrqack
    <3>2. irqactive[d]
      BY <1>1, <2>1, <2>5 DEF Answers, Port, WaitInv
    <3> QED
      BY <1>2, <1>4, <2>1, <2>3, <3>1, <3>2, InChain DEF ViewsInv
  <2> QED
    BY <2>4, <2>5
<1> QED
  BY <1>3, <1>4

LEMMA ViewsKept ==
  ASSUME RequestInv, ViewsInv, [Run]_vars
  PROVE  ViewsInv'
<1>1. ASSUME UNCHANGED <<irqreq, irqactive, ctc_pending, ctc_active, strobe, pio_active>>
      PROVE  ViewsInv'
  BY <1>1 DEF ViewsInv
<1>2. CASE Devices
  BY <1>2, TryTriggerKeepsViews, StrobeKeepsViews DEF Devices, TimerZero, CounterZero
<1>3. CASE Guest
  BY <1>1, <1>3 DEF Guest, CtcControl, PioControl, Chain!EI, Chain!DI, Chain!Other,
                    Chain!RetI, Chain!flags, ctc, pio
<1>4. CASE Sweep
  <2>1. ASSUME NEW d \in 1 .. N, Chain!SweepED(d) \/ Chain!Sweep4DPost(d),
               UNCHANGED <<ctc, pio>>
        PROVE  ViewsInv'
    BY <1>1, <2>1 DEF Chain!SweepED, Chain!Sweep4DPost, Chain!flags, ctc, pio
  <2> QED
    BY <1>4, <2>1, RetiKeepsViews DEF Sweep
<1>5. CASE Check
  <2>1. CASE Chain!Pass /\ UNCHANGED <<ctc, pio>>
    BY <1>1, <2>1 DEF Chain!Pass, Chain!flags, ctc, pio
  <2> QED
    BY <1>5, <2>1, AcceptKeepsViews DEF Check
<1>6. CASE Loop \/ UNCHANGED vars
  BY <1>1, <1>6 DEF Loop, Chain!Loop, Chain!flags, ctc, pio, vars, chain
<1> QED
  BY <1>2, <1>3, <1>4, <1>5, <1>6 DEF Run

LEMMA ViewsImply ==
  ASSUME RequestInv, ViewsInv
  PROVE  ViewsAgree
BY DEF RequestInv, DevicesTyped, WaitInv, ViewsInv, ViewsAgree, None

LEMMA InitViews ==
  ASSUME Init
  PROVE  RequestInv /\ ViewsInv
BY NAssumption DEF Init, Chain!Init, Chain!IC, RequestInv, DevicesTyped, WaitInv,
                   ViewsInv, CTC, PIOs

\* In a session without a reset, whose guest disables no interrupt, the flags of a
\* device and those of its circuit never contradict each other, for any number of
\* PIOs, channels and nested handlers (CTC_Base::irqack, trigger_irq, CTC::reti,
\* PIO::irqack, PIO::reti).
THEOREM ViewsStayEqual ==
  ASSUME GuestDisables = FALSE
  PROVE  SpecNoReset => []ViewsAgree
<1>1. RequestInv /\ ViewsInv /\ [Run]_vars => (RequestInv /\ ViewsInv)'
  BY RequestInvKept, ViewsKept
<1> QED
  BY <1>1, InitViews, ViewsImply, PTL DEF SpecNoReset

-----------------------------------------------------------------------------
(***************************************************************************)
(* A CTC and one PIO, handlers that do not nest: the circuits, the         *)
(* channels and the stack of the guest agree.  With a second PIO a RETI    *)
(* may not reach the circuit it ends (ActiveMeansServicing of DaisyChain), *)
(* and nested handlers activate two channels (OneActiveChannel).           *)
(***************************************************************************)

\* What the chain says of its first two circuits, and of any.
FirstTwo ==
  /\ irqactive \in [1 .. N -> BOOLEAN] /\ irqreq \in [1 .. N -> BOOLEAN]
  /\ ieo_reti \in [1 .. N -> BOOLEAN] /\ iei \in [1 .. N -> BOOLEAN]
  /\ isr \in Seq(1 .. N)
  /\ pc \in {"ED", "4D_pre", "4D_post"} => pos \in 1 .. N
  /\ iei[1]
  /\ 2 <= N => (iei[2] <=> ieo_reti[1] \/ ~(irqreq[1] \/ irqactive[1]))
  /\ \A q \in 1 .. N : ~(irqreq[q] /\ irqactive[q])

LEMMA ChainFacts == Facts!IInv => FirstTwo
<1> SUFFICES ASSUME Facts!IInv
             PROVE  FirstTwo
  OBVIOUS
<1>1. Facts!ChainConsistent
  BY NAssumption, MaxNestAssumption, Facts!InvConsistent DEF Facts!AckOutcomes, Outcomes
<1>2. iei[1] /\ \A q \in 1 .. (N - 1) : iei[q + 1] <=> Facts!ieo(q)
  BY <1>1 DEF Facts!ChainConsistent
<1>3. 2 <= N => (iei[2] <=> Facts!ieo(1))
  <2> SUFFICES ASSUME 2 <= N PROVE iei[2] <=> Facts!ieo(1)
    OBVIOUS
  <2>1. 1 \in 1 .. (N - 1) /\ 1 + 1 = 2
    BY NAssumption
  <2> QED
    BY <1>2, <2>1
<1> QED
  BY <1>2, <1>3 DEF Facts!IInv, Facts!TypeOK, Facts!RequestXorActive, Facts!IC,
                    Facts!ieo, Facts!Busy, FirstTwo

LEMMA ChainFactsNext == Facts!IInv' => FirstTwo'
BY ChainFacts, PTL

\* The handlers: one at a time, and with interrupts disabled; an active circuit
\* is the one whose handler the guest executes; once the RETI has ended the
\* handler, the sweeps reach its circuit.
Handlers ==
  /\ isr = <<>> \/ \E d \in 1 .. N : isr = <<d>>
  /\ iff \/ pc \in {"ED", "4D_pre", "4D_post"} => isr = <<>>
  /\ \A q \in 1 .. N : ieo_reti[q] => irqreq[q]
  /\ BetweenInstructions => \A d \in 1 .. N : irqactive[d] => isr = <<d>>
  /\ \A d, e \in 1 .. N : irqactive[d] /\ irqactive[e] => d = e
  /\ pc = "4D_pre" => \A d \in 1 .. N : irqactive[d] => d <= pos /\ iei[d]
  /\ pc = "4D_post" => \A d \in 1 .. N : ~irqactive[d]

OneActive == \A b, c \in Channel : ctc_active[b] /\ ctc_active[c] => b = c

Known == /\ GuestDisables = FALSE /\ MaxNest = 1 /\ N <= 2
         /\ Facts!IInv /\ RequestInv /\ ViewsInv /\ Handlers

\* Singleton stacks.
LEMMA Stacks ==
  /\ \A d, e : <<d>> = <<e>> => d = e
  /\ \A d : <<d>> # <<>> /\ Len(<<d>>) = 1 /\ SubSeq(<<d>>, 1, 1 - 1) = <<>>
            /\ Append(<<>>, d) = <<d>>
OBVIOUS

LEMMA GuestHandlers ==
  ASSUME Known, Guest
  PROVE  Handlers'
<1>1. UNCHANGED <<irqreq, irqactive, ieo_reti, iei>>
  BY DEF Guest, CtcControl, PioControl, Chain!EI, Chain!DI, Chain!Other, Chain!RetI,
         Chain!flags
<1>2. CASE UNCHANGED isr /\ (iff' => iff \/ isr = <<>>) /\ pc = "step" /\ BetweenInstructions'
  BY <1>1, <1>2 DEF Known, Handlers, BetweenInstructions
<1>3. CASE Chain!EI
  <2>1. isr = <<>>
    BY <1>3, Stacks DEF Known, Handlers, Chain!EI
  <2> QED
    BY <1>2, <1>3, <2>1 DEF Chain!EI, BetweenInstructions
<1>4. CASE Chain!DI \/ Chain!Other
  BY <1>2, <1>4 DEF Chain!DI, Chain!Other, Chain!cpu, BetweenInstructions
<1>5. CASE Chain!RetI
  <2>1. isr' = <<>>
    BY <1>5, Stacks DEF Known, Handlers, Chain!RetI
  <2>2. pc = "step" /\ pc' = "ED"
    BY <1>5 DEF Chain!RetI
  <2>3. \A d, e \in 1 .. N : irqactive[d] /\ irqactive[e] => d = e
    BY DEF Known, Handlers
  <2> QED
    BY <1>1, <2>1, <2>2, <2>3 DEF Known, Handlers, BetweenInstructions
<1> QED
  BY <1>3, <1>4, <1>5 DEF Guest, CtcControl, PioControl

\* The sweep for ED: the circuit in front of the active one, if it requests,
\* opens the chain.
LEMMA SweepEDHandlers ==
  ASSUME Known, Facts!IInv', NEW p \in 1 .. N, Chain!SweepED(p)
  PROVE  Handlers'
<1> USE DEF Known
<1>1. /\ pc = "ED" /\ pos = p /\ isr = <<>>
      /\ UNCHANGED <<irqreq, irqactive, iff, isr>>
      /\ \A d, e \in 1 .. N : irqactive[d] /\ irqactive[e] => d = e
  BY DEF Chain!SweepED, Chain!flags, Chain!cpu, Handlers
<1>2. \A q \in 1 .. N : ieo_reti'[q] => irqreq[q]
  <2>1. ieo_reti \in [1 .. N -> BOOLEAN]
    BY ChainFacts DEF FirstTwo
  <2>2. CASE Chain!Selected(p) /\ ~irqactive[p]
    <3>1. ieo_reti' = [ieo_reti EXCEPT ![p] = TRUE] /\ irqreq[p]
      BY <2>2 DEF Chain!SweepED, Chain!Selected, Chain!ieo, Chain!Busy
    <3> QED
      BY <2>1, <3>1 DEF Handlers
  <2>3. CASE ~(Chain!Selected(p) /\ ~irqactive[p])
    BY <2>3 DEF Chain!SweepED, Chain!flags, Handlers
  <2> QED
    BY <2>2, <2>3
<1>3. CASE p # 1
  <2>1. pc' = "ED"
    BY <1>1, <1>3 DEF Chain!SweepED, Chain!Advance
  <2> QED
    BY <1>1, <1>2, <2>1 DEF Handlers, BetweenInstructions
<1>4. CASE p = 1
  <2>1. pc' = "4D_pre" /\ pos' = N
    BY <1>1, <1>4 DEF Chain!SweepED, Chain!Advance
  <2>2. irqreq[1] /\ ~irqactive[1] => ieo_reti'[1]
    <3> SUFFICES ASSUME irqreq[1], ~irqactive[1] PROVE ieo_reti'[1]
      OBVIOUS
    <3>1. iei[1] /\ ieo_reti \in [1 .. N -> BOOLEAN] /\ 1 \in 1 .. N
      BY ChainFacts, NAssumption DEF FirstTwo
    <3>2. CASE ieo_reti[1]
      BY <1>4, <3>1, <3>2 DEF Chain!SweepED, Chain!flags, Chain!Selected, Chain!ieo
    <3>3. CASE ~ieo_reti[1]
      BY <1>4, <3>1, <3>3 DEF Chain!SweepED, Chain!Selected, Chain!ieo, Chain!Busy
    <3> QED
      BY <3>2, <3>3
  <2>3. ASSUME NEW d \in 1 .. N, irqactive[d] PROVE d <= N /\ iei'[d]
    <3>1. d = 1 \/ (d = 2 /\ 2 <= N)
      BY NAssumption
    <3>2. CASE d = 1
      BY <3>2, ChainFactsNext, NAssumption DEF FirstTwo
    <3>3. CASE d = 2 /\ 2 <= N
      <4>1. ~irqactive[1]
        BY <1>1, <2>3, <3>3, NAssumption
      <4>2. iei'[2]
        BY <1>1, <2>2, <3>3, <4>1, ChainFactsNext DEF FirstTwo
      <4> QED
        BY <3>3, <4>2
    <3> QED
      BY <3>1, <3>2, <3>3
  <2> QED
    BY <1>1, <1>2, <2>1, <2>3 DEF Handlers, BetweenInstructions
<1> QED
  BY <1>3, <1>4

\* The first sweep for 4D ends the handler of the active circuit.
LEMMA Sweep4DPreHandlers ==
  ASSUME Known, Facts!IInv', NEW p \in 1 .. N, NEW again \in BOOLEAN,
         Chain!Sweep4DPre(p, again)
  PROVE  Handlers'
<1> USE DEF Known
<1>1. /\ pc = "4D_pre" /\ pos = p /\ isr = <<>>
      /\ UNCHANGED <<ieo_reti, iff, isr>>
      /\ \A d, e \in 1 .. N : irqactive[d] /\ irqactive[e] => d = e
      /\ \A d \in 1 .. N : irqactive[d] => d <= p /\ iei[d]
      /\ \A q \in 1 .. N : ieo_reti[q] => irqreq[q] /\ ~irqactive[q]
  BY ChainFacts DEF FirstTwo, Chain!Sweep4DPre, Chain!flags, Chain!cpu, Handlers
<1>2. irqactive \in [1 .. N -> BOOLEAN] /\ irqreq \in [1 .. N -> BOOLEAN]
  BY ChainFacts DEF FirstTwo
<1>3. /\ ~irqactive'[p]
      /\ \A d \in 1 .. N : irqactive'[d] => irqactive[d]
      /\ \A q \in 1 .. N : ieo_reti[q] => irqreq'[q]
  <2>1. CASE irqactive[p]
    <3>1. Chain!Selected(p)
      BY <1>1, <2>1 DEF Chain!Selected, Chain!ieo, Chain!Busy
    <3>2. irqactive' = [irqactive EXCEPT ![p] = FALSE] /\ irqreq' = [irqreq EXCEPT ![p] = again]
      BY <2>1, <3>1 DEF Chain!Sweep4DPre
    <3> QED
      BY <1>1, <1>2, <2>1, <3>2
  <2>2. CASE ~irqactive[p]
    BY <1>1, <2>2 DEF Chain!Sweep4DPre, Chain!flags
  <2> QED
    BY <2>1, <2>2
<1>4. CASE p = 1
  <2>1. pc' = "4D_post"
    BY <1>1, <1>4 DEF Chain!Sweep4DPre, Chain!Advance
  <2>2. \A d \in 1 .. N : ~irqactive'[d]
    BY <1>1, <1>3, <1>4, NAssumption
  <2> QED
    BY <1>1, <1>3, <2>1, <2>2 DEF Handlers, BetweenInstructions
<1>5. CASE p # 1
  <2>1. pc' = "4D_pre" /\ pos' = p - 1 /\ p = 2
    BY <1>1, <1>5, NAssumption DEF Chain!Sweep4DPre, Chain!Advance
  <2>2. \A d \in 1 .. N : irqactive'[d] => d = 1
    BY <1>1, <1>3, <2>1, NAssumption
  <2>3. iei'[1]
    BY ChainFactsNext DEF FirstTwo
  <2> QED
    BY <1>1, <1>3, <2>1, <2>2, <2>3 DEF Handlers, BetweenInstructions
<1> QED
  BY <1>4, <1>5

LEMMA Sweep4DPostHandlers ==
  ASSUME Known, NEW p \in 1 .. N, Chain!Sweep4DPost(p)
  PROVE  Handlers'
<1> USE DEF Known
<1>1. /\ pc = "4D_post" /\ pc' \in {"4D_post", "int"} /\ isr = <<>>
      /\ UNCHANGED <<irqreq, irqactive, iff, isr>>
      /\ \A d \in 1 .. N : ~irqactive[d]
  BY DEF Chain!Sweep4DPost, Chain!Advance, Chain!cpu, Handlers
<1>2. \A q \in 1 .. N : ieo_reti'[q] => irqreq[q]
  <2>1. ieo_reti' = [ieo_reti EXCEPT ![p] = FALSE] /\ ieo_reti \in [1 .. N -> BOOLEAN]
    BY ChainFacts DEF FirstTwo, Chain!Sweep4DPost
  <2> QED
    BY <2>1 DEF Handlers
<1> QED
  BY <1>1, <1>2 DEF Handlers, BetweenInstructions

\* The processor enters the handler of the circuit that becomes active; no other
\* one is active, or interrupts would be disabled.
LEMMA AcceptHandlers ==
  ASSUME Known, NEW d \in 1 .. N, Accept(d)
  PROVE  Handlers' /\ (OneActive => OneActive')
<1> USE DEF Known
<1>1. /\ pc = "int" /\ iff /\ isr = <<>> /\ pc' = "callbacks"
      /\ irqreq' = [irqreq EXCEPT ![d] = FALSE]
      /\ irqactive' = [irqactive EXCEPT ![d] = TRUE]
      /\ UNCHANGED ieo_reti
      /\ irqreq[d] \/ irqactive[d]
  BY DEF Accept, Chain!Accept, Chain!Ack, Chain!Interruptible, Chain!Acknowledging,
         Chain!Selected, Chain!ieo, Chain!Busy, Handlers
<1>2. \A e \in 1 .. N : ~irqactive[e]
  BY <1>1, Stacks DEF Handlers, BetweenInstructions
<1>3. \A e \in 1 .. N : ~ieo_reti[e]
  BY <1>1 DEF Facts!IInv, Facts!SettledInv, Facts!Settled, Facts!Idle, Facts!IC
<1>4. isr' = <<d>>
  BY <1>1, <1>2, RequestAnswers, Stacks
<1>5. iff' = FALSE
  <2>1. PICK a \in Outcomes : Chain!Ack(d, a)
    BY DEF Accept, Chain!Accept
  <2>2. CASE a.vector
    BY <2>1, <2>2 DEF Chain!Ack
  <2>3. CASE ~a.vector
    BY <1>1, <1>4, <2>1, <2>3, Stacks DEF Chain!Ack
  <2> QED
    BY <2>2, <2>3
<1>6. \A e \in 1 .. N : irqactive'[e] => e = d
  BY <1>1, <1>2, ChainFacts DEF FirstTwo
<1>7. Handlers'
  BY <1>1, <1>3, <1>4, <1>5, <1>6 DEF Handlers, BetweenInstructions
<1>8. OneActive'
  <2>1. CASE d = CTC
    <3>1. \A c \in Channel : ~ctc_active[c]
      BY <1>2, InChain DEF ViewsInv
    <3>2. PICK a \in Outcomes : CtcIrqack(a)
      BY <2>1 DEF Accept
    <3>3. ctc_active' = ctc_active \/ \E c \in Channel : ctc_active' = [ctc_active EXCEPT ![c] = TRUE]
      BY <3>2 DEF CtcIrqack, ctc
    <3> QED
      BY <3>1, <3>3 DEF OneActive, ViewsInv
  <2>2. CASE d # CTC
    <3>1. UNCHANGED ctc_active
      BY <2>2 DEF Accept, PioIrqack, ctc
    <3>2. \A c \in Channel : ~ctc_active[c]
      BY <1>2, InChain DEF ViewsInv
    <3> QED
      BY <3>1, <3>2 DEF OneActive
  <2> QED
    BY <2>1, <2>2
<1> QED
  BY <1>7, <1>8

LEMMA HandlersKept ==
  ASSUME Known, Facts!IInv', OneActive, [Run]_vars
  PROVE  Handlers' /\ OneActive'
<1> USE DEF Known
<1>1. ASSUME UNCHANGED ctc_active PROVE OneActive'
  BY <1>1 DEF OneActive
<1>2. CASE Devices
  <2>1. /\ UNCHANGED <<ctc_active, irqactive, ieo_reti, iff, isr, pc, pos>>
        /\ pc \in {"step", "callbacks"} \/ UNCHANGED chain
        /\ \A q \in 1 .. N : irqreq[q] => irqreq'[q]
    <3>1. ASSUME NEW c \in Channel, TryTrigger(c)
          PROVE  /\ UNCHANGED <<ctc_active, irqactive, ieo_reti, iff, isr, pc, pos>>
                 /\ pc \in {"step", "callbacks"} \/ UNCHANGED chain
                 /\ \A q \in 1 .. N : irqreq[q] => irqreq'[q]
      <4>1. CASE Chain!Irq(CTC)
        BY <3>1, <4>1, IrqMakesBusy, IrqSets, InChain
           DEF TryTrigger, Chain!Irq, Chain!irq, Chain!Request, Chain!flags, Chain!cpu,
               Chain!loop, RequestInv, DevicesTyped
      <4>2. CASE UNCHANGED chain
        BY <3>1, <4>2 DEF TryTrigger, chain
      <4> QED
        BY <3>1, <4>1, <4>2 DEF TryTrigger
    <3>2. ASSUME NEW d \in PIOs, NEW p \in Port, Strobe(d, p)
          PROVE  /\ UNCHANGED <<ctc_active, irqactive, ieo_reti, iff, isr, pc, pos>>
                 /\ pc \in {"step", "callbacks"} \/ UNCHANGED chain
                 /\ \A q \in 1 .. N : irqreq[q] => irqreq'[q]
      BY <3>2, IrqMakesBusy, IrqSets, InChain
         DEF Strobe, Chain!Irq, Chain!irq, Chain!Request, Chain!flags, Chain!cpu,
             Chain!loop, RequestInv, DevicesTyped, ctc
    <3> QED
      BY <1>2, <3>1, <3>2 DEF Devices, TimerZero, CounterZero
  <2>2. CASE UNCHANGED chain
    BY <1>1, <2>1, <2>2 DEF chain, Handlers, BetweenInstructions
  <2>3. CASE pc \in {"step", "callbacks"}
    BY <1>1, <2>1, <2>3 DEF Handlers, BetweenInstructions
  <2> QED
    BY <2>1, <2>2, <2>3
<1>3. CASE Guest
  BY <1>1, <1>3, GuestHandlers DEF Guest, CtcControl, PioControl, ctc
<1>4. CASE Sweep
  <2>1. ASSUME NEW d \in 1 .. N, Chain!SweepED(d) \/ Chain!Sweep4DPost(d),
               UNCHANGED <<ctc, pio>>
        PROVE  Handlers' /\ OneActive'
    BY <1>1, <2>1, SweepEDHandlers, Sweep4DPostHandlers DEF ctc
  <2>2. ASSUME NEW d \in 1 .. N, Sweep4DPre(d)
        PROVE  Handlers' /\ OneActive'
    <3>1. Handlers'
      BY <2>2, Sweep4DPreHandlers DEF Sweep4DPre
    <3>2. UNCHANGED ctc_active \/ ctc_active' = Clear(ctc_active)
      BY <2>2 DEF Sweep4DPre, CtcReti, PioReti, ctc
    <3>3. ctc_active' = Clear(ctc_active) => OneActive'
      BY DEF Clear, OneActive, ViewsInv
    <3> QED
      BY <1>1, <3>1, <3>2, <3>3
  <2> QED
    BY <1>4, <2>1, <2>2 DEF Sweep
<1>5. CASE Check
  <2>1. CASE Chain!Pass /\ UNCHANGED <<ctc, pio>>
    BY <1>1, <2>1 DEF Chain!Pass, Chain!flags, Chain!cpu, ctc, Handlers, BetweenInstructions
  <2> QED
    BY <1>5, <2>1, AcceptHandlers DEF Check
<1>6. CASE Loop
  BY <1>1, <1>6 DEF Loop, Chain!Loop, Chain!flags, Chain!cpu, ctc, Handlers, BetweenInstructions
<1>7. CASE UNCHANGED vars
  BY <1>1, <1>7 DEF vars, chain, ctc, Handlers, BetweenInstructions
<1> QED
  BY <1>2, <1>3, <1>4, <1>5, <1>6, <1>7 DEF Run

LEMMA AtMostOne ==
  ASSUME NEW S, \A x, y \in S : x = y
  PROVE  Cardinality(S) <= 1
<1>1. CASE S = {}
  BY <1>1, FS_EmptySet
<1>2. CASE S # {}
  <2>1. PICK x \in S : S = {x}
    BY <1>2
  <2>2. Cardinality({x}) = 1
    BY FS_Singleton
  <2> QED
    BY <2>1, <2>2
<1> QED
  BY <1>1, <1>2

LEMMA AgreementImplied ==
  ASSUME Known, OneActive
  PROVE  DevicesAgree
<1>1. TypeOK
  BY DEF Known, RequestInv, DevicesTyped, ViewsInv, TypeOK, Facts!IInv, Facts!TypeOK,
         Chain!TypeOK, Facts!IC, Chain!IC
<1>2. ViewsAgree
  BY ViewsImply DEF Known
<1>3. OneActiveChannel
  BY AtMostOne DEF OneActive, OneActiveChannel
<1>4. ActiveMeansServicing
  <2> SUFFICES ASSUME BetweenInstructions, NEW d \in 1 .. N, irqactive[d]
               PROVE  \E k \in 1 .. Len(isr) : isr[k] = d
    BY DEF ActiveMeansServicing
  <2>1. isr = <<d>>
    BY DEF Known, Handlers
  <2>2. 1 \in 1 .. Len(isr) /\ isr[1] = d
    BY <2>1
  <2> QED
    BY <2>2
<1> QED
  BY <1>1, <1>2, <1>3, <1>4 DEF DevicesAgree

LEMMA InitHandlers ==
  ASSUME Init
  PROVE  Facts!IInv /\ Handlers /\ OneActive
<1>1. Facts!IInv
  BY SameInit, NAssumption, MaxNestAssumption, Facts!InvBegins
     DEF Init, Facts!AckOutcomes, Outcomes
<1> QED
  BY <1>1 DEF Init, Chain!Init, Chain!IC, Handlers, OneActive

\* With a CTC of any number of channels and a PIO, no reset, handlers that do not
\* nest and a guest that disables no interrupt: what a device believes, what its
\* circuit believes and what the guest executes are one.
THEOREM DevicesStayInStep ==
  ASSUME GuestDisables = FALSE, MaxNest = 1, N <= 2
  PROVE  SpecNoReset => []DevicesAgree
<1>1. Init => Known /\ OneActive
  BY InitHandlers, InitViews DEF Known
<1>2. Known /\ OneActive /\ [Run]_vars => (Known /\ OneActive)'
  <2> SUFFICES ASSUME Known, OneActive, [Run]_vars
               PROVE  Known' /\ OneActive'
    OBVIOUS
  <2>1. Facts!IInv'
    BY StepsOfChain, SameSteps, NAssumption, MaxNestAssumption, Facts!InvKept
       DEF Facts!AckOutcomes, Outcomes, Known
  <2>2. RequestInv' /\ ViewsInv'
    BY RequestInvKept, ViewsKept DEF Known
  <2> QED
    BY <2>1, <2>2, HandlersKept DEF Known
<1> QED
  BY <1>1, <1>2, AgreementImplied, PTL DEF SpecNoReset
=============================================================================
