----------------------------- MODULE DaisyChain -----------------------------
(***************************************************************************)
(* The Z80 interrupt daisy chain of KCemu: the chain protocol of           *)
(* InterfaceCircuit (src/src/kc/ic.cc) driven by Z80::run                  *)
(* (src/src/kc/z80.cc) through DaisyChain (src/src/kc/daisy.cc).           *)
(*                                                                         *)
(* The circuits are numbered from the front of the chain (1, the highest   *)
(* priority) to its back (N).  Each circuit drives the interrupt enable    *)
(* input (iei) of the next one.  What a circuit does in its virtual        *)
(* methods irqack() and reti() is left open here: an acknowledge has one   *)
(* of the outcomes in FreshAcks or ReAcks, and a device may request again  *)
(* from inside reti().  The module InterruptSystem plugs in the CTC and    *)
(* the PIO.                                                                *)
(*                                                                         *)
(* Everything runs on one thread.  Z80::run alternates one instruction     *)
(* ("step"), the interrupt check ("int") and the timed callbacks           *)
(* ("callbacks").  A RETI instruction walks the chain three times, one     *)
(* circuit at a time: from back to front for the opcode byte ED, from back *)
(* to front and then, when the recursion unwinds, from front to back for   *)
(* the byte 4D.                                                            *)
(***************************************************************************)
EXTENDS Integers, Sequences

CONSTANTS N,         \* the number of circuits in the chain
          FreshAcks, \* what irqack() may do for a circuit that requests
          ReAcks,    \* what it may do for a circuit that is active already
          MaxNest    \* the guest program nests at most so many handlers

\* vector: irqack() returns a vector, not IRQ_NOT_ACK.
\* drop:   irqack() calls Z80::reset_irq_line() with its own mask.
AckOutcomes == [vector : BOOLEAN, drop : BOOLEAN]

ASSUME NAssumption == N \in Nat \ {0}
ASSUME AcksAssumption == /\ FreshAcks \subseteq AckOutcomes
                         /\ ReAcks \subseteq AckOutcomes
ASSUME MaxNestAssumption == MaxNest \in Nat \ {0}

IC == 1 .. N

VARIABLES
  iei,        \* _iei of every circuit
  ieo_reti,   \* _ieo_reti of every circuit
  irqreq,     \* _irqreq of every circuit
  irqactive,  \* _irqactive of every circuit
  irq_line,   \* Z80::_irq_line, as the set of circuits whose bit is set
  iff,        \* the interrupt enable flip-flop of the processor
  isr,        \* the handlers the guest is in, innermost last (history)
  pc,         \* where the emulation loop is
  pos         \* the circuit a RETI sweep visits next

flags == <<ieo_reti, irqreq, irqactive>>
cpu   == <<iff, isr>>
loop  == <<pc, pos>>
vars  == <<iei, flags, irq_line, cpu, loop>>

-----------------------------------------------------------------------------
(***************************************************************************)
(* The signals of one circuit.                                             *)
(***************************************************************************)

\* The circuit requests or is being served: it holds back the rest of the
\* chain.
Busy(q) == irqreq[q] \/ irqactive[q]

\* InterfaceCircuit::ieo().
ieo(q) == ieo_reti[q] \/ (iei[q] /\ ~Busy(q))

\* The test (_iei == 1) && (ieo() == 0) that ack, reti_ED and reti_4D share.
Selected(q) == iei[q] /\ ~ieo(q)

\* What _next->iei(ieo()), called in circuit p after its flags changed, leaves
\* in every _iei.  InterfaceCircuit::iei recurses to the back of the chain: an
\* input behind p ends up high when some circuit from p on drives its output
\* high and no circuit in between holds it back.
Ripple(p) ==
  iei' = [q \in IC |->
            IF q <= p THEN iei[q]
            ELSE \E r \in p .. (q - 1) :
                   /\ ieo_reti'[r] \/ (r = p /\ iei[p] /\ ~Busy(p)')
                   /\ \A s \in (r + 1) .. (q - 1) : ~Busy(s)']

-----------------------------------------------------------------------------

Init == /\ iei = [q \in IC |-> TRUE]  \* DaisyChain::add_last, N times
        /\ ieo_reti = [q \in IC |-> FALSE]
        /\ irqreq = [q \in IC |-> FALSE]
        /\ irqactive = [q \in IC |-> FALSE]
        /\ irq_line = {}
        /\ iff = FALSE
        /\ isr = <<>>
        /\ pc = "step"
        /\ pos = 0

-----------------------------------------------------------------------------
(***************************************************************************)
(* Requests.                                                               *)
(***************************************************************************)

\* Mutant of Request: the processor is not told.
RequestWithoutLine(p) ==
  /\ irqreq' = [irqreq EXCEPT ![p] = TRUE]
  /\ UNCHANGED <<ieo_reti, irqactive, irq_line>>
  /\ Ripple(p)

\* The body of InterfaceCircuit::irq() past its early return.
Request(p) ==
  /\ irqreq' = [irqreq EXCEPT ![p] = TRUE]
  /\ UNCHANGED <<ieo_reti, irqactive>>
  /\ Ripple(p)
  /\ irq_line' = irq_line \cup (IF iei[p] /\ ~ieo(p)' THEN {p} ELSE {})

\* InterfaceCircuit::irq(): nothing while a request or a handler is pending.
irq(p) == IF Busy(p) THEN UNCHANGED <<iei, flags, irq_line>> ELSE Request(p)

\* A device calls irq(): from an output instruction of the guest ("step"), or
\* from a timer or user interface callback.
Irq(p) ==
  /\ pc \in {"step", "callbacks"}
  /\ irq(p)
  /\ UNCHANGED <<cpu, loop>>

-----------------------------------------------------------------------------
(***************************************************************************)
(* The instructions of the guest that the chain can tell apart.            *)
(***************************************************************************)

\* EI.  The processor accepts no interrupt right after it, so the interrupt
\* check that follows finds z80ex_int_possible() false.
EI == /\ pc = "step"
      /\ Len(isr) < MaxNest
      /\ iff' = TRUE
      /\ pc' = "callbacks"
      /\ UNCHANGED <<iei, flags, irq_line, isr, pos>>

DI == /\ pc = "step"
      /\ iff' = FALSE
      /\ pc' = "int"
      /\ UNCHANGED <<iei, flags, irq_line, isr, pos>>

\* Any other instruction.
Other == /\ pc = "step"
         /\ pc' = "int"
         /\ UNCHANGED <<iei, flags, irq_line, cpu, pos>>

\* RETI ends the innermost handler and calls DaisyChain::reti().  A guest may
\* also execute it outside of any handler.  An EI right before it, as most
\* handlers have, takes effect with it.
RetI == /\ pc = "step"
        /\ isr' = IF isr = <<>> THEN isr ELSE SubSeq(isr, 1, Len(isr) - 1)
        /\ pc' = "ED"
        /\ pos' = N
        /\ iff' \in {iff, TRUE}
        /\ UNCHANGED <<iei, flags, irq_line>>

-----------------------------------------------------------------------------
(***************************************************************************)
(* The three sweeps of DaisyChain::reti().                                 *)
(***************************************************************************)

\* Mutant of Advance: the sweep ends one circuit too late.
AdvanceTooFar(last, q, following, first) ==
  IF pos = last - 1 THEN pc' = following /\ pos' = first
                    ELSE pos' = q /\ UNCHANGED pc

\* The sweep goes on with circuit q, or, after the last one, with circuit first
\* of the following phase.
Advance(last, q, following, first) ==
  IF pos = last THEN pc' = following /\ pos' = first
                ELSE pos' = q /\ UNCHANGED pc

\* reti_ED(): a circuit that waits for its acknowledge opens the chain.
SweepED(p) ==
  /\ pc = "ED" /\ pos = p
  /\ IF Selected(p) /\ ~irqactive[p]
       THEN /\ ieo_reti' = [ieo_reti EXCEPT ![p] = TRUE]
            /\ UNCHANGED <<irqreq, irqactive>>
            /\ Ripple(p)
       ELSE UNCHANGED <<iei, flags>>
  /\ Advance(1, p - 1, "4D_pre", N)
  /\ UNCHANGED <<irq_line, cpu>>

\* Mutant of Sweep4DPre: the rest of the chain is not told.
Sweep4DPreWithoutRipple(p, again) ==
  /\ pc = "4D_pre" /\ pos = p
  /\ IF Selected(p) /\ irqactive[p]
       THEN /\ irqactive' = [irqactive EXCEPT ![p] = FALSE]
            /\ irqreq' = [irqreq EXCEPT ![p] = again]
            /\ UNCHANGED <<iei, ieo_reti>>
            /\ irq_line' = irq_line \cup (IF again THEN {p} ELSE {})
       ELSE ~again /\ UNCHANGED <<iei, flags, irq_line>>
  /\ Advance(1, p - 1, "4D_post", 1)
  /\ UNCHANGED cpu

\* reti_4D() up to its recursive call: the handler of a selected circuit ends.
\* The device's reti() calls irq() again when again holds.
Sweep4DPre(p, again) ==
  /\ pc = "4D_pre" /\ pos = p
  /\ IF Selected(p) /\ irqactive[p]
       THEN /\ irqactive' = [irqactive EXCEPT ![p] = FALSE]
            /\ irqreq' = [irqreq EXCEPT ![p] = again]
            /\ UNCHANGED ieo_reti
            /\ Ripple(p)
            /\ irq_line' = irq_line \cup (IF again THEN {p} ELSE {})
       ELSE ~again /\ UNCHANGED <<iei, flags, irq_line>>
  /\ Advance(1, p - 1, "4D_post", 1)
  /\ UNCHANGED cpu

\* Mutant of Sweep4DPost: a circuit with a request keeps its temporary state.
Sweep4DPostKeepsState(p) ==
  /\ pc = "4D_post" /\ pos = p
  /\ ieo_reti' = [ieo_reti EXCEPT ![p] = @ /\ irqreq[p]]
  /\ UNCHANGED <<irqreq, irqactive>>
  /\ Ripple(p)
  /\ irq_line' = irq_line \cup (IF irqreq[p] /\ iei[p] THEN {p} ELSE {})
  /\ Advance(N, p + 1, "int", 0)
  /\ UNCHANGED cpu

\* Mutant of Sweep4DPost: the processor is not told.
Sweep4DPostWithoutLine(p) ==
  /\ pc = "4D_post" /\ pos = p
  /\ ieo_reti' = [ieo_reti EXCEPT ![p] = FALSE]
  /\ UNCHANGED <<irqreq, irqactive, irq_line>>
  /\ Ripple(p)
  /\ Advance(N, p + 1, "int", 0)
  /\ UNCHANGED cpu

\* reti_4D() after its recursive call: the temporary state ends, and a request
\* that is now selected reaches the processor.
Sweep4DPost(p) ==
  /\ pc = "4D_post" /\ pos = p
  /\ ieo_reti' = [ieo_reti EXCEPT ![p] = FALSE]
  /\ UNCHANGED <<irqreq, irqactive>>
  /\ IF ieo_reti[p] \/ irqreq[p] THEN Ripple(p) ELSE UNCHANGED iei
  /\ irq_line' = irq_line \cup
                   (IF irqreq[p] /\ iei[p] /\ ~ieo(p)' THEN {p} ELSE {})
  /\ Advance(N, p + 1, "int", 0)
  /\ UNCHANGED cpu

-----------------------------------------------------------------------------
(***************************************************************************)
(* The interrupt check of Z80::run.                                        *)
(***************************************************************************)

\* Mutant of Acknowledging: the input of the circuit is not looked at.
AcknowledgingWithoutInput(p) ==
  /\ ~ieo(p) /\ Busy(p)
  /\ \A q \in (p + 1) .. N : ieo(q) \/ ~Busy(q)

\* InterfaceCircuit::ack() starts at the back and stops at p.
Acknowledging(p) == Selected(p) /\ \A q \in (p + 1) .. N : ~Selected(q)

\* What irqack() of circuit p may do now.
DeviceAcks(p) == IF irqreq[p] THEN FreshAcks ELSE ReAcks

\* Circuit p answers the acknowledge with the outcome a of its irqack().
Ack(p, a) ==
  /\ Acknowledging(p)
  /\ irqreq' = [irqreq EXCEPT ![p] = FALSE]
  /\ irqactive' = [irqactive EXCEPT ![p] = TRUE]
  /\ irq_line' = IF a.drop THEN irq_line \ {p} ELSE irq_line
  /\ iff' = (iff /\ ~a.vector)                      \* z80ex_int
  /\ isr' = IF a.vector THEN Append(isr, p) ELSE isr
  /\ UNCHANGED <<iei, ieo_reti>>

Interruptible == pc = "int" /\ irq_line # {} /\ iff

Accept(p, a) ==
  /\ Interruptible
  /\ Ack(p, a)
  /\ pc' = "callbacks"
  /\ UNCHANGED pos

\* The check finds nothing to do, or no circuit answers (IRQ_NOT_ACK).
Pass ==
  /\ pc = "int"
  /\ Interruptible => \A p \in IC : ~Selected(p)
  /\ pc' = "callbacks"
  /\ UNCHANGED <<iei, flags, irq_line, cpu, pos>>

\* CallbackList::run_callbacks() returns; the loop goes round.
Loop == /\ pc = "callbacks"
        /\ pc' = "step"
        /\ UNCHANGED <<iei, flags, irq_line, cpu, pos>>

\* Z80::reset(), called from a user interface callback.  It resets the
\* processor and the devices, but no class of the chain calls
\* InterfaceCircuit::reset(), and _irq_line is left alone.
Reset == /\ pc = "callbacks"
         /\ iff' = FALSE
         /\ isr' = <<>>
         /\ UNCHANGED <<iei, flags, irq_line, loop>>

-----------------------------------------------------------------------------

Sweep == \E p \in IC : \/ SweepED(p)
                       \/ \E again \in BOOLEAN : Sweep4DPre(p, again)
                       \/ Sweep4DPost(p)

Check == Pass \/ \E p \in IC : \E a \in DeviceAcks(p) : Accept(p, a)

Guest == EI \/ DI \/ Other \/ RetI

Run == (\E p \in IC : Irq(p)) \/ Guest \/ Sweep \/ Check \/ Loop

Next == Run \/ Reset

\* The loop of Z80::run never blocks; devices and the user need not act.
Fairness == WF_vars(Guest \/ Sweep \/ Check \/ Loop)

Spec == Init /\ [][Next]_vars /\ Fairness

\* A session without a system reset.
SpecNoReset == Init /\ [][Run]_vars /\ Fairness

-----------------------------------------------------------------------------
(***************************************************************************)
(* Properties.                                                             *)
(***************************************************************************)

\* The type of every variable.
TypeOK ==
  /\ iei \in [IC -> BOOLEAN]
  /\ ieo_reti \in [IC -> BOOLEAN]
  /\ irqreq \in [IC -> BOOLEAN]
  /\ irqactive \in [IC -> BOOLEAN]
  /\ irq_line \subseteq IC
  /\ iff \in BOOLEAN
  /\ isr \in Seq(IC)
  /\ pc \in {"step", "ED", "4D_pre", "4D_post", "int", "callbacks"}
  /\ pc \in {"ED", "4D_pre", "4D_post"} => pos \in IC

\* The closed form of the signal at the input of every circuit: it is high iff
\* the nearest circuit in front that does not just pass it on drives it high
\* (the head of the chain is tied high).
Drives(r) == r = 0 \/ ieo_reti[r]
ChainForm ==
  \A q \in IC :
    iei[q] <=> \E r \in 0 .. (q - 1) :
                 Drives(r) /\ \A s \in (r + 1) .. (q - 1) : ~Busy(s)

\* In every state, also in the middle of a RETI, every input equals the output
\* of the circuit in front: the value cached in _iei is never stale, although
\* five places of ic.cc have to remember to propagate it.
ChainConsistent ==
  /\ iei[1]
  /\ \A q \in 1 .. (N - 1) : iei[q + 1] <=> ieo(q)

\* Between instructions no circuit is left in the temporary state that reti_ED
\* puts it in.
NoTemporaryState ==
  pc \in {"step", "int", "callbacks"} => \A q \in IC : ~ieo_reti[q]

\* A circuit never has a request and a handler at the same time.
RequestXorActive == \A q \in IC : ~(irqreq[q] /\ irqactive[q])

\* A request is never lost: between instructions, a circuit whose request is
\* not held back by the chain has told the processor.
NoLostRequest ==
  pc \in {"step", "int", "callbacks"} =>
    \A q \in IC : irqreq[q] /\ iei[q] => q \in irq_line

\* An acknowledge goes to the busy circuit nearest to the front: no circuit in
\* front of the one that becomes active requests or is being served.
AckByPriority ==
  [][\A p \in IC : irqactive'[p] /\ ~irqactive[p]
       => irqreq[p] /\ \A q \in 1 .. (p - 1) : ~Busy(q)]_vars

\* "interrupt is aknowledged and the interrupt service routine is still
\* running" (include/kc/ic.h): an active circuit has a handler on the guest's
\* stack.
ActiveMeansServicing ==
  pc \in {"step", "int", "callbacks"} =>
    \A q \in IC : irqactive[q] => \E k \in 1 .. Len(isr) : isr[k] = q

\* The head of the chain is served, if the guest keeps coming back to an
\* instruction boundary with interrupts enabled.
HeadServed ==
  ([]<>(pc = "int" /\ iff)) => (irqreq[1] ~> ~irqreq[1])
=============================================================================
