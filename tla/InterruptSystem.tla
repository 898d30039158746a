--------------------------- MODULE InterruptSystem ---------------------------
(***************************************************************************)
(* The interrupt system of a KCemu machine with a CTC at the head of the   *)
(* daisy chain and one or more PIOs behind it (src/src/kc/kc.cc): the      *)
(* module DaisyChain with its devices plugged in.                          *)
(*                                                                         *)
(* A CTC has Channels channels of its own with a priority among them, and  *)
(* a PIO the two ports A and B; each keeps which of them wait for an       *)
(* acknowledge and which are being served.  These flags and those of the   *)
(* circuit in the chain are two views of one thing, kept in step by        *)
(* CTC_Base::trigger_irq, irqack and reti.  The refinement ChainSpec says  *)
(* that the devices use the chain as DaisyChain allows.                    *)
(***************************************************************************)
EXTENDS Integers, Sequences, FiniteSets

CONSTANTS N,               \* the length of the chain: a CTC and N - 1 PIOs
          Channels,        \* the channels of the CTC, a number (4 in the code)
          CounterChannels, \* those whose CLK input somebody triggers
          MaxNest,         \* the guest program nests at most so many handlers
          GuestDisables    \* the guest may disable an interrupt of a device

ASSUME NAssumption == N \in Nat \ {0}
ASSUME ChannelsAssumption == /\ Channels \in Nat \ {0}
                             /\ CounterChannels \subseteq 0 .. (Channels - 1)
ASSUME MaxNestAssumption == MaxNest \in Nat \ {0}
ASSUME GuestDisablesAssumption == GuestDisables \in BOOLEAN

VARIABLES iei, ieo_reti, irqreq, irqactive, irq_line, iff, isr, pc, pos,
          ctc_enable,  \* the bit IRQ of _control of every channel
          ctc_pending, \* CTC::_irq_pending
          ctc_active,  \* CTC::_irq_active
          pio_enable,  \* PIO::_irq_enable of every PIO and port
          strobe,      \* PIO::_strobe
          pio_active   \* PIO::_irq_active

Outcomes == [vector : BOOLEAN, drop : BOOLEAN]
Chain == INSTANCE DaisyChain WITH FreshAcks <- Outcomes, ReAcks <- Outcomes

chain == <<iei, ieo_reti, irqreq, irqactive, irq_line, iff, isr, pc, pos>>
ctc   == <<ctc_enable, ctc_pending, ctc_active>>
pio   == <<pio_enable, strobe, pio_active>>
vars  == <<chain, ctc, pio>>

CTC     == 1
PIOs    == 2 .. N
Channel == 0 .. (Channels - 1)
Port    == {"A", "B"}

None(f) == \A x \in DOMAIN f : ~f[x]
Clear(f) == [x \in DOMAIN f |-> FALSE]

-----------------------------------------------------------------------------

Init == /\ Chain!Init
        /\ ctc_enable = [c \in Channel |-> FALSE]
        /\ ctc_pending = [c \in Channel |-> FALSE]
        /\ ctc_active = [c \in Channel |-> FALSE]
        /\ pio_enable = [d \in PIOs |-> [p \in Port |-> FALSE]]
        /\ strobe = [d \in PIOs |-> [p \in Port |-> FALSE]]
        /\ pio_active = [d \in PIOs |-> [p \in Port |-> FALSE]]

-----------------------------------------------------------------------------
(***************************************************************************)
(* The CTC.                                                                *)
(***************************************************************************)

\* Mutant of TryTrigger: the request bypasses irq().
TryTriggerDirectly(c) ==
  /\ ctc_pending' = [ctc_pending EXCEPT ![c] = ctc_enable[c]]
  /\ irqreq' = [irqreq EXCEPT ![CTC] = ctc_enable[c]]
  /\ irq_line' = IF ctc_enable[c] THEN irq_line \cup {CTC} ELSE irq_line
  /\ UNCHANGED <<iei, ieo_reti, irqactive, iff, isr, pc, pos, ctc_enable, ctc_active, pio>>

\* CTC::try_trigger_irq and CTC_Base::trigger_irq, from a callback: a channel
\* without interrupt forgets what it had pending, another one asks the chain,
\* unless a channel of higher priority is being served.
TryTrigger(c) ==
  /\ ctc_pending' = [ctc_pending EXCEPT ![c] = ctc_enable[c]]
  /\ UNCHANGED <<ctc_enable, ctc_active, pio>>
  /\ IF ctc_enable[c] /\ \A a \in 0 .. (c - 1) : ~ctc_active[a]
       THEN Chain!Irq(CTC)
       ELSE UNCHANGED chain

\* A channel in timer mode reaches zero: CTC::callback.
TimerZero(c) ==
  /\ pc = "callbacks"
  /\ ctc_enable[c]
  /\ TryTrigger(c)

\* A channel in counter mode reaches zero: CTC::trigger.
CounterZero(c) ==
  /\ pc = "callbacks"
  /\ c \in CounterChannels
  /\ TryTrigger(c)

\* The guest writes a control word: CTC::c_out.  What is pending stays so.
CtcControl(c, enable) ==
  /\ enable \/ GuestDisables
  /\ Chain!Other
  /\ ctc_enable' = [ctc_enable EXCEPT ![c] = enable]
  /\ UNCHANGED <<ctc_pending, ctc_active, pio>>

\* The first pending channel, the one irqack() and reti() pick.
FirstPending(c) == ctc_pending[c] /\ \A a \in 0 .. (c - 1) : ~ctc_pending[a]

\* CTC_Base::irqack().
CtcIrqack(a) ==
  /\ a.vector = ~None(ctc_pending)
  /\ a.drop = (Cardinality({c \in Channel : ctc_pending[c]}) <= 1)
  /\ IF None(ctc_pending)
       THEN UNCHANGED ctc
       ELSE \E c \in Channel :
              /\ FirstPending(c)
              /\ ctc_active' = [ctc_active EXCEPT ![c] = TRUE]
              /\ ctc_pending' = [ctc_pending EXCEPT ![c] = FALSE]
              /\ UNCHANGED ctc_enable
  /\ UNCHANGED pio

\* Mutant of CtcReti: nothing is tried again.
CtcRetiWithoutRetry(again) ==
  /\ ~again
  /\ ctc_active' = Clear(ctc_active)
  /\ UNCHANGED <<ctc_enable, ctc_pending, pio>>

\* CTC::reti(): every active channel ends; the first pending one, and no other,
\* is tried again.
CtcReti(again) ==
  /\ IF None(ctc_active) \/ None(ctc_pending)
       THEN ~again /\ UNCHANGED ctc_pending
       ELSE \E c \in Channel :
              /\ FirstPending(c)
              /\ again = ctc_enable[c]
              /\ ctc_pending' = [ctc_pending EXCEPT ![c] = ctc_enable[c]]
  /\ ctc_active' = Clear(ctc_active)
  /\ UNCHANGED <<ctc_enable, pio>>

-----------------------------------------------------------------------------
(***************************************************************************)
(* The PIOs.                                                               *)
(***************************************************************************)

\* PIO::trigger_irq, called by strobe_A, strobe_B and set_EXT: from a callback
\* or from an output instruction of the guest.
Strobe(d, p) ==
  /\ pio_enable[d][p]
  /\ Chain!Irq(d)
  /\ strobe' = [strobe EXCEPT ![d][p] = TRUE]
  /\ UNCHANGED <<pio_enable, pio_active, ctc>>

\* The guest enables or disables the interrupt of a port: PIO::out_CTRL.
PioControl(d, p, enable) ==
  /\ enable \/ GuestDisables
  /\ Chain!Other
  /\ pio_enable' = [pio_enable EXCEPT ![d][p] = enable]
  /\ UNCHANGED <<strobe, pio_active, ctc>>

\* PIO::irqack().  Port A comes first; while it is being served, B waits.
Answers(d, p) ==
  /\ strobe[d][p]
  /\ p = "B" => ~strobe[d]["A"] /\ ~pio_active[d]["A"]

PioIrqack(d, a) ==
  /\ IF \E p \in Port : Answers(d, p)
       THEN \E p \in Port :
              /\ Answers(d, p)
              /\ a = [vector |-> TRUE, drop |-> TRUE]
              /\ strobe' = [strobe EXCEPT ![d][p] = FALSE]
              /\ pio_active' = [pio_active EXCEPT ![d][p] = TRUE]
       ELSE a = [vector |-> FALSE, drop |-> FALSE] /\ UNCHANGED <<strobe, pio_active>>
  /\ UNCHANGED <<pio_enable, ctc>>

\* Mutant of PioReti: port B does not end.
PioRetiOfPortA(d, again) ==
  /\ again = IF strobe[d]["A"] THEN pio_enable[d]["A"]
                               ELSE strobe[d]["B"] /\ pio_enable[d]["B"]
  /\ pio_active' = [pio_active EXCEPT ![d]["A"] = FALSE]
  /\ UNCHANGED <<pio_enable, strobe, ctc>>

\* Mutant of PioReti: the strobes are forgotten before they are tried again.
PioRetiForgetsStrobes(d, again) ==
  /\ again = \E p \in Port : strobe[d][p] /\ pio_enable[d][p]
  /\ pio_active' = [pio_active EXCEPT ![d] = Clear(pio_active[d])]
  /\ strobe' = [strobe EXCEPT ![d] = Clear(strobe[d])]
  /\ UNCHANGED <<pio_enable, ctc>>

\* PIO::reti(): both ports end, and port A, else port B, is triggered again.
PioReti(d, again) ==
  /\ again = IF strobe[d]["A"] THEN pio_enable[d]["A"]
                               ELSE strobe[d]["B"] /\ pio_enable[d]["B"]
  /\ pio_active' = [pio_active EXCEPT ![d] = Clear(pio_active[d])]
  /\ UNCHANGED <<pio_enable, strobe, ctc>>

-----------------------------------------------------------------------------
(***************************************************************************)
(* The chain and the loop.                                                 *)
(***************************************************************************)

Guest == \/ (Chain!EI \/ Chain!DI \/ Chain!Other \/ Chain!RetI) /\ UNCHANGED <<ctc, pio>>
         \/ \E c \in Channel, e \in BOOLEAN : CtcControl(c, e)
         \/ \E d \in PIOs, p \in Port, e \in BOOLEAN : PioControl(d, p, e)

\* The circuit the sweep visits calls its reti() when its own handler ends.
Sweep4DPre(d) ==
  \E again \in BOOLEAN :
    /\ Chain!Sweep4DPre(d, again)
    /\ IF ~(Chain!Selected(d) /\ irqactive[d]) THEN UNCHANGED <<ctc, pio>>
       ELSE IF d = CTC THEN CtcReti(again) ELSE PioReti(d, again)

Sweep == \E d \in 1 .. N :
           \/ (Chain!SweepED(d) \/ Chain!Sweep4DPost(d)) /\ UNCHANGED <<ctc, pio>>
           \/ Sweep4DPre(d)

Accept(d) ==
  \E a \in Outcomes : /\ Chain!Accept(d, a)
                      /\ IF d = CTC THEN CtcIrqack(a) ELSE PioIrqack(d, a)

Check == \/ Chain!Pass /\ UNCHANGED <<ctc, pio>>
         \/ \E d \in 1 .. N : Accept(d)

Loop == Chain!Loop /\ UNCHANGED <<ctc, pio>>

\* CTC::reset() and PIO::reset(), called by Z80::reset().
Reset == /\ Chain!Reset
         /\ ctc_enable' = Clear(ctc_enable)
         /\ ctc_pending' = Clear(ctc_pending)
         /\ ctc_active' = Clear(ctc_active)
         /\ pio_enable' = [d \in PIOs |-> Clear(pio_enable[d])]
         /\ strobe' = [d \in PIOs |-> Clear(strobe[d])]
         /\ pio_active' = [d \in PIOs |-> Clear(pio_active[d])]

Devices == \/ \E c \in Channel : TimerZero(c) \/ CounterZero(c)
           \/ \E d \in PIOs, p \in Port : Strobe(d, p)

Run == Devices \/ Guest \/ Sweep \/ Check \/ Loop

Fairness == WF_vars(Guest \/ Sweep \/ Check \/ Loop)

Spec == Init /\ [][Run \/ Reset]_vars /\ Fairness

\* A session without a system reset.
SpecNoReset == Init /\ [][Run]_vars /\ Fairness

-----------------------------------------------------------------------------
(***************************************************************************)
(* Properties.                                                             *)
(***************************************************************************)

BetweenInstructions == pc \in {"step", "int", "callbacks"}

\* The devices use the chain only as the module DaisyChain allows.
ChainSpec == Chain!Spec

\* The type of the devices' variables.
TypeOK ==
  /\ Chain!TypeOK
  /\ {ctc_enable, ctc_pending, ctc_active} \subseteq [Channel -> BOOLEAN]
  /\ {pio_enable, strobe, pio_active} \subseteq [PIOs -> [Port -> BOOLEAN]]

\* The device and its place in the chain agree on whether a handler runs; a
\* circuit does not request without a channel or port that waits; and what waits
\* for an acknowledge is known to the chain: its circuit requests, or runs a
\* handler whose RETI will look for it.
ViewsAgree ==
  BetweenInstructions =>
    /\ irqactive[CTC] <=> ~None(ctc_active)
    /\ irqreq[CTC] => ~None(ctc_pending)
    /\ ~None(ctc_pending) => irqreq[CTC] \/ irqactive[CTC]
    /\ \A d \in PIOs : /\ irqactive[d] <=> ~None(pio_active[d])
                       /\ irqreq[d] => ~None(strobe[d])
                       /\ ~None(strobe[d]) => irqreq[d] \/ irqactive[d]

\* CTC::reti() complains of "more than one irq active!!!" (ctc.cc): at most one
\* channel is being served.
OneActiveChannel == Cardinality({c \in Channel : ctc_active[c]}) <= 1

\* An acknowledge of a circuit that requests yields a vector: the processor
\* enters a handler.
RequestGetsVector ==
  [][\A d \in 1 .. N : irqreq[d] /\ irqactive'[d] /\ ~irqactive[d]
       => isr' = Append(isr, d)]_vars

\* "interrupt is aknowledged and the interrupt service routine is still
\* running" (include/kc/ic.h): an active circuit has a handler on the guest's
\* stack.
ActiveMeansServicing ==
  BetweenInstructions =>
    \A d \in 1 .. N : irqactive[d] => \E k \in 1 .. Len(isr) : isr[k] = d

\* What a device believes, what the chain believes and what the guest executes
\* are one: the circuits, the channels and the handlers on the guest's stack.
DevicesAgree == TypeOK /\ ViewsAgree /\ OneActiveChannel /\ ActiveMeansServicing

\* A channel of the CTC that waits is served, once the channels in front of it
\* stay quiet, if the guest keeps coming back to its main program with
\* interrupts enabled.
ChannelServed ==
  \A c \in Channel :
    /\ []<>(pc = "int" /\ iff /\ isr = <<>>)
    /\ <>[](\A a \in 0 .. (c - 1) : ~ctc_pending[a])
    => (ctc_pending[c] ~> ~ctc_pending[c])
=============================================================================
