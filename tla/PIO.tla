-------------------------------- MODULE PIO --------------------------------
(***************************************************************************)
(* The ports of KCemu's PIO (src/src/kc/pio.cc) and the memory that port A *)
(* of the KC 85/3's PIO switches (pio3.cc, memory3.cc).                    *)
(*                                                                         *)
(* A port takes its commands as a sequence of control bytes, some of which *)
(* say what the next one means.  The machine hears of an output through    *)
(* change_A(), which gets the bits that changed: it applies these only.    *)
(* In the other direction set_EXT() sets lines of the port from outside,   *)
(* and a logical function of them asks for an interrupt when it becomes    *)
(* true.  The request's way to the processor is in InterruptSystem.        *)
(*                                                                         *)
(* A byte is the set of its bits that are 1.                               *)
(***************************************************************************)
EXTENDS Integers, FiniteSets

CONSTANTS Ports,   \* "A", "B" or both
          Bits,    \* the bits of a byte
          Data,    \* the bytes the guest writes to the data port
          Masks,   \* the bytes it writes as an interrupt mask
          Lines,   \* the groups of lines that are set from outside
          Levels   \* the levels they are set to

PIOAssumption ==
  /\ Ports \subseteq {"A", "B"}
  /\ Data \cup Masks \cup Lines \cup Levels \subseteq SUBSET Bits

VARIABLES
  mode,       \* _mode: "output", "input", "bidirectional" or "control"
  follows,    \* what the next control byte is: "bit_mode", "irq_mask" or "none"
              \* (_bit_mode_follows and _irq_mask_follows)
  value,      \* _value
  first_out,  \* _first_out
  irq,        \* _irq
  irq_enable, \* _irq_enable
  irq_mask,   \* _irq_mask: the lines that are monitored
  h_l,        \* _irq_h_l: TRUE if they are active high
  and_or,     \* _irq_and_or: TRUE if all of them have to be active
  ext,        \* _ext
  ext_fn,     \* _ext_fn
  strobe,     \* _strobe
  banks,      \* the memory banks that are switched on, by the bits of port A
  synced,     \* port A wrote all banks, and nothing got lost since (history)
  fresh       \* _ext_fn was computed for what is set now (history)

output  == <<value, first_out, irq, banks, synced>>
control == <<mode, follows>>
enable  == irq_enable
logic   == <<irq_mask, h_l, and_or>>
lines   == <<ext, ext_fn, strobe, fresh>>
vars    == <<output, control, enable, logic, lines>>

Byte == SUBSET Bits

\* PIO::PIO, and Memory3::reset.
Init == /\ mode = [p \in Ports |-> "input"]
        /\ follows = [p \in Ports |-> "none"]
        /\ value = [p \in Ports |-> {}]
        /\ first_out = [p \in Ports |-> TRUE]
        /\ irq = [p \in Ports |-> FALSE]
        /\ irq_enable = [p \in Ports |-> FALSE]
        /\ irq_mask = [p \in Ports |-> Bits]
        /\ h_l = [p \in Ports |-> FALSE]
        /\ and_or = [p \in Ports |-> FALSE]
        /\ ext = [p \in Ports |-> Bits]
        /\ ext_fn = [p \in Ports |-> FALSE]
        /\ strobe = [p \in Ports |-> FALSE]
        /\ banks = Bits
        /\ synced = FALSE
        /\ fresh = [p \in Ports |-> TRUE]

-----------------------------------------------------------------------------
(***************************************************************************)
(* Output.                                                                 *)
(***************************************************************************)

\* Mutant of Former: the first output reports the bits that are not 0 only.
FormerValue(p, v) == value[p]

\* What the port is taken to have had so far: before the first output, the
\* opposite, so that every bit changes.
Former(p, v) == IF first_out[p] THEN Bits \ v ELSE value[p]

\* The bits that are reported to change_A().
Changed(p, v) == {b \in Bits : (b \in v) # (b \in Former(p, v))}

\* The end of PIO::out_A_DATA and out_B_DATA, for a port that outputs, with
\* PIO3::change_A.
Output(p, v) ==
  /\ value' = [value EXCEPT ![p] = v]
  /\ first_out' = [first_out EXCEPT ![p] = FALSE]
  /\ irq' = IF p = "B" THEN [irq EXCEPT ![p] = TRUE] ELSE irq
  /\ banks' = IF p = "A" THEN (banks \ Changed(p, v)) \cup (v \cap Changed(p, v))
                         ELSE banks
  /\ synced' = (synced \/ (p = "A" /\ first_out[p]))

\* PIO::out_A_DATA and out_B_DATA.  A port for input keeps the value for later.
OutData(p, v) ==
  /\ IF mode[p] = "input"
       THEN /\ value' = [value EXCEPT ![p] = v]
            /\ synced' = (synced /\ (p = "A" => v = value[p]))
            /\ UNCHANGED <<first_out, irq, banks>>
       ELSE Output(p, v)
  /\ UNCHANGED <<control, enable, logic, lines>>

-----------------------------------------------------------------------------
(***************************************************************************)
(* The control bytes: PIO::out_CTRL.                                       *)
(***************************************************************************)

\* Which bits of a port in bit mode are inputs matters for what is read only.
BitMode(p) ==
  /\ follows[p] = "bit_mode"
  /\ follows' = [follows EXCEPT ![p] = "none"]
  /\ UNCHANGED <<mode, output, enable, logic, lines>>

\* A bit of the byte that is 0 selects the line.
IrqMask(p, v) ==
  /\ follows[p] = "irq_mask"
  /\ follows' = [follows EXCEPT ![p] = "none"]
  /\ irq_mask' = [irq_mask EXCEPT ![p] = Bits \ v]
  /\ fresh' = [fresh EXCEPT ![p] = FALSE]
  /\ UNCHANGED <<mode, output, enable, h_l, and_or, ext, ext_fn, strobe>>

SetEnable(p, e) ==
  /\ irq' = [irq EXCEPT ![p] = e]
  /\ irq_enable' = [irq_enable EXCEPT ![p] = e]

\* Interrupt enable or disable.
IrqEnable(p, e) ==
  /\ follows[p] = "none"
  /\ SetEnable(p, e)
  /\ UNCHANGED <<control, value, first_out, banks, synced, logic, lines>>

\* The interrupt control word.
IrqControl(p, e, all, high, mask) ==
  /\ follows[p] = "none"
  /\ SetEnable(p, e)
  /\ and_or' = [and_or EXCEPT ![p] = all]
  /\ h_l' = [h_l EXCEPT ![p] = high]
  /\ follows' = [follows EXCEPT ![p] = IF mask THEN "irq_mask" ELSE "none"]
  /\ fresh' = [fresh EXCEPT ![p] = FALSE]
  /\ UNCHANGED <<mode, value, first_out, banks, synced, irq_mask, ext, ext_fn, strobe>>

\* The mode control word.  A port that was an input outputs what it kept.
ModeControl(p, m) ==
  /\ follows[p] = "none"
  /\ mode' = [mode EXCEPT ![p] = m]
  /\ follows' = [follows EXCEPT ![p] = IF m = "control" THEN "bit_mode" ELSE "none"]
  /\ IF mode[p] = "input" /\ m # "input" THEN Output(p, value[p])
                                         ELSE UNCHANGED output
  /\ UNCHANGED <<enable, logic, lines>>

-----------------------------------------------------------------------------
(***************************************************************************)
(* The lines.                                                              *)
(***************************************************************************)

\* The lines once those of the group l are set to the levels v.
SetLines(p, l, v) == (ext[p] \ l) \cup (v \cap l)

\* The logical function of the lines x.
Function(p, x) ==
  CASE and_or[p] /\ h_l[p]   -> irq_mask[p] \subseteq x
    [] and_or[p] /\ ~h_l[p]  -> irq_mask[p] \cap x = {}
    [] ~and_or[p] /\ h_l[p]  -> irq_mask[p] \cap x # {}
    [] ~and_or[p] /\ ~h_l[p] -> ~(irq_mask[p] \subseteq x)

\* Mutant of Triggers: the level, not the edge.
TriggersByLevel(p, l, v) == Function(p, SetLines(p, l, v)) /\ irq_enable[p]

\* The function becomes true, and the interrupt is enabled.
Triggers(p, l, v) ==
  Function(p, SetLines(p, l, v)) /\ ~ext_fn[p] /\ irq_enable[p]

\* PIO::set_EXT.
SetExt(p, l, v) ==
  /\ ext' = [ext EXCEPT ![p] = SetLines(p, l, v)]
  /\ ext_fn' = [ext_fn EXCEPT ![p] = Function(p, SetLines(p, l, v))]
  /\ strobe' = [strobe EXCEPT ![p] = @ \/ Triggers(p, l, v)]
  /\ fresh' = [fresh EXCEPT ![p] = TRUE]
  /\ UNCHANGED <<output, control, enable, logic>>

\* PIO::in_A_DATA and in_B_DATA in bit mode, when somebody supplies the lines.
InData(p, v) ==
  /\ mode[p] = "control"
  /\ ext' = [ext EXCEPT ![p] = v]
  /\ fresh' = [fresh EXCEPT ![p] = FALSE]
  /\ UNCHANGED <<output, control, enable, logic, ext_fn, strobe>>

\* PIO::strobe_A and strobe_B: the strobe pin of the port.  In bit mode it is
\* that of port B only, for a port A that is bidirectional.
StrobePin(p) ==
  /\ mode[p] = "control" => p = "B" /\ "A" \in Ports /\ mode["A"] = "bidirectional"
  /\ strobe' = [strobe EXCEPT ![p] = @ \/ irq_enable[p]]
  /\ UNCHANGED <<output, control, enable, logic, ext, ext_fn, fresh>>

\* PIO::irqack.
IrqAck(p) ==
  /\ strobe[p]
  /\ strobe' = [strobe EXCEPT ![p] = FALSE]
  /\ UNCHANGED <<output, control, enable, logic, ext, ext_fn, fresh>>

\* PIO::reset and Memory3::reset, called by Z80::reset.
Reset ==
  /\ mode' = [p \in Ports |-> "input"]
  /\ follows' = [p \in Ports |-> "none"]
  /\ value' = [p \in Ports |-> {}]
  /\ irq' = [p \in Ports |-> FALSE]
  /\ irq_enable' = [p \in Ports |-> FALSE]
  /\ irq_mask' = [p \in Ports |-> Bits]
  /\ h_l' = [p \in Ports |-> FALSE]
  /\ and_or' = [p \in Ports |-> FALSE]
  /\ ext' = [p \in Ports |-> Bits]
  /\ ext_fn' = [p \in Ports |-> FALSE]
  /\ strobe' = [p \in Ports |-> FALSE]
  /\ banks' = Bits
  /\ synced' = FALSE
  /\ fresh' = [p \in Ports |-> TRUE]
  /\ UNCHANGED first_out

Guest(p) ==
  \/ \E v \in Data : OutData(p, v)
  \/ BitMode(p)
  \/ \E v \in Masks : IrqMask(p, v)
  \/ \E e \in BOOLEAN : IrqEnable(p, e)
  \/ \E e, all, high, mask \in BOOLEAN : IrqControl(p, e, all, high, mask)
  \/ \E m \in {"output", "input", "bidirectional", "control"} : ModeControl(p, m)
  \/ \E v \in Levels : InData(p, v)

Outside(p) == \/ \E l \in Lines, v \in Levels : SetExt(p, l, v)
              \/ StrobePin(p)
              \/ IrqAck(p)

Next == (\E p \in Ports : Guest(p) \/ Outside(p)) \/ Reset

Spec == Init /\ [][Next]_vars

-----------------------------------------------------------------------------
(***************************************************************************)
(* Properties.                                                             *)
(***************************************************************************)

TypeOK ==
  /\ mode \in [Ports -> {"output", "input", "bidirectional", "control"}]
  /\ follows \in [Ports -> {"none", "bit_mode", "irq_mask"}]
  /\ {value, irq_mask, ext} \subseteq [Ports -> Byte]
  /\ {first_out, irq, irq_enable, h_l, and_or, ext_fn, strobe, fresh}
       \subseteq [Ports -> BOOLEAN]
  /\ banks \in Byte
  /\ synced \in BOOLEAN

\* set_EXT() asks for an interrupt only because a monitored line became active:
\* the logical function has not been true before, and no setting made it so.
\* After a change of the settings or a read that set the lines, the next call
\* may trigger without that.
TriggersOnEdge ==
  \A p \in Ports, l \in Lines, v \in Levels :
    SetExt(p, l, v) /\ Triggers(p, l, v) /\ fresh[p] =>
      \E b \in irq_mask[p] : /\ (b \in ext[p]) # (b \in ext'[p])
                             /\ (b \in ext'[p]) = h_l[p]
EdgeTriggers == [][TriggersOnEdge]_vars

\* Once all banks were written, by the first output of all, they stay what the
\* port outputs, until a reset or a value written to the port as an input.
BanksFollow == synced /\ mode["A"] # "input" => banks = value["A"]
=============================================================================
