------------------------------ MODULE MCChips ------------------------------
(***************************************************************************)
(* Model checking what timed events drive: CTC, PIO, keyboard and tape.  A *)
(* channel with and one without a CLK input, as channels 2 and 0 of the    *)
(* KC 85/3 (256, 16, 256 and 4 are scaled down to 3, 1, 2 and 2); the port *)
(* A with two bits; a keyboard of two keys with codes of two bits; a tape  *)
(* with two files, bytes of two bits and blocks of two or three bytes.     *)
(*                                                                         *)
(* The models share no state: a behaviour works one part, the device that  *)
(* it names, and the others stay as they are at first.                     *)
(***************************************************************************)
EXTENDS CTC, Sequences

CONSTANTS
  Ports, Bits, Data, Masks, Lines, Levels  \* of the PIO

NoCascade   == [c \in {0} |-> {}]
AllMachines == {[c \in {0} |-> 0], [c \in {0} |-> 2]}

VARIABLES
  part,
  pio_mode, follows, pio_value, first_out, irq, irq_enable, irq_mask, h_l,
  and_or, ext, ext_fn, strobe, banks, synced, fresh,
  key, lock, keysym, release, ctrl, offset, key_events, held, heard, since,
  format, power, deck, edges, gap, rec, played, hand
pio == <<pio_mode, follows, pio_value, first_out, irq, irq_enable, irq_mask, h_l,
         and_or, ext, ext_fn, strobe, banks, synced, fresh>>
keyboard == <<key, lock, keysym, release, ctrl, offset, key_events, held, heard, since>>
tape  == <<format, power, deck, edges, gap, rec, played, hand>>
chips == <<part, vars, pio, keyboard, tape>>

Pio == INSTANCE PIO WITH mode <- pio_mode, value <- pio_value

Kb == INSTANCE Keyboard3 WITH
  Codes <- [a |-> <<0, 1>>, b |-> <<1, 1>>], events <- key_events, control <- ctrl

Cable == INSTANCE Tape WITH
  Files <- <<<<1, 2, 3, 0>>, <<2, 1, 1>>>>, Formats <- {"kc", "z1013", "bic"},
  Width <- 2, Block <- 2, Unit <- 3, Header <- 2, Long <- 12, Short <- 2, Lead <- 2,
  Locked <- 2, MaxStarts <- 2, MaxSeeks <- 1

ASSUME PioAssumption == Pio!PIOAssumption
ASSUME Kb!KeyboardAssumption /\ Cable!TapeAssumption

ChipsInit == /\ part \in {"ctc", "pio", "keyboard", "tape"}
             /\ Init /\ (part # "ctc" => clk[0] = 0)
             /\ Pio!Init /\ Kb!Init
             /\ Cable!Init /\ (part # "tape" => format = "kc")
ChipsNext ==
  \/ part = "ctc" /\ Next /\ UNCHANGED <<part, pio, keyboard, tape>>
  \/ part = "pio" /\ Pio!Next /\ UNCHANGED <<part, vars, keyboard, tape>>
  \/ part = "keyboard" /\ Kb!Next /\ UNCHANGED <<part, vars, pio, tape>>
  \/ part = "tape" /\ Cable!Next /\ UNCHANGED <<part, vars, pio, keyboard>>
ChipsSpec == /\ ChipsInit /\ [][ChipsNext]_chips
             /\ WF_vars(part = "ctc" /\ Loop)
             /\ WF_keyboard(part = "keyboard" /\ Kb!Callback)

\* The properties of the parts.
BanksFollow   == part = "pio" => Pio!TypeOK /\ Pio!BanksFollow
EdgeTriggers  == [][part = "pio" => Pio!TriggersOnEdge]_chips
TimerGoesOn   == part = "ctc" => KeepsCounting /\ ProcessorGoesOn
WordsWhole    == part = "keyboard" => Kb!TypeOK /\ Kb!WordsWhole
FallsSilent   == part = "keyboard" => Kb!FallsSilent
CopyIsTrue    == part = "tape" => Cable!TypeOK /\ Cable!CopyIsTrue
=============================================================================
