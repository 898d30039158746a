------------------------------ MODULE MCSlots ------------------------------
(***************************************************************************)
(* Model checking what a module in a slot adds to a machine: memory        *)
(* (Memory4), chips in the daisy chain (HotPlug) and ports (PortMap).      *)
(*                                                                         *)
(* The models share no state: a behaviour works one part, and the others   *)
(* stay as they are at first.                                              *)
(***************************************************************************)
EXTENDS Memory4

CONSTANTS PortSlots, Kinds, Machine, MaxMade  \* of PortMap

(* A KC 85/5 with a segmented module in slot 08 and a module of RAM in     *)
(* slot 0C.  The fields of a byte vary together.                           *)
TwoSlots  == [s08 |-> "segmented", s0C |-> "ram"]
Addresses == [s08 |-> 8, s0C |-> 12]
SomeOutput ==
  [A   |-> {[caos_e |-> e, ram_0 |-> e \/ i, irm |-> i, write_0 |-> e = i, basic |-> e] :
              e, i \in BOOLEAN},
   B   |-> {[ram_8 |-> r, write_8 |-> ~r] : r \in BOOLEAN},
   P84 |-> {[color |-> c, screen |-> s, segment |-> IF c THEN 0 ELSE 2] : c, s \in BOOLEAN},
   P86 |-> {[ram_4 |-> c, write_4 |-> ~c, rom |-> IF c THEN 0 ELSE 3, caos_c |-> c] :
              c \in BOOLEAN}]
SomeBytes ==
  [s08 |-> {Off, [on |-> TRUE, we |-> TRUE, base |-> "8000", segment |-> 1],
            [on |-> TRUE, we |-> FALSE, base |-> "4000", segment |-> 0]},
   s0C |-> {Off, [on |-> FALSE, we |-> TRUE, base |-> "8000", segment |-> 0],
            [on |-> TRUE, we |-> FALSE, base |-> "c000", segment |-> 0]}]

VARIABLES
  part,
  chain, next, prev, ic, line, on, plugged, crashed,
  port_list, ptr, alive, count, drives, global, slots, made
daisy == <<chain, next, prev, ic, line, on, plugged, crashed>>
ports == <<port_list, ptr, alive, count, drives, global, slots, made>>
machine == <<part, vars, daisy, ports>>

(* The chips of a KC 85 and the module M001, whose CTC goes on requesting  *)
(* when it is switched off.                                                *)
Daisy == INSTANCE HotPlug WITH
  Base <- <<"CTC", "PIO">>, Modules <- [m001 |-> <<"CTC_DIO", "PIO_DIO">>],
  Timers <- {"CTC_DIO"}, Null <- "null", slots <- plugged

Map == INSTANCE PortMap WITH Slots <- PortSlots, list <- port_list

ASSUME Daisy!HotPlugAssumption
ASSUME PortsAssumption == Map!PortMapAssumption

SlotsInit == /\ part \in {"memory", "daisy", "ports"}
             /\ Init /\ Daisy!Init /\ Map!Init
SlotsNext == \/ part = "memory" /\ Next /\ UNCHANGED <<part, daisy, ports>>
             \/ part = "daisy" /\ Daisy!Next /\ UNCHANGED <<part, vars, ports>>
             \/ part = "ports" /\ Map!Next /\ UNCHANGED <<part, vars, daisy>>
SlotsSpec == SlotsInit /\ [][SlotsNext]_machine

\* The properties of the parts.
MemoryIsThere   == part = "memory" => NoDanglingMemory
MapFollows      == part = "memory" => TypeOK /\ PointersFresh /\ MapFollowsSwitches
LinksAreTheList ==
  part = "daisy" => Daisy!TypeOK /\ Daisy!LinksAreTheList /\ Daisy!InputsAreOutputs
PortsFollow     == part = "ports" => Map!NoDeadPort /\ Map!PortsAreModules
=============================================================================
